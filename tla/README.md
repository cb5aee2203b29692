# TLA+ models of the iEMS Home Assistant integration

The integration (`src/custom_components/iems/`) watches Home Assistant states, folds
them into one row per entity and minute, and publishes batches to the iEMS cloud over
MQTT.  The cloud steers it with commands on an MQTT topic and with the answers of
`/hacs/status`.  Everything runs on Home Assistant's event loop, so a handler is atomic
up to its next `await`; the interesting interleavings are those across awaits (a publish,
a subscribe, a status pull, a recorder query), across the network, and across reloads.

## Inventory

| Part | State | Operations | What is hard | What makes it correct |
|---|---|---|---|---|
| Coordinator (`coordinator.py`) | accumulators per entity and minute, finalised mark, last emitted state and fault words, pending transition rows | `capture_state_change`, `flush`, `_drain_finalised_rows`, `start`/`stop` | late events, first-flush force-seal, outages, chunks with awaits in between, reload, a clock that is set back | no minute shipped twice, rows ascend, no complete minute lost, the cloud ends up showing the truth |
| Publish gate (`coordinator.py`, `const.py`) | `shipping_mode`, whitelist and its version | `set_shipping_mode`, `set_whitelist`, `reconcile_from_status` | stale and repeated messages, changes while a flush or a drain is under way | nothing unconfirmed leaves; the newest list wins |
| Publisher (`publisher.py`) | bounded retry queue | `publish_telemetry`, `drain_queue` | concurrent drains, sends during a drain, a full queue, uncaught exceptions | one owner per batch, order, bounded loss, the backlog drains |
| Command channel (`iot_core.py`, `__init__.py`, `command_handler.py`, `status_client.py`) | connection flag, recorded subscriptions, callbacks of the connection object, running tasks | `connect`, `subscribe`, `resubscribe_all`, `_reregister_subscriptions`, resume hook, startup pull | rebuilds and auto-resumes, session expiry, QoS 1 redelivery, pulls that overlap commands | no command unheard, the gate converges to the cloud's truth |
| Recovery (`recovery.py`) | one ack slot | `recover_window` | partial failure, overlapping recoveries, lost heartbeats | an honest ack, always an answer |
| MQTT connection (`iot_core.py`) | awscrt connection, connected flag, connect lock | `publish` with its retry loop, `connect`, `_reconnect_with_fresh_creds`, callbacks | callbacks of a replaced connection, concurrent rebuilds and refreshes | the current connection is a live one, a refresh gets new credentials, every publish ends, a dropped connection comes back |
| Auth (`auth.py`) | cached credentials | `get_credentials`, `close` | concurrent refreshes, expiry margin | single flight, nothing stale after a refresh |
| Automation commands (`command_handler.py`) | `automations.yaml`, seen draft tokens | write, delete, enable, rename | concurrent read-modify-write, failures in the middle | a command changes its own entry only; a failed one can be sent again |
| Automation sync (`automation_sync.py`) | debounce timer, suppress window | change events, `suppress` | a user's change around the window | the card converges on what is loaded |
| Setup snapshot (`snapshot.py`, `_collect` in `__init__.py`) | once-guard | first install, command | several at once, reload, failure; devices that register late; caps | the newest one wins and lists the devices there are |
| Config entry (`config_flow.py`, `__init__.py`) | API key, unique id, state of the entry, open flow | setup, unload, user flow, reauth | a flow, a setup and a retry at once; outages and revoked keys; restarts | no account is swapped, a stored key comes into use, an outage asks nothing of the user |
| Self update (`command_handler.py`) | one ack slot | `self_update` | redelivered and concurrent commands, failing heartbeats, reload, restart | no restart in vain, what is installed goes live, its ack is heard |
| Telemetry, classifier, dedup, m-Tronic, edge PoC | none, or dead code | pure building and tables | | |

Interaction: state events → coordinator → (gate) → publisher → `iot_core.publish` → broker.
Heartbeats carry counters and acks and drain the publisher's queue.  Commands arrive through
`iot_core`'s subscription callback and change the gate or start a recovery, an automation
write, a snapshot or a self update.  Resume hooks re-subscribe and pull the status.

## Modules

* **ShippingGate** — mode and whitelist, and the two ways the cloud moves them.  Extended by
  the modules that need a gate.
* **Coordinator** — capture, sealing, send policy and the chunk loop.  `StateChanged` is
  `capture_state_change` (its late guard, outage, latest-only and sampling branches are the
  disjuncts, in that order), `BeginFlush` is what `flush` does up to its first await (drain,
  seal, gate, cap, supersede, mode gate, whitelist), `ChunkDone`/`FlushAborted` what follows
  each publish.  `Stop` is `stop()` under an unload or a restart, `Start` the listener and the loops
  of the next setup; between them (exchange, connect, retries) a change is `Unheard`: Home
  Assistant has it and no coordinator, and nothing captures current states at the start.  A
  change between the cancelled loops and the removed listener inside `stop()` is captured by a
  coordinator that ships nothing any more: it counts as unheard.  `handed` is history.
  Minutes are numbers; states are numbers, texts or one of the two outage strings.
* **CoordinatorCloud** — composes Coordinator with the ingestion the comments describe
  (the last row of an entity wins `LATEST#`; numbers extend the chart), to say what the send
  policy promises at the far end.  Here batches arrive in the order they are published.
  History: `lost` (rows that were dropped), `missed` (entities whose newest change was unheard).
* **Publisher** — the deque and every task that touches it.  A step runs from the answer of
  one publish to the start of the next: `Sent`, `SendFailed`, `SendRaised` for senders,
  `DrainQueue`, `DrainSent`, `DrainFailed`, `DrainRaised` for heartbeats.  A failed publish
  may have arrived all the same (only its PUBACK was lost).
* **BatchChannel** — what the publisher promises of a batch, without queue or tasks: it is pending
  until it has arrived or is lost, and then never again.  `Publisher!ImplementsChannel` maps
  `pending` to everything the queue and the tasks hold.
* **Shipping** — composes ShippingGate and Publisher: which entities' rows leave and what the
  cloud shows, with the queue in between and recoveries that do not ask the gate.  Two heartbeats
  may drain at once, the loop's and one that a command fires (`recover_window` and `self_update`
  each do).  `builder` is history (which sender built a batch), and so is `overlapped`: whether two
  drains were under way together since queue and drains were last empty.
* **Recovery** — `recover_window` on top of Publisher: recorder query, chunks, ack slot,
  and the heartbeats that carry the ack.  `_finish` and the building of the immediate
  heartbeat are one step because no await separates them.
* **CommandChannel** — the cloud, the broker's persistent session, the connection object and
  the startup and resume tasks around the gate.  The cloud and the broker are external: the
  session queues QoS 1 commands, redelivers without a PUBACK, and may expire offline.
* **VersionedRegister** — what the whitelist promises: a copy that takes a newer version whole or
  begins anew.  `CommandChannel!ImplementsRegister` maps it to the whitelist, its version and the
  lists the cloud has declared.
* **AutomationStore** — commands that change `automations.yaml`, each a task that reads, writes,
  reloads and takes a snapshot with an await before each (`ReadStore`, `WriteStore`,
  `ReloadAutomation`, `CollectSnapshot`, `PublishSnapshot`), the change listener with its debounce
  timer and suppress window (`OnChange`, `Suppress`, `DebounceElapsed`), and a reload of the
  entry.  Home Assistant's file, automation component and editor are external.  `missed` is a
  history variable: it is set when an edit of the user fell into a suppress window or a snapshot
  was not published or came out of order, and cleared when a snapshot is collected.
* **Connection** — `IotCorePublisher.publish` with everything it awaits: the connect lock, the
  credential exchange, the build, the re-registration, the publish, the retry sleep, the teardown
  of a refresh.  awscrt's threads act on connection objects (`Interrupted`, `Resumed`) and post to
  the event loop (`posted`), where `Mark` flips the flag.  An object counts by the number of the
  exchange whose credentials it was built with.  `Unload` is what `async_unload_entry` does to it,
  under publishes and rebuilds that go on: `disconnect()` takes no lock and waits for no task.
* **ConfigEntry** — the entry from its creation on: `SetupStarts` … `SetupDone` are
  `async_setup_entry` from await to await (exchange, connect), `Submit` … `ReauthAborted` the two
  flows of `config_flow.py`, `Reload` and `Restart` an unload and a restart of Home Assistant.  What
  Home Assistant makes of `ConfigEntryNotReady`, `ConfigEntryAuthFailed` and any other exception is
  the state of `entry`.  A key stands for an account by `AccountOf`.
* **SelfUpdate** — `_handle_self_update` beside the entry, one step per await: refresh, install,
  heartbeat of the ack, delay, restart; `CommandInvalid` is the error ack of a version that is no
  exact pin.  Its tasks outlive a reload (`current` says whether their
  coordinator is still the one of the entry) and die with Home Assistant.  What is installed is
  `staged` and `running` from the next restart on.
* **Site** — composes both with the devices: `BuildEntityIndex`, `EntityRegistry` and
  `EntityClassifications` are the functions of those names, tiers, order and caps included;
  `TakeSnapshot` is `_collect` with a fresh index, `EntryStepHere` builds the coordinator's.
* **CoordinatorProofs, PublisherProofs, RecoveryProofs, ShippingProofs, ChannelProofs,
  ConnectionProofs, StoreProofs, SiteProofs** — the theorems about the module each extends, see
  Proofs.  Recovery and Shipping share the lemmas of PublisherProofs.
* **MCCoordinator, MCCoordinatorCloud, MCShipping, MCRecovery, MCCommandChannel,
  MCAutomationStore, MCConnection, MCSite** — the instances for TLC, one `.cfg` per question.

Operators marked "Mutant" are plausible faults that stand next to the definition they alter;
no specification uses them.

## Runs and what they show

Passing runs:

| Run | Shows | Instance |
|---|---|---|
| `sealing` | no minute is shipped twice or reopened, rows ascend | one always entity, minutes 0–2, a clock that may step back, chunks of one row, modes that change, one reload |
| `policy` | the held chart stays within the threshold of the truth, no entity whose recovery was heard is frozen at unavailable, re-fire suppression loses no transition | a threshold entity (threshold 2, states 0, 1, 2, unavailable) or a fault entity (two words) that reports while the other rests; row cap and chunk size 1, one stop and start with changes in between |
| `gated` | what a flush built and the broker has was confirmed; the queue stays in order until two drains overlap; every batch is accounted for when it overflows and publishes raise | two entities, two messages, three batches, queue of two, the batch loop and a recovery, two heartbeats |
| `channel` | lists are genuine, never regress, and the newest wins once all is quiet; the whitelist implements VersionedRegister | two task slots, link drops, session expiry, redelivery, one reload, all failures |
| `recovery` | one owner per batch, no loss below capacity, the backlog drains, the publisher implements BatchChannel; a recovery's ack claims no more than arrived, and it always comes | the batch loop and two overlapping recoveries of one window, three heartbeats, queue of two, two batches, publishes that raise |
| `automations` | once all is quiet the card shows what is loaded; only a stored write uses its token | two commands, two edits, one reload, two task slots, debounce 1, window 2 |
| `connection` | the current connection is never a dead one, a refresh gets new credentials, a publish that never ends waits for a disconnect without a timeout | two tasks, three objects, two attempts, two exchanges, an unload at any time |
| `site` | a reauth, a setup and a retry that overlap never move the entry to another account, and a stored key comes into use; a self update restarts only into another version, goes live, and is heard of; a snapshot lists every device and energy entity that fits | two keys of one account and one of another, a legacy, a current or no entry; two versions, two handlers; a switch, a sensor and a number, caps of one |

Violation runs, each against a sentence of the code's own comments (quoted under
`findings` in PROJECT.json):

| Run | What the code does |
|---|---|
| `stale` | a status answer read before a command and applied after it restores the old mode: the mode has no version |
| `overtaken` | a batch that waits in the queue is drained after a newer one and its rows win `LATEST#` |
| `overwritten` | a command writes back the list it read, without the entry someone else saved in between |
| `wedged` | a "resumed" of the object a refresh tears down, before a rebuild that fails, leaves `_connected` true without a connection: `connect()` then does nothing and every publish raises until the next callback or reload |

**Bounds.**  One entity suffices for sealing because accumulators, marks and baselines are per
entity and only chunks, modes and the row list are shared.  Three minutes let one minute be
force-sealed, one be sealed in the ordinary way and one be open; the row cap and the chunk
size are shrunk to 1 or 2 so that they bite.  The `policy` instance is a union of two: the
constraint `OneReports` keeps the other entity at rest, and `NothingLost` stops following a
behaviour once a row was discarded, because the properties speak of entities of which none
was, and a loss is for good.  Queue depths are shrunk so that the batches of the instance overflow
them (`gated`) or just fit (`recovery`).  Two exchanges let a refresh overlap
another task's; three objects are the current one, the one being torn down and the one being
built.  In `automations` time is counted in units of the debounce: only its order against
the suppress window matters, which is longer (8 s against 5 s).  `MaxSamples`, `MaxPending`,
`MaxReloads`, `MaxBatches`, `MaxChunks`, `MaxCommands`, `MaxEdits`, `MaxGateChanges`, `MaxExchanges`
and `MaxPosted` only cut executions off.

In `site`, `MaxConcerns = 1` makes the instance a union of three: a behaviour meets outages,
reloads and restarts at any time, and of pasted or revoked keys, update commands and devices
that come and go one kind.  The three share the state of the entry and nothing else, so a
behaviour with two kinds is one with each beside it.  Two versions let a command be for the
running one or for another; two different installs never overlap then (which one wins is not
asked).  The three ids sort against the tiers, so that a cap of one evicts the wrong one if
the order is not by tier.  Publishes of a command that begin after the unload are left out of
`connection`: they are the steps of those before it.

No symmetry is used.  Deadlock is checked
except in the channel and automation runs, where the bounded cloud and user fall
silent and the system rightly waits.

**Fairness.**  `RecoverySpec` assumes that the recorder answers, that a publish ends (the code
bounds each with a timeout) and that the heartbeat loop comes round and drains while the link is
up; nothing of the link, the flushes or of heartbeats that commands start.  `ConnSpec`
assumes that what is awaited with a timeout ends (`Bounded`: exchange, connect, subscribe, publish),
not the disconnect of a refresh, which is awaited without one (`iot_core.py:716`); and, strongly, that a
task that waits for the connect lock gets it: `asyncio.Lock` serves its waiters in order.  That a publish ends is
`OnlyTeardownHangs` there, up to that disconnect; `RecoverySpec` and `SiteSpec` assume it of the
publishes of their tasks, and so leave out a task that hangs in it.  `SiteSpec` assumes that Home Assistant
starts the setups, retries and reloads it has scheduled and makes or refuses the restart it was
told to make, that the awaits of a setup, a flow and a command end (each has a ceiling or a
timeout), and that the heartbeat loop comes round; nothing of the user, the cloud, HACS or the
devices.  `AckIsHeard` speaks only of behaviours in which the entry is loaded and the link up from
some time on.  Nothing is assumed of the broker, the callbacks or the links.  Safety runs assume nothing.

## Known behaviour without a run

Met while modelling; the models contain each that speaks of modelled state, and no property
depends on its absence.

* An entity that recovers between `stop()` and the listener of the next setup (`__init__.py:563-568`,
  `:273`: exchange, connect, retries or a restart lie between) is heard by no coordinator, and a
  setup captures no current states: shipped unavailable, it stays so in the cloud until it changes
  again, although `coordinator.py:852-853` says the recovered value must surface.  The `policy` run has
  the gap (`Unheard`), and `RecoverySurfaces` excuses what fell into it (`missed`).
* Two heartbeats that each hold a part of the queue and fail put it back in the order they fail, so
  a newer batch may stand before an older one, although `publisher.py:80` says that FIFO order is
  preserved.  The `gated` run has both drains; `QueueAscends` asks for the order until they overlap.
* An exchange that meets a 5xx, a 429 or a timeout ends the setup with `ConfigEntryAuthFailed`
  (`__init__.py:201`: `TransientAuthError` is an `AuthExchangeError`), although `:170-171` says that
  transient errors are retried: the user is asked for a key that is not at fault.
* A setup that is still exchanging the old key of a legacy entry heals its unique id to the account
  of that key after a reauth has stored the key of another account (`config_flow.py:270-277`).
  `NoRepoint` speaks of entries whose account is known.
* A reload inside a minute that was force-sealed ships that minute again: nothing of the sealing
  survives the coordinator (`coordinator.py:1324`).  `NoDoubleShip` speaks of one coordinator.
* After `reauth_account_mismatch` the entry stays failed without a form until a reload or a
  restart.  A key that is revoked while the entry is loaded never leads to a form: only a setup does.
* An exception of awscrt in the first connect is none of those `async_setup_entry` maps, so Home
  Assistant does not retry that setup.
* `publish_on_first_install` says that a reload publishes nothing (`snapshot.py:810`), but each
  setup has a manager of its own and asks it once, so every setup publishes a first-install snapshot.
* `async_unload_entry` waits for none of the background tasks.  One that publishes or rebuilds then
  connects the old adapter again, under the client id of the new one, and the broker lets only one live.
* `homeassistant.restart` is called with `blocking=False`: a restart that is refused later is never
  reported.  Of two overlapping self updates the one that installs last wins.
* The coordinator's index is built once per setup: what registers later is in the snapshots and
  may be confirmed, but is not captured until a reload.

* An outage drops the complete minutes of the entity that only waited for the next flush
  (`coordinator.py:556-565`), and an outage right after the first flush is taken for a late event.
* `appendleft` on a full deque drops the newest batch, not the oldest (`publisher.py:192`).
* An exception that is not caught in the middle of a drain loses the batches already taken.
* A mode or whitelist change does not stop the remaining chunks of a flush under way nor what
  is queued; a recovery never asks the gate.
* A command delivered to a rebuilt connection object that has no callback yet is dropped by
  awscrt; the next pull brings the list and the mode, but nothing pulls after a rebuild.  A startup
  subscribe that fails at its own reconnect records nothing, so no later reconnect subscribes.
* A state of a sampled category that does not parse as a number stays a text; a text that follows an
  outage within one window does not supersede it, and the cloud keeps showing the outage until the
  next row.  The same happens to a value stamped by a clock that was set back in between.
* A second recovery overwrites an ack that no heartbeat has delivered.
* Two deliveries of one write command that overlap both write; the second has the same text, and
  matters only when someone edited the entry in between.
* An exception of the classifying and folding between the query and the chunks of `recover_window`
  (`recovery.py:434`-`:488`, outside its `try` blocks) ends the command without an ack; such exceptions
  are not modelled.
* In `Recovery` the link is abstract: a flag that is up without a connection (`wedged`) counts as a
  link that is down.

## Proofs

Each theorem holds for all values of the constants that satisfy the named assumptions of the
modules.  Every proof rests on an inductive invariant, shown for `Init` and, one lemma per action
or group of actions, for every step; nothing is assumed about the order of steps, and no fairness.

| Module | Theorems | Invariant |
|---|---|---|
| CoordinatorProofs | `TypeCorrect`, `SealedOnce` (`NoDoubleShip`), `MarkSeparates` (`SealedStaysSealed`), `RowsAscend` (`ChronologicalRows`); `CloudTypeCorrect`, `Transitions` (`TransitionsConverge`), `HoldLast` (`HoldLastTracks`), `RecoveredShows` (`RecoverySurfaces`) | `SealInv`; `CloudBase` with `Follows`, `Holds`, `OutageIsOld`, `Returns` |
| PublisherProofs | lemmas for the two below | `PubInv` |
| RecoveryProofs | `RecoveryTypeCorrect`, `RecoveryAckIsHonest`, `BatchInOneHand`, `QueueDropsNothing` (`NothingDroppedBelowCapacity`), `RecoveryImplementsChannel` | `RecInv` |
| ShippingProofs | `ShippingTypeCorrect`, `OnlyConfirmed` (`OnlyConfirmedLeaves`), `AllAccounted`, `QueueKeepsOrder` (`QueueAscends`) | `ShipInv`, `OrderInv` |
| ChannelProofs | `ChannelTypeCorrect`, `WhitelistIsGenuine` (`VersionedListIsGenuine`), `WhitelistConvergence`, `VersionNeverGoesBack`, `ChannelImplementsRegister` | `ChannelInv` |
| ConnectionProofs | `ConnTypeCorrect`, `ConnectionIsLive` (`CurrentIsLive`), `RefreshIsFresh` (`RefreshGetsNewCredentials`) | `ConnInv` |
| StoreProofs | `StoreTypeCorrect`, `CardConverges` (`CardIsTrue`), `TokensAreForWrites` | `StoreInv` |
| SiteProofs | `SiteTypeCorrect`, `RestartsHaveAPoint` (`NoPointlessRestart`), `EntryNotRepointed` (`NoRepoint`), `SnapshotFindsAll` | `SiteInv` |

Why none of the properties is inductive by itself, and what each invariant adds:

* **Sealing.**  A flush in an arbitrary state could batch an accumulator of a minute already
  batched.  `SealInv` adds the finalised mark: every open minute is above it, every handed one at or
  below.  A capture keeps the first half because the late guard refuses minutes up to the mark; a
  flush keeps both because it raises the mark to the newest sealed minute and clears what it
  sealed.  Nothing is assumed about `now`, so the proof covers a clock that goes back.
* **Cloud.**  The properties speak of an entity at rest, and a step before it comes to rest nothing in
  them says what the cloud will show.  `Final` does (the entity's last row still to leave, else
  `latest`), and `Charts` for its chart; `LastExists` shows that the rows of an entity have a last one and
  `LastLeavesLast` that a chunk takes it only with all the others, so a chunk moves neither.  `Follows`
  ties `Final` and `lastEmitted` of a latest-only entity to Home Assistant's state.  `Holds` says that the
  gate's baseline is what the chart will end with.  For recovery, `OutageIsOld` (a queued outage is
  no newer than what is open, so a value supersedes it), `Idle` and `MissedIsBlank` (while nobody
  listens nothing is open or queued, and of an entity whose newest change was unheard the next coordinator
  knows nothing) and `Returns` (while the cloud is bound to
  show an outage, the gate has no number to compare with, and an entity that is back has an open minute).
* **Publisher.**  That no batch is in two hands says nothing of numbers yet to be given out: `Known`
  adds that whatever is held, arrived or lost was produced, so a new batch is in no hand.  `StepMoves`
  gathers all the steps into one form, in which one task and the queue exchange batches and what
  leaves both has arrived or is lost; the theorems about every batch, and the step of `BatchChannel`
  that each step implements, follow from that form rather than from each action anew.
* **Recovery.**  An ack is built from counts.  `Tally` ties them to the chunks while the recovery is
  under way: without a failure all the chunks behind it have arrived, and one that was counted as
  published has.
* **Shipping.**  `OnlyConfirmedLeaves` speaks of what arrived; a batch in the queue is already beyond
  the gate.  So `BuiltConfirmed` speaks of everything a flush built, and `GateConfirmed` of what
  an active gate would let through next; `ByTheirOwn` keeps the batches of recoveries, which never
  ask the gate, apart.
* **Order of the queue.**  The queue alone says nothing of the batches a drain will put back before
  it or a sender behind it.  `OrderInv` reads the batches of one sender that are drained, queued and in
  its hand as one line that ascends (`InLine`), as long as no drains overlapped, when at most one
  heartbeat holds any (`Alone`); put-backs and overflow then keep the order of the queue.
  `HandInOrder` holds through overlaps too, so that the line stands again once the backlog is empty.
  Nothing is assumed of the numbers of heartbeats and senders.
* **Channel.**  `OnItsWay` makes every message that carries a list, in the broker or in a task, carry
  it as the cloud numbered it, and `HeldIsGenuine` what the gate holds; a gate that asks the version of
  both can then only move to a newer list.  For convergence `NewestComes` says where the newest list
  is until it is in the gate: in an inbox with a callback, in an answer, or still to be pulled; `Wired`
  says that after a pull without trouble the callback and the session are there or about to be.
* **Connection.**  `LockExcludes` (only the holder of the connect lock builds), `ObjectsInHand` and
  `BuiltIsOwn` (what is being built is known to its builder alone, what is torn down is no longer
  current) give `CurrentIsLive`; `Numbered` and `CacheIsNewer` order the credentials by their exchanges.
* **Automations.**  `CardFollows` says that unless a snapshot is still to be collected or something was
  missed, the card shows what is loaded or the one snapshot that was collected last will;
  `OneNewest` says that there is at most one of those.
* **Site.**  A restart is only called by a handler past its install: `NotRunning` says that a version
  that is being installed does not run yet, `Staged` that then what is on disk does not either.  The lists
  of a snapshot are ranks in a sort order: `FirstAreFew` maps the listed ones to distinct numbers below the cap,
  `DevicesFound` counts what may stand in front of a device.

Assumptions worth naming: `Senders` and `Heartbeats` are disjoint, the messages of a Shipping
instance are messages of ShippingGate, the entity registry is finite and ids are totally ordered, no account
is called like the legacy unique id, and bounds are natural numbers.

`HoldLast` and `RecoveredShows` assume that sampled entities report numbers or outages (`NumbersOf`,
for `HoldLast` of the threshold ones only): every category with these policies is in
`_NUMERIC_CATEGORIES` (`coordinator.py:82`, `:132`), so a text is a state that does not parse as a number.
`RecoveredShows` also assumes that the wall clock is not set back (`~ClockMayStepBack`).  Each of these is
necessary: TLC refutes `HoldLastTracks` for an entity that also reports a text (a text minute passes the
gate and under the row cap displaces the number that became the baseline), `RecoverySurfaces` for such
an entity (only a number supersedes an outage row, which then follows the text in its batch), and
`RecoverySurfaces` with a clock that steps back (the outage row is newer than the minute that should
supersede it).

Only model-checked: liveness (`BacklogDrains`, `EveryWindowIsAnswered`, `OnlyTeardownHangs`,
`StoredKeyIsUsed`, `InstalledGoesLive`, `AckIsHeard`), because fairness is out of the prover's
reach.  The properties of the violation runs are false.

## Not modelled

* Payload building and its size checks (`telemetry.py`), the other sections of a snapshot: pure
  functions of what they are given, without state.
* The classifier's tables: string rules whose result is a constant of the models (`Bucket`,
  `EnergyEntities`).  `dedup.py` is called by its tests only.
* The m-Tronic branch, which `__init__.py` never wires, and the edge PoC, which it no longer starts.
* A second install of the integration, which the account's unique id rejects (a legacy entry of
  the same account is not recognised); two flows at once.
* `enable_automation` and `rename_device`: one service call or registry write, no state of theirs.
* Seconds: the models count minutes or no time, so the relative phase of the two loops is left open.
* `bool` states, units and areas.

## Plan

Done: ShippingGate, Coordinator, CoordinatorCloud, Publisher, Shipping, Recovery, CommandChannel,
AutomationStore, Connection, ConfigEntry, SelfUpdate, Site, the abstract BatchChannel and
VersionedRegister, and the proofs of all of them.  Next, in this order:

1. `BatchLoop` — windows in seconds: how many minutes one window can hold against the row cap.
