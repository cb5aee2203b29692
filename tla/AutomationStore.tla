--------------------------- MODULE AutomationStore ---------------------------
(***************************************************************************)
(* Automations between the cloud and Home Assistant: the write_automation, *)
(* delete_automation and take_setup_snapshot commands (command_handler.py),*)
(* the listener for changes the user makes (automation_sync.py), and the   *)
(* setup snapshots that show the cloud's card what is loaded (snapshot.py).*)
(* Home Assistant's side, the file, the component that loads it and its    *)
(* own editor, is external.  Time is counted in units of the two windows.  *)
(***************************************************************************)
EXTENDS Integers, FiniteSets

CONSTANTS
  Id, Config,          \* automations, and what one can say
  Token,               \* draft tokens of write commands
  Tasks,               \* slots for commands, the timer's callback, the startup task
  Debounce,            \* DEFAULT_DEBOUNCE_SECONDS
  SuppressWindow,      \* DEFAULT_SELF_APPLY_SUPPRESS_SECONDS
  MaxCommands, MaxEdits, MaxReloads   \* bounds of the model

ASSUME StoreAssumption ==
  /\ Debounce \in Nat \ {0} /\ SuppressWindow \in Nat
  /\ MaxCommands \in Nat /\ MaxEdits \in Nat /\ MaxReloads \in Nat

VARIABLES
  file,        \* automations.yaml
  loaded,      \* the automations the component runs
  card,        \* the automations of the newest setup snapshot the cloud has
  task,        \* per slot: where it is, and its locals
  seen,        \* _seen_draft_tokens
  suppressed,  \* time left of _suppress_until
  timer,       \* time left of the debounce timer
  missed,      \* history: since the last snapshot was collected, an edit of the user
               \* was ignored, a snapshot was not published, or an older one was
  counts       \* counters for the bounds

storeVars == <<file, loaded, card, task, seen, suppressed, timer, missed, counts>>

Absent == "absent"
Store  == [Id -> Config \cup {Absent}]
Off    == -1           \* no timer is armed
NoToken == "none"

Steps == {"idle", "read", "store", "reload", "collect", "publish"}
Idle  == [at |-> "idle"]

Nothing == [i \in Id |-> Absent]

(* A write, or a delete when config is Absent; list is what it will have   *)
(* read of the file.  A snapshot: automations is what it has collected.    *)
Apply(i, c, k) ==
  [at |-> "read", id |-> i, config |-> c, token |-> k, list |-> Nothing]
Publishing(automations, newest) ==
  [at |-> "publish", automations |-> automations, newest |-> newest]

At(t, step)  == task[t].at = step
Go(t, local) == task' = [task EXCEPT ![t] = local]
Step(t, at)  == Go(t, [task[t] EXCEPT !.at = at])

StoreTypeOK ==
  /\ {file, loaded, card} \subseteq Store
  /\ \A t \in Tasks : task[t].at \in Steps
  /\ seen \subseteq Token
  /\ suppressed \in 0 .. SuppressWindow
  /\ timer \in {Off} \cup 0 .. Debounce
  /\ missed \in BOOLEAN
  /\ counts \in [commands : 0 .. MaxCommands, edits : 0 .. MaxEdits,
                 reloads : 0 .. MaxReloads]

StoreInit ==
  /\ file \in Store /\ loaded = file
  /\ card = Nothing
  /\ \E t \in Tasks : task = [u \in Tasks |-> IF u = t THEN [at |-> "collect"] ELSE Idle]
  /\ seen = {}
  /\ suppressed = 0 /\ timer = Off
  /\ missed = FALSE
  /\ counts = [commands |-> 0, edits |-> 0, reloads |-> 0]

Counted(what, bound) == counts[what] < bound /\ counts' = [counts EXCEPT ![what] = @ + 1]

-----------------------------------------------------------------------------
(* _on_change: ignored inside the window of an apply of ours, or else the  *)
(* timer is armed anew.                                                    *)
OnChange == timer' = IF suppressed > 0 THEN timer ELSE Debounce

(* Mutant: the windows of several applies add up. *)
SuppressLonger == suppressed' = suppressed + SuppressWindow

(* suppress(): extends the window, never shortens it. *)
Suppress == suppressed' = SuppressWindow

-----------------------------------------------------------------------------
(* write_automation: validated fields and a token not seen before.  The    *)
(* window opens before Home Assistant validates the configuration, which   *)
(* may reject it.                                                          *)
WriteAutomation(t, i, c, k) ==
  /\ At(t, "idle") /\ Counted("commands", MaxCommands)
  /\ IF k \in seen THEN UNCHANGED <<task, suppressed>>
     ELSE Suppress /\ \/ Go(t, Apply(i, c, k))
                      \/ UNCHANGED task
  /\ UNCHANGED <<file, loaded, card, seen, timer, missed>>

DeleteAutomation(t, i) ==
  /\ At(t, "idle") /\ Counted("commands", MaxCommands)
  /\ Suppress
  /\ Go(t, Apply(i, Absent, NoToken))
  /\ UNCHANGED <<file, loaded, card, seen, timer, missed>>

TakeSetupSnapshot(t) ==
  /\ At(t, "idle") /\ Counted("commands", MaxCommands)
  /\ Go(t, [at |-> "collect"])
  /\ UNCHANGED <<file, loaded, card, seen, suppressed, timer, missed>>

(* _read_automations_yaml on the executor.  A delete of an unknown id ends *)
(* here, with its window left open.                                        *)
ReadStore(t) ==
  /\ At(t, "read")
  /\ IF task[t].config = Absent /\ file[task[t].id] = Absent THEN Go(t, Idle)
     ELSE Go(t, [task[t] EXCEPT !.at = "store", !.list = file])
  /\ UNCHANGED <<file, loaded, card, seen, suppressed, timer, missed, counts>>

Marked(t) == seen' = seen \cup ({task[t].token} \ {NoToken})

(* Mutant: a failed write uses up its token as well. *)
StoreFailedMarked(t) ==
  /\ At(t, "read") \/ At(t, "store")
  /\ Go(t, Idle) /\ Marked(t)
  /\ UNCHANGED <<file, loaded, card, suppressed, timer, missed, counts>>

(* Reading or writing raised: the command is dropped, its token not used. *)
StoreFailed(t) ==
  /\ At(t, "read") \/ At(t, "store")
  /\ Go(t, Idle)
  /\ UNCHANGED <<file, loaded, card, seen, suppressed, timer, missed, counts>>

(* _write_automations_yaml of the list that was read, with this entry put   *)
(* in or taken out; then the token is marked, or the entity of a deleted    *)
(* automation leaves the registry, which is a change event.                *)
WriteStore(t) ==
  /\ At(t, "store")
  /\ LET i == task[t].id  c == task[t].config
     IN  /\ file' = [task[t].list EXCEPT ![i] = c]
         /\ \/ c = Absent /\ loaded[i] # Absent
               /\ loaded' = [loaded EXCEPT ![i] = Absent] /\ OnChange
            \/ UNCHANGED <<loaded, timer>>    \* also when that fails
  /\ Marked(t)
  /\ Step(t, "reload")
  /\ UNCHANGED <<card, suppressed, missed, counts>>

(* Mutant: no snapshot follows. *)
ReloadOnly(t) ==
  /\ At(t, "reload")
  /\ \/ loaded' = [loaded EXCEPT ![task[t].id] = file[task[t].id]] /\ OnChange
     \/ UNCHANGED <<loaded, timer>>
  /\ Go(t, Idle)
  /\ UNCHANGED <<file, card, seen, suppressed, missed, counts>>

(* automation.reload of this id, best effort; it fires automation_reloaded. *)
ReloadAutomation(t) ==
  /\ At(t, "reload")
  /\ \/ /\ loaded' = [loaded EXCEPT ![task[t].id] = file[task[t].id]]
        /\ OnChange
     \/ UNCHANGED <<loaded, timer>>
  /\ Go(t, [at |-> "collect"])
  /\ UNCHANGED <<file, card, seen, suppressed, missed, counts>>

-----------------------------------------------------------------------------
(* collect_setup_snapshot reads what is loaded after its last await. *)
CollectSnapshot(t) ==
  /\ At(t, "collect")
  /\ task' = [u \in Tasks |->
       CASE u = t -> Publishing(loaded, TRUE)
         [] u # t /\ At(u, "publish") -> [task[u] EXCEPT !.newest = FALSE]
         [] OTHER -> task[u]]
  /\ missed' = FALSE
  /\ UNCHANGED <<file, loaded, card, seen, suppressed, timer, counts>>

(* publish_setup_snapshot: it is neither queued nor ordered with others. *)
PublishSnapshot(t) ==
  /\ At(t, "publish")
  /\ \/ card' = task[t].automations /\ missed' = (missed \/ ~task[t].newest)
     \/ card' = card /\ missed' = TRUE
  /\ Go(t, Idle)
  /\ UNCHANGED <<file, loaded, seen, suppressed, timer, counts>>

-----------------------------------------------------------------------------
(* The debounce timer elapses: its callback clears it and takes a snapshot. *)
DebounceElapsed(t) ==
  /\ timer = 0 /\ At(t, "idle")
  /\ timer' = Off
  /\ Go(t, [at |-> "collect"])
  /\ UNCHANGED <<file, loaded, card, seen, suppressed, missed, counts>>

(* Time passes up to the deadline of the timer. *)
TimePasses ==
  /\ timer # 0 /\ (timer # Off \/ suppressed > 0)
  /\ timer' = IF timer = Off THEN Off ELSE timer - 1
  /\ suppressed' = IF suppressed = 0 THEN 0 ELSE suppressed - 1
  /\ UNCHANGED <<file, loaded, card, task, seen, missed, counts>>

(* The user saves or deletes an automation in Home Assistant's editor. *)
UserEdits(i, c) ==
  /\ file[i] # c /\ Counted("edits", MaxEdits)
  /\ file' = [file EXCEPT ![i] = c]
  /\ loaded' = [loaded EXCEPT ![i] = c]
  /\ OnChange
  /\ missed' = (missed \/ suppressed > 0)
  /\ UNCHANGED <<card, task, seen, suppressed>>

(* The config entry is reloaded: a new handler, listener and snapshot      *)
(* manager, and a startup task with a first-install snapshot.  Commands    *)
(* under way go on, with the old handler's tokens and listener.            *)
ReloadEntry(t) ==
  /\ At(t, "idle") /\ Counted("reloads", MaxReloads)
  /\ task' = [u \in Tasks |->
       CASE u = t -> [at |-> "collect"]
         [] u # t /\ "token" \in DOMAIN task[u] -> [task[u] EXCEPT !.token = NoToken]
         [] OTHER -> task[u]]
  /\ seen' = {} /\ suppressed' = 0 /\ timer' = Off
  /\ UNCHANGED <<file, loaded, card, missed>>

StoreNext ==
  \/ \E t \in Tasks :
       \/ \E i \in Id, c \in Config, k \in Token : WriteAutomation(t, i, c, k)
       \/ \E i \in Id : DeleteAutomation(t, i)
       \/ TakeSetupSnapshot(t)
       \/ ReadStore(t) \/ StoreFailed(t) \/ WriteStore(t) \/ ReloadAutomation(t)
       \/ CollectSnapshot(t) \/ PublishSnapshot(t)
       \/ DebounceElapsed(t) \/ ReloadEntry(t)
  \/ TimePasses
  \/ \E i \in Id, c \in Config \cup {Absent} : UserEdits(i, c)

StoreSpec == StoreInit /\ [][StoreNext]_storeVars

-----------------------------------------------------------------------------
(***************************************************************************)
(* Properties.                                                             *)
(***************************************************************************)
Quiet == timer = Off /\ \A t \in Tasks : At(t, "idle")

(* "so the card converges on HA's truth" (automation_sync.py:16): once all  *)
(* is quiet the card shows what is loaded, however the commands, the user's *)
(* edits, the timer and a reload of the entry were interleaved, unless a    *)
(* change fell into a suppress window that no snapshot followed, or a       *)
(* snapshot failed or was overtaken by an older one.                        *)
CardIsTrue == Quiet /\ ~missed => card = loaded

(* A draft token is used up only by the step that stored its automation, so *)
(* a write that failed can be retried (command_handler.py:673-674).         *)
OnlyWritesUseTokens ==
  [][\A k \in seen' \ seen : \E t \in Tasks :
       At(t, "store") /\ task[t].token = k /\ file'[task[t].id] = task[t].config]_storeVars

(* "This mirrors HA core's EditAutomationConfigView exactly: read the list, *)
(* ... upsert/remove by id" (command_handler.py:71-73), which holds a lock  *)
(* around the three: a command changes no entry but its own.               *)
OnlyItsEntry ==
  [][\A t \in Tasks, i \in Id :
       At(t, "store") /\ task'[t].at # "store" /\ i # task[t].id => file'[i] = file[i]]_storeVars
=============================================================================
