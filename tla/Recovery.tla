------------------------------- MODULE Recovery -------------------------------
(***************************************************************************)
(* RecoveryManager.recover_window (recovery.py) on top of Publisher, and   *)
(* the heartbeats that report its outcome (coordinator.py:heartbeat_once). *)
(* Each recover_window command is a task of its own: it queries the        *)
(* recorder, publishes its chunks, stores its acknowledgement in the one   *)
(* slot _last_recovery, and fires a heartbeat.                             *)
(***************************************************************************)
EXTENDS Publisher

CONSTANTS Windows,       \* window ids the cloud asks for
          CommandBeat,   \* the heartbeat a recovery fires when it ends
          MaxCommands    \* bound of the model: recover_window commands

Recoveries == Senders \ {BatchLoop}

ASSUME RecoveryAssumption ==
  /\ CommandBeat \in [Recoveries -> Heartbeats \ {HeartbeatLoop}]
  /\ MaxCommands \in Nat

VARIABLES
  stage,          \* per recovery: where recover_window is
  window,         \* per recovery: the window it replays
  chunks,         \* per recovery: the batches it was to publish
  published,      \* per recovery: rows_published, in chunks
  failures,       \* per recovery: publish_failures, in chunks
  lastRecovery,   \* _last_recovery
  beat,           \* per heartbeat: the ack it carries while it is published
  commands        \* counter for the bound

tally == <<chunks, published, failures>>
recVars == <<pubVars, stage, window, tally, lastRecovery, beat, commands>>

Results == {"recovered", "partial", "error", "no_data"}
NoAck   == [window |-> "none", result |-> "none", chunks |-> {}]
Ack     == [window : Windows, result : Results, chunks : SUBSET Batch]
NoBeat  == [window |-> "none", result |-> "silent", chunks |-> {}]

RecoveryTypeOK ==
  /\ PublisherTypeOK
  /\ stage \in [Recoveries -> {"idle", "querying", "publishing"}]
  /\ window \in [Recoveries -> Windows]
  /\ chunks \in [Recoveries -> SUBSET Batch]
  /\ published \in [Recoveries -> 0 .. MaxChunks]
  /\ failures \in [Recoveries -> 0 .. MaxChunks]
  /\ lastRecovery \in Ack \cup {NoAck}
  /\ beat \in [Heartbeats -> Ack \cup {NoAck, NoBeat}]
  /\ commands \in 0 .. MaxCommands

RecoveryInit ==
  /\ PublisherInit
  /\ stage = [r \in Recoveries |-> "idle"]
  /\ window \in [Recoveries -> Windows]
  /\ chunks = [r \in Recoveries |-> {}]
  /\ published = [r \in Recoveries |-> 0]
  /\ failures = [r \in Recoveries |-> 0]
  /\ lastRecovery = NoAck
  /\ beat = [h \in Heartbeats |-> NoBeat]
  /\ commands = 0

-----------------------------------------------------------------------------
(* Mutant: a result the heartbeat's contract does not know. *)
ResultOutsideContract(ok, failed) ==
  CASE ok = 0 /\ failed > 0 -> "error"
    [] ok = 0 /\ failed = 0 -> "no_data"
    [] ok > 0 /\ failed > 0 -> "incomplete"
    [] OTHER                -> "recovered"

(* The result rule over the chunks that went out and those that failed. *)
ResultOf(ok, failed) ==
  CASE ok = 0 /\ failed > 0 -> "error"
    [] ok = 0 /\ failed = 0 -> "no_data"
    [] ok > 0 /\ failed > 0 -> "partial"
    [] OTHER                -> "recovered"

(* _finish: the ack takes the slot, and, with no await in between, the     *)
(* command handler builds the immediate heartbeat that carries it.         *)
Finish(r, result, mine) ==
  /\ lastRecovery' = [window |-> window[r], result |-> result, chunks |-> mine]
  /\ beat' = [beat EXCEPT ![CommandBeat[r]] = lastRecovery']
  /\ stage' = [stage EXCEPT ![r] = "idle"]

(* A well-formed window; the recorder is being asked.  A task slot is free *)
(* again when the heartbeat of its last command is over.                   *)
RecoverWindow(r, w) ==
  /\ stage[r] = "idle"
  /\ beat[CommandBeat[r]] = NoBeat /\ draining[CommandBeat[r]] = << >>
  /\ commands < MaxCommands /\ commands' = commands + 1
  /\ stage' = [stage EXCEPT ![r] = "querying"]
  /\ window' = [window EXCEPT ![r] = w]
  /\ UNCHANGED <<pubVars, tally, lastRecovery, beat>>

(* A bad timestamp, or a recorder that raises, or one that has nothing     *)
(* usable inside the window: the ack is stored at once.                    *)
NothingToPublish(r) ==
  /\ stage[r] = "querying"
  /\ \E result \in {"error", "no_data"} : Finish(r, result, {})
  /\ UNCHANGED <<pubVars, window, tally, commands>>

(* The recorder answered; build_batch rejects some of the chunks (in the   *)
(* code as it reaches them), the others are published one after the other. *)
(* When it rejects all of them that is an error ack, as above.             *)
PublishChunks(r, n, rejected) ==
  /\ stage[r] = "querying"
  /\ n + rejected <= MaxChunks
  /\ Send(r, n)
  /\ stage' = [stage EXCEPT ![r] = "publishing"]
  /\ chunks' = [chunks EXCEPT ![r] = produced + 1 .. produced + n]
  /\ failures' = [failures EXCEPT ![r] = rejected]
  /\ UNCHANGED <<published, lastRecovery, window, beat, commands>>

(* A chunk is behind us; after the last one the ack is stored, in the same  *)
(* step, and the locals of recover_window are gone.                        *)
Count(r, ok, failed) ==
  IF sending'[r] = << >>
  THEN /\ Finish(r, ResultOf(published[r] + ok, failures[r] + failed), chunks[r])
       /\ chunks' = [chunks EXCEPT ![r] = {}]
       /\ published' = [published EXCEPT ![r] = 0]
       /\ failures' = [failures EXCEPT ![r] = 0]
  ELSE /\ published' = [published EXCEPT ![r] = @ + ok]
       /\ failures' = [failures EXCEPT ![r] = @ + failed]
       /\ UNCHANGED <<stage, chunks, lastRecovery, beat>>

ChunkSent(r) ==
  /\ Sent(r)
  /\ Count(r, 1, 0)
  /\ UNCHANGED <<window, commands>>

(* Mutant: a chunk that was enqueued counts as published. *)
QueuedIsPublished(r) ==
  /\ SendFailed(r) \/ SendRaised(r)
  /\ Count(r, 1, 0)
  /\ UNCHANGED <<window, commands>>

(* Mutant: an exception of publish_telemetry ends the recovery. *)
FailureEscapes(r) ==
  /\ \/ SendFailed(r) /\ Count(r, 0, 1)
     \/ SendRaised(r) /\ UNCHANGED <<stage, tally, lastRecovery, beat>>
  /\ UNCHANGED <<window, commands>>

(* Enqueued or raised: a failure of this chunk, never of the recovery. *)
ChunkFailed(r) ==
  /\ SendFailed(r) \/ SendRaised(r)
  /\ Count(r, 0, 1)
  /\ UNCHANGED <<window, commands>>

-----------------------------------------------------------------------------
(* heartbeat_once of the loop: the slot is read, then it is published. *)
HeartbeatBuilt ==
  /\ beat[HeartbeatLoop] = NoBeat /\ draining[HeartbeatLoop] = << >>
  /\ beat' = [beat EXCEPT ![HeartbeatLoop] = lastRecovery]
  /\ UNCHANGED <<pubVars, stage, window, tally, lastRecovery, commands>>

(* QoS 0: it arrives or it does not, and either way the queue is drained. *)
HeartbeatPublished(h) ==
  /\ beat[h] # NoBeat
  /\ beat' = [beat EXCEPT ![h] = NoBeat]
  /\ DrainQueue(h) \/ (queue = << >> /\ UNCHANGED pubVars)
  /\ UNCHANGED <<stage, window, tally, lastRecovery, commands>>

(* Its publish raised what _safe_publish lets through: no drain. *)
HeartbeatRaised(h) ==
  /\ MayRaise /\ ~linkUp /\ beat[h] # NoBeat
  /\ beat' = [beat EXCEPT ![h] = NoBeat]
  /\ UNCHANGED <<pubVars, stage, window, tally, lastRecovery, commands>>

RecoveryStep(r) ==
  \/ NothingToPublish(r)
  \/ \E n \in 1 .. MaxChunks, rejected \in 0 .. MaxChunks : PublishChunks(r, n, rejected)
  \/ ChunkSent(r) \/ ChunkFailed(r)

OtherStep ==
  /\ \/ SendStep(BatchLoop) \/ \E n \in 1 .. MaxChunks : Send(BatchLoop, n)
     \/ \E h \in Heartbeats : DrainStep(h)
     \/ LinkChanges
  /\ UNCHANGED <<stage, window, tally, lastRecovery, beat, commands>>

RecoveryNext ==
  \/ \E r \in Recoveries : RecoveryStep(r) \/ \E w \in Windows : RecoverWindow(r, w)
  \/ HeartbeatBuilt
  \/ \E h \in Heartbeats : HeartbeatPublished(h) \/ HeartbeatRaised(h)
  \/ OtherStep

(* The recorder answers, every publish ends by its answer or its timeout,  *)
(* and the heartbeat loop comes round again; nothing is assumed of the     *)
(* link, of the flushes or of the commands.  A publish that waits for the  *)
(* disconnect of a credential refresh which never answers (Connection's    *)
(* OnlyTeardownHangs) is left out: its task would stop here for good.      *)
RecoverySpec ==
  /\ RecoveryInit /\ [][RecoveryNext]_recVars
  /\ \A r \in Recoveries : WF_recVars(RecoveryStep(r))
  /\ WF_recVars(SendStep(BatchLoop) /\ OtherStep)
  /\ WF_recVars(HeartbeatBuilt)
  /\ WF_recVars(linkUp /\ HeartbeatPublished(HeartbeatLoop))
  /\ \A h \in Heartbeats : WF_recVars(DrainStep(h) /\ OtherStep)

-----------------------------------------------------------------------------
(***************************************************************************)
(* Properties.                                                             *)
(***************************************************************************)
(* A recovery claims no more than is so: of a "recovered" window every      *)
(* chunk has reached the broker, of a "partial" one at least one has, even  *)
(* when chunks go through the queue or two recoveries of one window overlap *)
(* (recovery.py:559-586).                                                  *)
AckIsHonest ==
  \A ack \in {lastRecovery} \cup {beat[h] : h \in Heartbeats} :
    /\ ack.result = "recovered" => ack.chunks # {} /\ ack.chunks \subseteq arrived
    /\ ack.result = "partial" => ack.chunks \cap arrived # {}

(* "NEVER raises - any failure is captured as an `error` ack"               *)
(* (recovery.py:385): every window that is asked for is answered.          *)
EveryWindowIsAnswered ==
  \A r \in Recoveries : stage[r] = "querying" ~> stage[r] = "idle"
=============================================================================
