--------------------------- MODULE CoordinatorCloud ---------------------------
(***************************************************************************)
(* The coordinator with the cloud's ingestion at the other end, as         *)
(* coordinator.py describes it: the rows of a batch are applied in array   *)
(* order, the last row of an entity becomes its LATEST# record whatever it *)
(* says, and a numeric row also extends its TS# chart.  Batches arrive in  *)
(* the order they were published (the queue in between is Publisher.tla).  *)
(***************************************************************************)
EXTENDS Coordinator

VARIABLES
  latest,     \* LATEST#: [state, attr] of the entity's last row
  charted,    \* TS#: the entity's last numeric value
  lost,       \* history: entities of which a row or sample never arrived
  missed,     \* history: entities whose newest change no coordinator heard
  sealedMean  \* history: mean of the entity's newest finalised numeric minute

cloudVars == <<latest, charted, lost, missed, sealedMean>>
cvars == <<vars, cloudVars>>

NothingYet == [state |-> NoState, attr |-> NoAttr]

CloudTypeOK ==
  /\ TypeOK
  /\ latest \in [Entity -> [state : State \cup {NoState}, attr : Attr \cup {NoAttr}]]
  /\ charted \in [Entity -> State \cup {NoState}]
  /\ lost \in SUBSET Entity
  /\ missed \in SUBSET Entity
  /\ sealedMean \in [Entity -> State \cup {NoState}]

CloudInit ==
  /\ Init
  /\ latest = [e \in Entity |-> NothingYet]
  /\ charted = [e \in Entity |-> NoState]
  /\ lost = {}
  /\ missed = {}
  /\ sealedMean = [e \in Entity |-> NoState]

-----------------------------------------------------------------------------
LastOf(rows) == CHOOSE r \in rows : \A q \in rows \ {r} : Precedes(q, r)

(* One batch through the ingestion: LATEST# upserts, TS# for numbers. *)
Ingest(batch) ==
  LET rowsOf(e)    == {r \in batch : r.entity = e}
      numericOf(e) == {r \in rowsOf(e) : r.state.kind = "num"}
  IN  /\ latest' = [e \in Entity |->
            IF rowsOf(e) = {} THEN latest[e]
            ELSE [state |-> LastOf(rowsOf(e)).state, attr |-> LastOf(rowsOf(e)).attr]]
      /\ charted' = [e \in Entity |->
            IF numericOf(e) = {} THEN charted[e] ELSE LastOf(numericOf(e)).state]

CloudStateChanged(e, s, a, m) ==
  /\ StateChanged(e, s, a, m)
  /\ missed' = missed \ {e}
  /\ UNCHANGED <<latest, charted, lost, sealedMean>>

CloudUnheard(e, s, a, m) ==
  /\ Unheard(e, s, a, m)
  /\ missed' = missed \cup {e}
  /\ UNCHANGED <<latest, charted, lost, sealedMean>>

EntitiesOf(rows) == {r.entity : r \in rows}

ChunkArrives(chunk) ==
  /\ ChunkDone(chunk)
  /\ Ingest(chunk)
  /\ UNCHANGED <<lost, missed, sealedMean>>

ChunkRejected(chunk) ==
  /\ ChunkDone(chunk)
  /\ lost' = lost \cup EntitiesOf(chunk)
  /\ UNCHANGED <<latest, charted, missed, sealedMean>>

CloudFlushAborted ==
  /\ FlushAborted
  /\ lost' = lost \cup EntitiesOf(outgoing)
  /\ UNCHANGED <<latest, charted, missed, sealedMean>>

CloudBeginFlush(emitted) ==
  /\ BeginFlush(emitted)
  /\ lost' = lost \cup EntitiesOf(Drained(emitted) \ outgoing')
  /\ sealedMean' = [e \in Entity |->
       LET numeric == {m \in Sealed(e) : acc[e][m].numeric}
       IN  IF numeric = {} THEN sealedMean[e] ELSE Finalise(acc[e][Max(numeric)])]
  /\ UNCHANGED <<latest, charted, missed>>

(* stop() ships nothing: what was collected and not yet sent is lost. *)
CloudStop ==
  /\ Stop
  /\ lost' = lost \cup EntitiesOf(outgoing \cup {pending[i] : i \in DOMAIN pending})
                  \cup {e \in Entity : Open(e) # {}}
  /\ sealedMean' = [e \in Entity |-> NoState]
  /\ UNCHANGED <<latest, charted, missed>>

CloudNext ==
  \/ \E e \in Entity : \E s \in StatesOf[e], a \in Attr, m \in {now, ha[e].since} :
        CloudStateChanged(e, s, a, m) \/ CloudUnheard(e, s, a, m)
  \/ \E emitted \in [Entity -> SUBSET Minute] : CloudBeginFlush(emitted)
  \/ \E chunk \in SUBSET outgoing : ChunkArrives(chunk)
  \/ \E chunk \in SUBSET outgoing : ChunkRejected(chunk)
  \/ CloudFlushAborted
  \/ CloudStop
  \/ Start /\ UNCHANGED cloudVars
  \/ ChangeGate /\ UNCHANGED cloudVars
  \/ Tick /\ UNCHANGED cloudVars

CloudSpec == CloudInit /\ [][CloudNext]_cvars

-----------------------------------------------------------------------------
(***************************************************************************)
(* Properties.  They speak of an entity at rest: everything captured of it *)
(* was flushed and arrived, and none of its rows was discarded on the way. *)
(***************************************************************************)
AtRest(e) ==
  /\ e \notin lost
  /\ Open(e) = {}
  /\ outgoing = {}
  /\ \A i \in DOMAIN pending : pending[i].entity # e

Known(e) == lastEmitted[e] # NoState

(* A latest-only entity at rest shows in the cloud what Home Assistant      *)
(* shows, the register words of a live fault included, whatever was         *)
(* suppressed as a re-fire on the way (coordinator.py:574-602).            *)
TransitionsConverge ==
  \A e \in Entity :
    Bucket[e] \in {"latest_only", "fault"} /\ AtRest(e) /\ Known(e) =>
      /\ latest[e].state = ha[e].state
      /\ Bucket[e] = "fault" /\ ha[e].state.kind # "off"
           => latest[e].attr = ha[e].attr

(* A recovered entity never stays frozen at unavailable: once at rest, an   *)
(* entity that Home Assistant shows alive is not unavailable in the cloud   *)
(* (coordinator.py:835-884, the 2.5 h outage the comment recalls), through  *)
(* reloads too, unless it recovered while no coordinator was listening:     *)
(* then it stays unavailable until it changes again, because a setup        *)
(* captures no current states (__init__.py:563-568, :273).                  *)
RecoverySurfaces ==
  \A e \in Entity :
    AtRest(e) /\ e \notin missed /\ ha[e].state.kind # "off"
      => latest[e].state.kind # "off"

(* Hold-last is honest: the last charted value of a threshold entity stays  *)
(* within the threshold of the mean of its newest finalised minute, across  *)
(* drains of several minutes, the row cap and outages (coordinator.py:119). *)
HoldLastTracks ==
  \A e \in Entity :
    /\ Bucket[e] = "threshold" /\ e \notin lost /\ outgoing = {}
    /\ sealedMean[e].kind = "num"
    => /\ charted[e].kind = "num"
       /\ Distance(charted[e].val, sealedMean[e].val) < Threshold

=============================================================================
