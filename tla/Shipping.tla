------------------------------- MODULE Shipping -------------------------------
(***************************************************************************)
(* The publish gate (ShippingGate) in front of the publisher (Publisher):  *)
(* which entities' rows leave Home Assistant, and which of them the cloud  *)
(* ends up showing.  flush() consults the gate once, before its chunks;    *)
(* recover_window() does not consult it; nobody consults it for what is    *)
(* queued.  The cloud's ingestion, as coordinator.py:840-843 describes it, *)
(* lets the last batch that arrives for an entity win.                     *)
(***************************************************************************)
EXTENDS ShippingGate, Publisher

CONSTANTS Messages,        \* what commands and status answers may carry
          MaxGateChanges   \* bound of the model

ASSUME ShippingAssumption ==
  /\ Messages \subseteq Message
  /\ MaxGateChanges \in Nat

VARIABLES
  content,      \* per batch: the entities it has rows for
  shown,        \* the cloud's LATEST#: per entity, the batch it comes from
  builder,      \* history: per batch, the sender that built it
  overlapped,   \* history: heartbeats drained at once since the backlog was empty
  confirmed,    \* history: entities the whitelist let through while active
  gateChanges   \* counter for the bound

shippingVars == <<pubVars, gateVars, content, shown, builder, overlapped, confirmed,
                  gateChanges>>

ShippingTypeOK ==
  /\ GateTypeOK /\ PublisherTypeOK
  /\ content \in [Batch -> SUBSET Entity]
  /\ shown \in [Entity -> 0 .. MaxBatches]
  /\ builder \in [Batch -> Senders] /\ overlapped \in BOOLEAN
  /\ confirmed \in SUBSET Entity
  /\ gateChanges \in 0 .. MaxGateChanges

ShippingInit ==
  /\ GateInit /\ PublisherInit
  /\ content = [b \in Batch |-> {}]
  /\ shown = [e \in Entity |-> 0]
  /\ builder = [b \in Batch |-> BatchLoop] /\ overlapped = FALSE
  /\ confirmed = {}
  /\ gateChanges = 0

-----------------------------------------------------------------------------
(* The n batches a step builds get the rows of these entities. *)
Build(s, n, rows) ==
  /\ Send(s, n)
  /\ content' = [b \in Batch |->
       IF b \in produced + 1 .. produced + n THEN rows[b - produced] ELSE content[b]]
  /\ builder' = [b \in Batch |-> IF b \in produced + 1 .. produced + n THEN s ELSE builder[b]]
  /\ UNCHANGED <<gateVars, shown, confirmed, gateChanges>>

(* Mutant: a suppressed mode does not stop the flush. *)
FlushInAnyMode(n, rows) ==
  /\ \A i \in 1 .. n : rows[i] \subseteq whitelist
  /\ Build(BatchLoop, n, rows)

(* flush(): the mode gate and the whitelist decide on the whole window. *)
Flush(n, rows) ==
  /\ PublishingEnabled
  /\ \A i \in 1 .. n : rows[i] \subseteq whitelist
  /\ Build(BatchLoop, n, rows)

(* recover_window(): whatever the classifier surfaces. *)
Replay(s, n, rows) == s # BatchLoop /\ Build(s, n, rows)

(* The batch under way for a task; the broker hands it on as it comes. *)
Ingested(b) ==
  shown' = [e \in Entity |-> IF b \in arrived' \ arrived /\ e \in content[b] THEN b ELSE shown[e]]

Publishing ==
  /\ \/ \E s \in Senders : SendStep(s) /\ Ingested(Head(sending[s]))
     \/ \E h \in Heartbeats : \/ DrainStep(h) /\ Ingested(Head(draining[h]))
                              \/ DrainQueue(h) /\ UNCHANGED shown
     \/ LinkChanges /\ UNCHANGED shown
  /\ UNCHANGED <<gateVars, content, builder, confirmed, gateChanges>>

GateMoves(msg) ==
  /\ gateChanges < MaxGateChanges /\ gateChanges' = gateChanges + 1
  /\ SetShippingMode(msg) \/ ReconcileFromStatus(msg)
  /\ confirmed' = confirmed \cup (IF shippingMode' = "active" THEN whitelist' ELSE {})
  /\ UNCHANGED <<pubVars, content, shown, builder>>

(* The loop's heartbeat and that of a command (every recovery and every    *)
(* update acknowledges with one) may drain at once, each its own part of   *)
(* the backlog.                                                            *)
Overlap == \E g, h \in Heartbeats : g # h /\ draining[g] # << >> /\ draining[h] # << >>
Backlog == queue # << >> \/ \E h \in Heartbeats : draining[h] # << >>

ShippingStep ==
  \/ \E n \in 1 .. MaxChunks : \E rows \in [1 .. n -> SUBSET Entity \ {{}}] :
        Flush(n, rows) \/ \E s \in Senders : Replay(s, n, rows)
  \/ Publishing
  \/ \E msg \in Messages : GateMoves(msg)

ShippingNext ==
  /\ ShippingStep
  /\ overlapped' = (Overlap' \/ (overlapped /\ Backlog'))

ShippingSpec == ShippingInit /\ [][ShippingNext]_shippingVars

-----------------------------------------------------------------------------
(***************************************************************************)
(* Properties.                                                             *)
(***************************************************************************)
(* "NO telemetry batches leave HA before the user confirms"                *)
(* (coordinator.py:1117), entity by entity: what a flush built and the      *)
(* broker gets, direct or by way of the queue, was once on the whitelist    *)
(* in force in active mode.                                                *)
OnlyConfirmedLeaves ==
  \A b \in arrived : builder[b] = BatchLoop => content[b] \subseteq confirmed

(* The queue keeps the batches of each source in the order they were built, *)
(* through failed drains that put their rest back while newer ones were     *)
(* queued, and through overflow, as long as the drains of two heartbeats    *)
(* did not overlap since the backlog was last empty (publisher.py:177-193): *)
(* two that fail in the order they started put the older batches back       *)
(* behind the newer ones.                                                  *)
QueueAscends ==
  ~overlapped => \A i, j \in DOMAIN queue :
    i < j /\ builder[queue[i]] = builder[queue[j]] => queue[i] < queue[j]

(* "`unavailable -> <value>` MUST surface the recovered value as LATEST#"   *)
(* (coordinator.py:853): when all is published and nothing was lost, the    *)
(* cloud shows the newest row of every entity.                             *)
CloudShowsNewest ==
  Held = {} /\ lost = {} =>
    \A e \in Entity, b \in Batch : e \in content[b] => shown[e] >= b
=============================================================================
