------------------------------ MODULE Publisher ------------------------------
(***************************************************************************)
(* TelemetryPublisher (publisher.py) and the tasks that call it on the     *)
(* event loop: the batch loop and the recoveries, which publish the chunks *)
(* of a window one after the other, and the heartbeats, which drain the    *)
(* retry queue.  A batch is known by its number, in the order of building. *)
(*                                                                         *)
(* Every task awaits only while a publish is in flight, so a step here is  *)
(* what runs from the answer of one publish to the start of the next.      *)
(***************************************************************************)
EXTENDS Integers, Sequences, FiniteSets

CONSTANTS
  Senders,        \* tasks that call publish_telemetry: the batch loop, recoveries
  BatchLoop,
  Heartbeats,     \* tasks that can be inside heartbeat_once
  HeartbeatLoop,  \* the one that recurs; commands start the others
  MaxQueueDepth,  \* MAX_QUEUE_DEPTH: 10 in the code
  MayRaise,       \* publish_fn may raise what _safe_publish does not catch
  MaxBatches, MaxChunks   \* bounds of the model

ASSUME PublisherAssumption ==
  /\ BatchLoop \in Senders
  /\ HeartbeatLoop \in Heartbeats
  /\ Senders \cap Heartbeats = {}
  /\ MaxQueueDepth \in Nat \ {0}
  /\ MayRaise \in BOOLEAN
  /\ MaxBatches \in Nat
  /\ MaxChunks \in Nat \ {0}

VARIABLES
  queue,      \* _queue
  sending,    \* chunks a sender has still to publish; the head is under way
  draining,   \* per heartbeat: `pending` of drain_queue from index i on
  produced,   \* number of batches built so far
  arrived,    \* the broker's side: batches it has received
  lost,       \* history: batches in no queue and no task any more
  linkUp      \* whether a publish started now would be acknowledged

pubVars == <<queue, sending, draining, produced, arrived, lost, linkUp>>

Batch == 1 .. MaxBatches
Elements(s) == {s[i] : i \in DOMAIN s}

PublisherTypeOK ==
  /\ queue \in Seq(Batch) /\ Len(queue) <= MaxQueueDepth
  /\ sending \in [Senders -> Seq(Batch)]
  /\ draining \in [Heartbeats -> Seq(Batch)]
  /\ produced \in 0 .. MaxBatches
  /\ arrived \in SUBSET Batch
  /\ lost \in SUBSET Batch
  /\ linkUp \in BOOLEAN

PublisherInit ==
  /\ queue = << >>
  /\ sending = [s \in Senders |-> << >>]
  /\ draining = [h \in Heartbeats |-> << >>]
  /\ produced = 0
  /\ arrived = {}
  /\ lost = {}
  /\ linkUp \in BOOLEAN

-----------------------------------------------------------------------------
(***************************************************************************)
(* deque(maxlen=MAX_QUEUE_DEPTH): a push on one end of a full deque drops  *)
(* the element at the other end.                                           *)
(***************************************************************************)
(* Mutants: no maxlen, and a bound that is one short. *)
PushedUnbounded(q, b) == Append(q, b)
PushedShort(q, b) ==
  IF Len(q) >= MaxQueueDepth - 1 /\ q # << >> THEN Append(Tail(q), b) ELSE Append(q, b)

Pushed(q, b) ==
  IF Len(q) = MaxQueueDepth THEN Append(Tail(q), b) ELSE Append(q, b)

(* Mutant: the items of a failed drain go to the back. *)
PushedBack(q, items) ==
  LET all == q \o items
  IN  SubSeq(all, IF Len(all) > MaxQueueDepth THEN Len(all) - MaxQueueDepth + 1 ELSE 1,
             Len(all))

(* appendleft of the items, last one first, so that they keep their order. *)
PushedFront(q, items) ==
  LET all == items \o q
  IN  SubSeq(all, 1, IF Len(all) > MaxQueueDepth THEN MaxQueueDepth ELSE Len(all))

(* What a new content of the queue leaves behind is lost. *)
Requeue(q, from) ==
  /\ queue' = q
  /\ lost' = lost \cup (from \ Elements(q))

-----------------------------------------------------------------------------
(* flush(): the rows of one window, or recover_window(): the rows of a     *)
(* replayed one, in n chunks of at most MAX_ENTITIES_PER_BATCH_PUBLISH.    *)
Send(s, n) ==
  /\ sending[s] = << >>
  /\ produced + n <= MaxBatches
  /\ sending' = [sending EXCEPT ![s] = [i \in 1 .. n |-> produced + i]]
  /\ produced' = produced + n
  /\ UNCHANGED <<queue, draining, arrived, lost, linkUp>>

Sent(s) ==
  /\ sending[s] # << >> /\ linkUp
  /\ arrived' = arrived \cup {Head(sending[s])}
  /\ sending' = [sending EXCEPT ![s] = Tail(@)]
  /\ UNCHANGED <<queue, draining, produced, lost, linkUp>>

(* A caught failure.  When only the acknowledgement was lost the batch has *)
(* arrived all the same.                                                   *)
SendFailed(s) ==
  /\ sending[s] # << >> /\ ~linkUp
  /\ Requeue(Pushed(queue, Head(sending[s])), Elements(queue))
  /\ arrived' \in {arrived, arrived \cup {Head(sending[s])}}
  /\ sending' = [sending EXCEPT ![s] = Tail(@)]
  /\ UNCHANGED <<draining, produced, linkUp>>

(* publish_fn raised what _safe_publish lets through: the RuntimeError of a *)
(* failed reconnect, or PayloadTooLargeError whatever the link.  flush()   *)
(* ends with it; a recovery counts the chunk as failed and goes on with    *)
(* the next.                                                               *)
SendRaised(s) ==
  /\ MayRaise /\ sending[s] # << >>
  /\ \/ /\ s = BatchLoop
        /\ lost' = lost \cup Elements(sending[s])
        /\ sending' = [sending EXCEPT ![s] = << >>]
     \/ /\ s # BatchLoop
        /\ lost' = lost \cup {Head(sending[s])}
        /\ sending' = [sending EXCEPT ![s] = Tail(@)]
  /\ UNCHANGED <<queue, draining, produced, arrived, linkUp>>

-----------------------------------------------------------------------------
(* Mutant: the drain waits for a full queue. *)
DrainWhenFull(h) ==
  /\ draining[h] = << >> /\ Len(queue) = MaxQueueDepth
  /\ draining' = [draining EXCEPT ![h] = queue]
  /\ queue' = << >>
  /\ UNCHANGED <<sending, produced, arrived, lost, linkUp>>

(* Mutant: the queue is not cleared when its content is copied. *)
DrainWithoutClear(h) ==
  /\ draining[h] = << >> /\ queue # << >>
  /\ draining' = [draining EXCEPT ![h] = queue]
  /\ UNCHANGED <<queue, sending, produced, arrived, lost, linkUp>>

(* A heartbeat was published (or failed in a way that is caught) and       *)
(* drain_queue takes the whole queue in one go.                            *)
DrainQueue(h) ==
  /\ draining[h] = << >> /\ queue # << >>
  /\ draining' = [draining EXCEPT ![h] = queue]
  /\ queue' = << >>
  /\ UNCHANGED <<sending, produced, arrived, lost, linkUp>>

DrainSent(h) ==
  /\ draining[h] # << >> /\ linkUp
  /\ arrived' = arrived \cup {Head(draining[h])}
  /\ draining' = [draining EXCEPT ![h] = Tail(@)]
  /\ UNCHANGED <<queue, sending, produced, lost, linkUp>>

(* Mutant: the batch that failed is not put back. *)
DrainSkipsFailed(h) ==
  /\ draining[h] # << >> /\ ~linkUp
  /\ Requeue(PushedFront(queue, Tail(draining[h])), Elements(queue))
  /\ arrived' \in {arrived, arrived \cup {Head(draining[h])}}
  /\ draining' = [draining EXCEPT ![h] = << >>]
  /\ UNCHANGED <<sending, produced, linkUp>>

DrainFailed(h) ==
  /\ draining[h] # << >> /\ ~linkUp
  /\ Requeue(PushedFront(queue, draining[h]), Elements(queue) \cup Elements(draining[h]))
  /\ arrived' \in {arrived, arrived \cup {Head(draining[h])}}
  /\ draining' = [draining EXCEPT ![h] = << >>]
  /\ UNCHANGED <<sending, produced, linkUp>>

(* The exception leaves drain_queue; `pending` is gone with its frame. *)
DrainRaised(h) ==
  /\ MayRaise /\ draining[h] # << >> /\ ~linkUp
  /\ lost' = lost \cup Elements(draining[h])
  /\ draining' = [draining EXCEPT ![h] = << >>]
  /\ UNCHANGED <<queue, sending, produced, arrived, linkUp>>

LinkChanges ==
  /\ linkUp' = ~linkUp
  /\ UNCHANGED <<queue, sending, draining, produced, arrived, lost>>

SendStep(s) == Sent(s) \/ SendFailed(s) \/ SendRaised(s)
DrainStep(h) == DrainSent(h) \/ DrainFailed(h) \/ DrainRaised(h)

-----------------------------------------------------------------------------
(***************************************************************************)
(* Properties.                                                             *)
(***************************************************************************)
Distinct(s) == \A i, j \in DOMAIN s : s[i] = s[j] => i = j

(* What a task has in hand, and what all the tasks and the queue hold. *)
Tasks == Senders \cup Heartbeats
HandOf(t) == IF t \in Senders THEN sending[t] ELSE draining[t]
Held == Elements(queue) \cup UNION {Elements(HandOf(t)) : t \in Tasks}

(* A batch is never in two hands: heartbeats that drain concurrently, with *)
(* each other, with a flush and with a recovery, never publish or queue    *)
(* the same batch (publisher.py:177-193).                                  *)
InOneHand ==
  /\ Distinct(queue)
  /\ \A t \in Tasks :
       /\ Distinct(HandOf(t))
       /\ Elements(HandOf(t)) \cap Elements(queue) = {}
       /\ \A u \in Tasks \ {t} : Elements(HandOf(t)) \cap Elements(HandOf(u)) = {}

(* No batch vanishes: what was built is held, or arrived, or was dropped   *)
(* by the bound of the queue or by an exception.                           *)
Accounted == 1 .. produced \subseteq Held \cup arrived \cup lost

(* The publisher implements BatchChannel: whatever drains, sends and        *)
(* recoveries overlap, a batch is taken out of the queue and the tasks only *)
(* when it arrived or is counted as lost, and is never taken up again.      *)
Channel == INSTANCE BatchChannel WITH built <- produced, pending <- Held
ImplementsChannel == Channel!ChanSpec

(* What is put into the queue, or back, drops nothing while all the batches *)
(* ever built would fit: whatever fails and however drains overlap, only an *)
(* exception, which leaves the queue alone, loses a batch.                 *)
NothingDroppedBelowCapacity ==
  [][produced <= MaxQueueDepth /\ queue' # queue => lost' = lost]_pubVars

(* Once the link stays up, every batch still held reaches the broker. *)
BacklogDrains ==
  \A b \in Batch : <>[]linkUp => [](b <= produced => <>(b \in arrived \cup lost))

=============================================================================
