--------------------------- MODULE PublisherProofs ---------------------------
(***************************************************************************)
(* What the publisher does with batches, for any set of tasks and any      *)
(* depth of the queue: lemmas on the operators of Publisher, and on its    *)
(* steps, which Recovery and Shipping take.                                *)
(***************************************************************************)
EXTENDS Publisher, SequenceTheorems, FiniteSetTheorems, TLAPS

(***************************************************************************)
(* Sequences and what they hold.                                           *)
(***************************************************************************)
LEMMA OfTail ==
  ASSUME NEW S, NEW s \in Seq(S), s # << >>
  PROVE  /\ Head(s) \in S /\ Tail(s) \in Seq(S) /\ Len(Tail(s)) = Len(s) - 1
         /\ Elements(s) = {Head(s)} \cup Elements(Tail(s))
         /\ Distinct(s) => Distinct(Tail(s)) /\ Head(s) \notin Elements(Tail(s))
<1>1. /\ Head(s) \in S /\ Tail(s) \in Seq(S) /\ Len(Tail(s)) = Len(s) - 1
      /\ Head(s) = s[1] /\ 1 \in DOMAIN s
  OBVIOUS
<1>2. \A i \in DOMAIN Tail(s) : i + 1 \in DOMAIN s /\ Tail(s)[i] = s[i + 1]
  OBVIOUS
<1>3. \A i \in DOMAIN s : i = 1 \/ (i - 1 \in DOMAIN Tail(s) /\ s[i] = Tail(s)[i - 1])
  OBVIOUS
<1>4. \A i \in DOMAIN Tail(s) : i \in Nat /\ i # 0
  OBVIOUS
<1>5. Elements(s) = {Head(s)} \cup Elements(Tail(s))
  <2>1. \A x \in Elements(s) : x = Head(s) \/ x \in Elements(Tail(s))
    BY <1>1, <1>3 DEF Elements
  <2>2. \A x \in Elements(Tail(s)) : x \in Elements(s)
    BY <1>2 DEF Elements
  <2>3. Head(s) \in Elements(s)
    BY <1>1 DEF Elements
  <2> QED BY <2>1, <2>2, <2>3
<1>6. ASSUME Distinct(s) PROVE Distinct(Tail(s)) /\ Head(s) \notin Elements(Tail(s))
  <2>1. \A i, j \in DOMAIN Tail(s) : Tail(s)[i] = Tail(s)[j] => i + 1 = j + 1
    BY <1>2, <1>6 DEF Distinct
  <2>2. \A i \in DOMAIN Tail(s) : Tail(s)[i] # Head(s)
    BY <1>1, <1>2, <1>4, <1>6 DEF Distinct
  <2> QED BY <1>4, <2>1, <2>2 DEF Distinct, Elements
<1> QED BY <1>1, <1>5, <1>6

LEMMA OfAppend ==
  ASSUME NEW S, NEW s \in Seq(S), NEW b \in S
  PROVE  /\ Append(s, b) \in Seq(S) /\ Len(Append(s, b)) = Len(s) + 1
         /\ Elements(Append(s, b)) = Elements(s) \cup {b}
         /\ Distinct(s) /\ b \notin Elements(s) => Distinct(Append(s, b))
<1>1. Append(s, b) \in Seq(S) /\ Len(Append(s, b)) = Len(s) + 1
  OBVIOUS
<1>2. \A i \in DOMAIN s : i \in DOMAIN Append(s, b) /\ Append(s, b)[i] = s[i]
  OBVIOUS
<1>3. Len(s) + 1 \in DOMAIN Append(s, b) /\ Append(s, b)[Len(s) + 1] = b
  OBVIOUS
<1>4. \A i \in DOMAIN Append(s, b) : i = Len(s) + 1 \/ i \in DOMAIN s
  OBVIOUS
<1> QED BY <1>1, <1>2, <1>3, <1>4 DEF Elements, Distinct

LEMMA OfConcat ==
  ASSUME NEW S, NEW s \in Seq(S), NEW q \in Seq(S)
  PROVE  /\ s \o q \in Seq(S) /\ Len(s \o q) = Len(s) + Len(q)
         /\ Elements(s \o q) = Elements(s) \cup Elements(q)
         /\ Distinct(s) /\ Distinct(q) /\ Elements(s) \cap Elements(q) = {} => Distinct(s \o q)
<1>1. s \o q \in Seq(S) /\ Len(s \o q) = Len(s) + Len(q)
  OBVIOUS
<1>2. \A i \in DOMAIN s : i \in DOMAIN (s \o q) /\ (s \o q)[i] = s[i]
  OBVIOUS
<1>3. \A j \in DOMAIN q : Len(s) + j \in DOMAIN (s \o q) /\ (s \o q)[Len(s) + j] = q[j]
  OBVIOUS
<1>4. \A i \in DOMAIN (s \o q) : i \in DOMAIN s \/ (i - Len(s) \in DOMAIN q /\ (s \o q)[i] = q[i - Len(s)])
  OBVIOUS
<1>5. Len(s) \in Nat /\ \A i \in DOMAIN (s \o q) : i \in Nat
  OBVIOUS
<1>6. Elements(s \o q) = Elements(s) \cup Elements(q)
  <2>1. \A x \in Elements(s \o q) : x \in Elements(s) \/ x \in Elements(q)
    BY <1>2, <1>4 DEF Elements
  <2>2. \A x \in Elements(s) : x \in Elements(s \o q)
    BY <1>2 DEF Elements
  <2>3. \A x \in Elements(q) : x \in Elements(s \o q)
    BY <1>3 DEF Elements
  <2> QED BY <2>1, <2>2, <2>3
<1>7. ASSUME Distinct(s), Distinct(q), Elements(s) \cap Elements(q) = {} PROVE Distinct(s \o q)
  <2>1. SUFFICES ASSUME NEW i \in DOMAIN (s \o q), NEW j \in DOMAIN (s \o q),
                        (s \o q)[i] = (s \o q)[j]
                 PROVE  i = j
    BY DEF Distinct
  <2>2. CASE i \in DOMAIN s /\ j \in DOMAIN s
    BY <1>2, <1>7, <2>1, <2>2 DEF Distinct
  <2>3. CASE i \notin DOMAIN s /\ j \notin DOMAIN s
    <3>1. i - Len(s) \in DOMAIN q /\ j - Len(s) \in DOMAIN q /\ q[i - Len(s)] = q[j - Len(s)]
      BY <1>4, <2>1, <2>3
    <3>2. i - Len(s) = j - Len(s)
      BY <3>1, <1>7 DEF Distinct
    <3> QED BY <3>2, <1>5
  <2>4. ASSUME NEW k \in DOMAIN s, NEW m \in DOMAIN (s \o q), m \notin DOMAIN s
        PROVE  (s \o q)[k] # (s \o q)[m]
    <3>1. (s \o q)[k] \in Elements(s)
      BY <1>2 DEF Elements
    <3>2. (s \o q)[m] \in Elements(q)
      BY <1>4, <2>4 DEF Elements
    <3> QED BY <3>1, <3>2, <1>7
  <2> QED BY <2>1, <2>2, <2>3, <2>4
<1> QED BY <1>1, <1>6, <1>7

LEMMA OfPrefix ==
  ASSUME NEW S, NEW s \in Seq(S), NEW n \in 0 .. Len(s)
  PROVE  /\ SubSeq(s, 1, n) \in Seq(S) /\ Len(SubSeq(s, 1, n)) = n
         /\ Elements(SubSeq(s, 1, n)) \subseteq Elements(s)
         /\ Distinct(s) => Distinct(SubSeq(s, 1, n))
         /\ n = Len(s) => Elements(SubSeq(s, 1, n)) = Elements(s)
<1>1. SubSeq(s, 1, n) \in Seq(S) /\ Len(SubSeq(s, 1, n)) = n
  OBVIOUS
<1>2. \A i \in DOMAIN SubSeq(s, 1, n) : i \in DOMAIN s /\ SubSeq(s, 1, n)[i] = s[i]
  OBVIOUS
<1>3. n = Len(s) => DOMAIN SubSeq(s, 1, n) = DOMAIN s
  OBVIOUS
<1> QED BY <1>1, <1>2, <1>3 DEF Elements, Distinct

(* A sequence of distinct batches is no longer than there are batches. *)
LEMMA DistinctFits ==
  ASSUME NEW n \in Nat, NEW s \in Seq(Nat), Distinct(s), Elements(s) \subseteq 1 .. n
  PROVE  Len(s) <= n
<1>1. IsFiniteSet(1 .. n) /\ Cardinality(1 .. n) = n
  BY FS_Interval
<1>2. Cardinality(1 .. Len(s)) = Len(s)
  <2>1. PICK m \in Nat : m = Len(s)
    OBVIOUS
  <2>2. Cardinality(1 .. m) = m
    BY FS_Interval
  <2> QED BY <2>1, <2>2
<1>3. s \in Injection(1 .. Len(s), 1 .. n)
  BY DEF Injection, IsInjective, Distinct, Elements
<1>4. Cardinality(1 .. Len(s)) <= Cardinality(1 .. n)
  BY <1>1, <1>3, FS_Injection
<1> QED BY <1>1, <1>2, <1>4

-----------------------------------------------------------------------------
(***************************************************************************)
(* The bounded queue.                                                      *)
(***************************************************************************)
LEMMA PushedHolds ==
  ASSUME NEW q \in Seq(Batch), Len(q) <= MaxQueueDepth, NEW b \in Batch
  PROVE  /\ Pushed(q, b) \in Seq(Batch) /\ Len(Pushed(q, b)) <= MaxQueueDepth
         /\ b \in Elements(Pushed(q, b)) /\ Elements(Pushed(q, b)) \subseteq Elements(q) \cup {b}
         /\ Len(q) # MaxQueueDepth => Elements(q) \subseteq Elements(Pushed(q, b))
         /\ Distinct(q) /\ b \notin Elements(q) => Distinct(Pushed(q, b))
<1>0. MaxQueueDepth \in Nat /\ MaxQueueDepth # 0 /\ Len(q) \in Nat
  BY PublisherAssumption
<1>1. CASE Len(q) = MaxQueueDepth
  <2>0. q # << >>
    BY <1>0, <1>1
  <2>1. /\ Tail(q) \in Seq(Batch) /\ Len(Tail(q)) = Len(q) - 1
        /\ Elements(q) = {Head(q)} \cup Elements(Tail(q))
        /\ Distinct(q) => Distinct(Tail(q))
    BY <2>0, OfTail
  <2>2. /\ Append(Tail(q), b) \in Seq(Batch) /\ Len(Append(Tail(q), b)) = Len(Tail(q)) + 1
        /\ Elements(Append(Tail(q), b)) = Elements(Tail(q)) \cup {b}
        /\ Distinct(Tail(q)) /\ b \notin Elements(Tail(q)) => Distinct(Append(Tail(q), b))
    BY <2>1, OfAppend
  <2> QED BY <1>0, <1>1, <2>1, <2>2 DEF Pushed
<1>2. CASE Len(q) # MaxQueueDepth
  BY <1>0, <1>2, OfAppend DEF Pushed
<1> QED BY <1>1, <1>2

LEMMA PushedFrontHolds ==
  ASSUME NEW q \in Seq(Batch), NEW items \in Seq(Batch)
  PROVE  /\ PushedFront(q, items) \in Seq(Batch) /\ Len(PushedFront(q, items)) <= MaxQueueDepth
         /\ Elements(PushedFront(q, items)) \subseteq Elements(q) \cup Elements(items)
         /\ Len(items \o q) <= MaxQueueDepth
              => Elements(PushedFront(q, items)) = Elements(q) \cup Elements(items)
         /\ Distinct(q) /\ Distinct(items) /\ Elements(items) \cap Elements(q) = {}
              => Distinct(PushedFront(q, items))
<1>0. MaxQueueDepth \in Nat
  BY PublisherAssumption
<1>1. PICK all : all = items \o q
  OBVIOUS
<1>2. /\ all \in Seq(Batch) /\ Len(all) \in Nat
      /\ Elements(all) = Elements(q) \cup Elements(items)
      /\ Distinct(q) /\ Distinct(items) /\ Elements(items) \cap Elements(q) = {} => Distinct(all)
  BY <1>1, OfConcat
<1>3. PICK n \in 0 .. Len(all) : /\ PushedFront(q, items) = SubSeq(all, 1, n)
                                 /\ n <= MaxQueueDepth
                                 /\ Len(all) <= MaxQueueDepth => n = Len(all)
  <2>1. PushedFront(q, items)
          = SubSeq(all, 1, IF Len(all) > MaxQueueDepth THEN MaxQueueDepth ELSE Len(all))
    BY <1>1 DEF PushedFront
  <2>2. CASE Len(all) > MaxQueueDepth
    <3>1. MaxQueueDepth \in 0 .. Len(all) /\ ~ (Len(all) <= MaxQueueDepth)
      BY <1>0, <1>2, <2>2
    <3> QED BY <1>0, <2>1, <2>2, <3>1
  <2>3. CASE ~ (Len(all) > MaxQueueDepth)
    <3>1. Len(all) \in 0 .. Len(all) /\ Len(all) <= MaxQueueDepth
      BY <1>0, <1>2, <2>3
    <3> QED BY <2>1, <2>3, <3>1
  <2> QED BY <2>2, <2>3
<1>4. /\ SubSeq(all, 1, n) \in Seq(Batch) /\ Len(SubSeq(all, 1, n)) = n
      /\ Elements(SubSeq(all, 1, n)) \subseteq Elements(all)
      /\ Distinct(all) => Distinct(SubSeq(all, 1, n))
      /\ n = Len(all) => Elements(SubSeq(all, 1, n)) = Elements(all)
  BY <1>2, OfPrefix
<1>5. PICK front : front = SubSeq(all, 1, n) /\ front = PushedFront(q, items)
  BY <1>3
<1>6. /\ front \in Seq(Batch) /\ Len(front) <= MaxQueueDepth
      /\ Elements(front) \subseteq Elements(all)
      /\ Distinct(all) => Distinct(front)
      /\ Len(all) <= MaxQueueDepth => Elements(front) = Elements(all)
  BY <1>3, <1>4, <1>5
<1> QED BY <1>1, <1>2, <1>5, <1>6

-----------------------------------------------------------------------------
(***************************************************************************)
(* The steps.                                                              *)
(***************************************************************************)
PubStep ==
  \/ \E s \in Senders : SendStep(s) \/ \E n \in Nat \ {0} : Send(s, n)
  \/ \E h \in Heartbeats : DrainStep(h) \/ DrainQueue(h)
  \/ LinkChanges

(* The inductive invariant: each batch that was built, and no other, is in  *)
(* one hand or has left it for a reason.                                   *)
Known == Held \cup arrived \cup lost \subseteq 1 .. produced
PubInv == PublisherTypeOK /\ InOneHand /\ Known /\ Accounted

(* A step moves batches between the queue and the hand of one task; those   *)
(* that are in neither afterwards have arrived or are lost.                *)
Mine(t) == Elements(queue) \cup Elements(HandOf(t))
Moves(t) ==
  /\ \A u \in Tasks \ {t} : HandOf(u)' = HandOf(u)
  /\ HandOf(t)' \in Seq(Batch) /\ queue' \in Seq(Batch) /\ Len(queue') <= MaxQueueDepth
  /\ Distinct(queue)' /\ Distinct(HandOf(t))'
  /\ (Elements(HandOf(t)) \cap Elements(queue))' = {}
Settles(t) ==
  /\ Moves(t) /\ Mine(t)' \subseteq Mine(t)
  /\ arrived \subseteq arrived' /\ lost \subseteq lost'
  /\ (arrived' \ arrived) \cup (lost' \ lost) \subseteq Mine(t)
  /\ Mine(t) \ Mine(t)' \subseteq arrived' \cup lost'
  /\ UNCHANGED produced
Builds(t, n) ==
  /\ Moves(t) /\ produced' = produced + n /\ produced' <= MaxBatches
  /\ HandOf(t) = << >> /\ Elements(HandOf(t))' = produced + 1 .. produced + n
  /\ UNCHANGED <<queue, arrived, lost>>

LEMMA SenderMoves ==
  ASSUME PublisherTypeOK, NEW s \in Senders, NEW hand,
         sending' = [sending EXCEPT ![s] = hand], UNCHANGED draining
  PROVE  /\ s \in Tasks /\ HandOf(s) = sending[s] /\ HandOf(s)' = hand
         /\ \A u \in Tasks \ {s} : HandOf(u)' = HandOf(u)
<1> QED BY DEF PublisherTypeOK, Tasks, HandOf

LEMMA HeartbeatMoves ==
  ASSUME PublisherTypeOK, NEW h \in Heartbeats, NEW hand,
         draining' = [draining EXCEPT ![h] = hand], UNCHANGED sending
  PROVE  /\ h \in Tasks /\ HandOf(h) = draining[h] /\ HandOf(h)' = hand
         /\ \A u \in Tasks \ {h} : HandOf(u)' = HandOf(u)
<1> QED BY PublisherAssumption DEF PublisherTypeOK, Tasks, HandOf

LEMMA HandsTyped ==
  ASSUME PubInv, NEW t \in Tasks
  PROVE  /\ HandOf(t) \in Seq(Batch) /\ queue \in Seq(Batch) /\ Len(queue) <= MaxQueueDepth
         /\ Distinct(HandOf(t)) /\ Distinct(queue) /\ Elements(HandOf(t)) \cap Elements(queue) = {}
         /\ Mine(t) \subseteq 1 .. produced
<1>1. HandOf(t) \in Seq(Batch)
  BY DEF PubInv, PublisherTypeOK, HandOf, Tasks
<1>2. Mine(t) \subseteq Held
  BY DEF Mine, Held
<1> QED BY <1>1, <1>2 DEF PubInv, PublisherTypeOK, InOneHand, Known

LEMMA SenderSettles ==
  ASSUME PubInv, NEW s \in Senders, SendStep(s)
  PROVE  Settles(s)
<1>0. PublisherTypeOK /\ s \in Tasks /\ HandOf(s) = sending[s] /\ sending[s] # << >>
  BY DEF PubInv, Tasks, HandOf, SendStep, Sent, SendFailed, SendRaised
<1>1. PICK hand, head, rest :
        hand = sending[s] /\ head = Head(hand) /\ rest = Tail(hand) /\ HandOf(s) = hand
  BY <1>0
<1>2. /\ hand \in Seq(Batch) /\ queue \in Seq(Batch) /\ Len(queue) <= MaxQueueDepth
      /\ Distinct(hand) /\ Distinct(queue) /\ Elements(hand) \cap Elements(queue) = {}
  BY <1>0, <1>1, HandsTyped
<1>3. /\ head \in Batch /\ rest \in Seq(Batch) /\ Elements(hand) = {head} \cup Elements(rest)
      /\ Distinct(rest) /\ head \notin Elements(rest)
  BY <1>0, <1>1, <1>2, OfTail
<1>4. CASE Sent(s)
  <2>1. /\ sending' = [sending EXCEPT ![s] = rest] /\ UNCHANGED <<draining, queue, lost, produced>>
        /\ arrived' = arrived \cup {head}
    BY <1>1, <1>4 DEF Sent
  <2>2. HandOf(s)' = rest /\ \A u \in Tasks \ {s} : HandOf(u)' = HandOf(u)
    BY <1>0, <2>1, SenderMoves
  <2>4. Elements(HandOf(s))' = Elements(rest) /\ Distinct(HandOf(s))'
    BY <2>2, <1>3 DEF Elements, Distinct
  <2>5. Elements(queue)' = Elements(queue) /\ Distinct(queue)'
    BY <2>1, <1>2 DEF Elements, Distinct
  <2> QED BY <1>1, <1>2, <1>3, <2>1, <2>2, <2>4, <2>5 DEF Settles, Moves, Mine
<1>5. CASE SendFailed(s)
  <2>1. /\ sending' = [sending EXCEPT ![s] = rest] /\ UNCHANGED <<draining, produced>>
        /\ queue' = Pushed(queue, head) /\ lost' = lost \cup (Elements(queue) \ Elements(Pushed(queue, head)))
        /\ arrived' \in {arrived, arrived \cup {head}}
    BY <1>1, <1>5 DEF SendFailed, Requeue
  <2>2. HandOf(s)' = rest /\ \A u \in Tasks \ {s} : HandOf(u)' = HandOf(u)
    BY <1>0, <2>1, SenderMoves
  <2>3. /\ queue' \in Seq(Batch) /\ Len(queue') <= MaxQueueDepth /\ Distinct(queue)'
        /\ head \in Elements(queue)' /\ Elements(queue)' \subseteq Elements(queue) \cup {head}
    <3>1. PICK q : q = Pushed(queue, head) /\ queue' = q
      BY <2>1
    <3>2. /\ q \in Seq(Batch) /\ Len(q) <= MaxQueueDepth /\ Distinct(q)
          /\ head \in Elements(q) /\ Elements(q) \subseteq Elements(queue) \cup {head}
      BY <1>2, <1>3, <3>1, PushedHolds
    <3>3. Elements(queue)' = Elements(q) /\ (Distinct(queue)' <=> Distinct(q))
      BY <3>1 DEF Elements, Distinct
    <3> QED BY <3>1, <3>2, <3>3
  <2>4. Elements(HandOf(s))' = Elements(rest) /\ Distinct(HandOf(s))'
    BY <2>2, <1>3 DEF Elements, Distinct
  <2>5. lost' = lost \cup (Elements(queue) \ Elements(queue)')
    BY <2>1 DEF Elements
  <2>6. Mine(s) = Elements(queue) \cup {head} \cup Elements(rest)
        /\ Mine(s)' = Elements(queue)' \cup Elements(rest)
    BY <1>1, <1>3, <2>4 DEF Mine
  <2>7. Moves(s)
    BY <1>2, <1>3, <2>2, <2>3, <2>4 DEF Moves
  <2> QED BY <1>2, <1>3, <2>1, <2>3, <2>5, <2>6, <2>7 DEF Settles
<1>6. CASE SendRaised(s)
  <2>1. PICK left \in {rest, << >>} :
          /\ sending' = [sending EXCEPT ![s] = left]
          /\ lost' = lost \cup (Elements(hand) \ Elements(left))
          /\ UNCHANGED <<draining, queue, arrived, produced>>
    <3>1. Elements(<< >>) = {}
      BY DEF Elements
    <3>2. Elements(hand) \ Elements(rest) = {head}
      BY <1>3
    <3> QED BY <1>1, <1>6, <3>1, <3>2 DEF SendRaised
  <2>2. HandOf(s)' = left /\ \A u \in Tasks \ {s} : HandOf(u)' = HandOf(u)
    BY <1>0, <2>1, SenderMoves
  <2>3. left \in Seq(Batch) /\ Distinct(left) /\ Elements(left) \subseteq Elements(hand)
    <3>1. Elements(<< >>) = {} /\ Distinct(<< >>) /\ << >> \in Seq(Batch)
      BY DEF Elements, Distinct
    <3> QED BY <1>3, <2>1, <3>1
  <2>4. Elements(HandOf(s))' = Elements(left) /\ Distinct(HandOf(s))'
    BY <2>2, <2>3 DEF Elements, Distinct
  <2>5. Elements(queue)' = Elements(queue) /\ Distinct(queue)'
    BY <2>1, <1>2 DEF Elements, Distinct
  <2> QED BY <1>1, <1>2, <2>1, <2>2, <2>3, <2>4, <2>5 DEF Settles, Moves, Mine
<1> QED BY <1>4, <1>5, <1>6 DEF SendStep

LEMMA HeartbeatSettles ==
  ASSUME PubInv, NEW h \in Heartbeats, DrainStep(h) \/ DrainQueue(h)
  PROVE  Settles(h)
<1>0. PublisherTypeOK /\ h \in Tasks /\ HandOf(h) = draining[h]
  BY PublisherAssumption DEF PubInv, Tasks, HandOf
<1>1. PICK hand : hand = draining[h] /\ HandOf(h) = hand
  BY <1>0
<1>2. /\ hand \in Seq(Batch) /\ queue \in Seq(Batch) /\ Len(queue) <= MaxQueueDepth
      /\ Distinct(hand) /\ Distinct(queue) /\ Elements(hand) \cap Elements(queue) = {}
  BY <1>0, <1>1, HandsTyped
<1>3. Elements(<< >>) = {} /\ Distinct(<< >>) /\ << >> \in Seq(Batch) /\ Len(<< >>) <= MaxQueueDepth
  BY PublisherAssumption DEF Elements, Distinct
<1>4. CASE DrainSent(h)
  <2>1. /\ draining' = [draining EXCEPT ![h] = Tail(hand)] /\ UNCHANGED <<sending, queue, lost, produced>>
        /\ arrived' = arrived \cup {Head(hand)} /\ hand # << >>
    BY <1>1, <1>4 DEF DrainSent
  <2>2. HandOf(h)' = Tail(hand) /\ \A u \in Tasks \ {h} : HandOf(u)' = HandOf(u)
    BY <1>0, <2>1, HeartbeatMoves
  <2>3. /\ Tail(hand) \in Seq(Batch) /\ Elements(hand) = {Head(hand)} \cup Elements(Tail(hand))
        /\ Distinct(Tail(hand))
    BY <1>2, <2>1, OfTail
  <2>4. Elements(HandOf(h))' = Elements(Tail(hand)) /\ Distinct(HandOf(h))'
    BY <2>2, <2>3 DEF Elements, Distinct
  <2>5. Elements(queue)' = Elements(queue) /\ Distinct(queue)'
    BY <2>1, <1>2 DEF Elements, Distinct
  <2> QED BY <1>1, <1>2, <2>1, <2>2, <2>3, <2>4, <2>5 DEF Settles, Moves, Mine
<1>5. CASE DrainFailed(h)
  <2>1. /\ draining' = [draining EXCEPT ![h] = << >>] /\ UNCHANGED <<sending, produced>>
        /\ queue' = PushedFront(queue, hand) /\ hand # << >>
        /\ lost' = lost \cup ((Elements(queue) \cup Elements(hand)) \ Elements(PushedFront(queue, hand)))
        /\ arrived' \in {arrived, arrived \cup {Head(hand)}}
    BY <1>1, <1>5 DEF DrainFailed, Requeue
  <2>2. HandOf(h)' = << >> /\ \A u \in Tasks \ {h} : HandOf(u)' = HandOf(u)
    BY <1>0, <2>1, HeartbeatMoves
  <2>3. /\ queue' \in Seq(Batch) /\ Len(queue') <= MaxQueueDepth /\ Distinct(queue)'
        /\ Elements(queue)' \subseteq Elements(queue) \cup Elements(hand)
    <3>1. PICK q : q = PushedFront(queue, hand) /\ queue' = q
      BY <2>1
    <3>2. /\ q \in Seq(Batch) /\ Len(q) <= MaxQueueDepth /\ Distinct(q)
          /\ Elements(q) \subseteq Elements(queue) \cup Elements(hand)
      BY <1>2, <3>1, PushedFrontHolds
    <3>3. Elements(queue)' = Elements(q) /\ (Distinct(queue)' <=> Distinct(q))
      BY <3>1 DEF Elements, Distinct
    <3> QED BY <3>1, <3>2, <3>3
  <2>4. Elements(HandOf(h))' = {} /\ Distinct(HandOf(h))'
    BY <2>2 DEF Elements, Distinct
  <2>5. lost' = lost \cup ((Elements(queue) \cup Elements(hand)) \ Elements(queue)')
    BY <2>1 DEF Elements
  <2>6. Head(hand) \in Elements(hand)
    BY <1>2, <2>1, OfTail
  <2> QED BY <1>1, <1>2, <1>3, <2>1, <2>2, <2>3, <2>4, <2>5, <2>6 DEF Settles, Moves, Mine
<1>6. CASE DrainRaised(h)
  <2>1. /\ draining' = [draining EXCEPT ![h] = << >>] /\ UNCHANGED <<sending, queue, arrived, produced>>
        /\ lost' = lost \cup Elements(hand)
    BY <1>1, <1>6 DEF DrainRaised
  <2>2. HandOf(h)' = << >> /\ \A u \in Tasks \ {h} : HandOf(u)' = HandOf(u)
    BY <1>0, <2>1, HeartbeatMoves
  <2>4. Elements(HandOf(h))' = {} /\ Distinct(HandOf(h))'
    BY <2>2 DEF Elements, Distinct
  <2>5. Elements(queue)' = Elements(queue) /\ Distinct(queue)'
    BY <2>1, <1>2 DEF Elements, Distinct
  <2> QED BY <1>1, <1>2, <1>3, <2>1, <2>2, <2>4, <2>5 DEF Settles, Moves, Mine
<1>7. CASE DrainQueue(h)
  <2>1. /\ draining' = [draining EXCEPT ![h] = queue] /\ UNCHANGED <<sending, arrived, lost, produced>>
        /\ queue' = << >> /\ hand = << >>
    BY <1>1, <1>7 DEF DrainQueue
  <2>2. HandOf(h)' = queue /\ \A u \in Tasks \ {h} : HandOf(u)' = HandOf(u)
    BY <1>0, <2>1, HeartbeatMoves
  <2>4. Elements(HandOf(h))' = Elements(queue) /\ Distinct(HandOf(h))'
    BY <2>2, <1>2 DEF Elements, Distinct
  <2>5. Elements(queue)' = {} /\ Distinct(queue)'
    BY <2>1 DEF Elements, Distinct
  <2> QED BY <1>1, <1>2, <1>3, <2>1, <2>2, <2>4, <2>5 DEF Settles, Moves, Mine
<1> QED BY <1>4, <1>5, <1>6, <1>7 DEF DrainStep

LEMMA SendBuilds ==
  ASSUME PubInv, NEW s \in Senders, NEW n \in Nat \ {0}, Send(s, n)
  PROVE  Builds(s, n)
<1> DEFINE chunks == [i \in 1 .. n |-> produced + i]
<1>0. /\ PublisherTypeOK /\ s \in Tasks /\ HandOf(s) = << >>
      /\ produced \in Nat /\ produced + n <= MaxBatches /\ MaxBatches \in Nat
      /\ sending' = [sending EXCEPT ![s] = chunks] /\ produced' = produced + n
      /\ UNCHANGED <<queue, draining, arrived, lost>>
  BY PublisherAssumption DEF PubInv, PublisherTypeOK, Tasks, HandOf, Send
<1>1. \A i \in 1 .. n : produced + i \in Batch
  BY <1>0 DEF Batch
<1>2. chunks \in Seq(Batch) /\ DOMAIN chunks = 1 .. n
  <2>1. chunks \in [1 .. n -> Batch]
    BY <1>1
  <2> QED BY <2>1
<1>3. Elements(chunks) = produced + 1 .. produced + n
  <2>1. \A b \in produced + 1 .. produced + n : b - produced \in 1 .. n /\ chunks[b - produced] = b
    BY <1>0
  <2>2. \A i \in 1 .. n : chunks[i] \in produced + 1 .. produced + n
    BY <1>0
  <2> HIDE DEF chunks
  <2> QED BY <1>2, <2>1, <2>2 DEF Elements
<1>4. Distinct(chunks)
  BY <1>0 DEF Distinct
<1> HIDE DEF chunks
<1>5. HandOf(s)' = chunks /\ \A u \in Tasks \ {s} : HandOf(u)' = HandOf(u)
  BY <1>0, SenderMoves
<1>6. Elements(HandOf(s))' = produced + 1 .. produced + n /\ Distinct(HandOf(s))'
  BY <1>5, <1>3, <1>4 DEF Elements, Distinct
<1>7. /\ queue' \in Seq(Batch) /\ Len(queue') <= MaxQueueDepth
      /\ Elements(queue)' = Elements(queue) /\ Distinct(queue)'
      /\ Elements(queue) \subseteq 1 .. produced
  <2>1. Elements(queue) \subseteq Held
    BY DEF Held
  <2> QED BY <1>0, <2>1 DEF PubInv, PublisherTypeOK, InOneHand, Known, Elements, Distinct
<1>8. (Elements(HandOf(s)) \cap Elements(queue))' = {}
  BY <1>0, <1>6, <1>7
<1> QED BY <1>0, <1>2, <1>5, <1>6, <1>7, <1>8 DEF Builds, Moves

LEMMA StepMoves ==
  ASSUME PubInv, PubStep
  PROVE  \E t \in Tasks : Settles(t) \/ \E n \in Nat \ {0} : Builds(t, n)
<1>1. ASSUME NEW s \in Senders, SendStep(s) \/ \E n \in Nat \ {0} : Send(s, n)
      PROVE  \E t \in Tasks : Settles(t) \/ \E n \in Nat \ {0} : Builds(t, n)
  BY <1>1, SenderSettles, SendBuilds DEF Tasks
<1>2. ASSUME NEW h \in Heartbeats, DrainStep(h) \/ DrainQueue(h) PROVE \E t \in Tasks : Settles(t)
  BY <1>2, HeartbeatSettles DEF Tasks
<1>3. ASSUME LinkChanges PROVE Settles(BatchLoop)
  <2>1. BatchLoop \in Tasks
    BY PublisherAssumption DEF Tasks
  <2>2. UNCHANGED <<queue, sending, draining, arrived, lost, produced>>
    BY <1>3 DEF LinkChanges
  <2>3. /\ Elements(queue)' = Elements(queue) /\ (Distinct(queue)' <=> Distinct(queue))
        /\ \A u \in Tasks : HandOf(u)' = HandOf(u)
        /\ Elements(HandOf(BatchLoop))' = Elements(HandOf(BatchLoop))
        /\ Distinct(HandOf(BatchLoop))' <=> Distinct(HandOf(BatchLoop))
    BY <2>2 DEF Elements, Distinct, HandOf
  <2> QED BY <2>1, <2>2, <2>3, HandsTyped DEF Settles, Moves, Mine
<1> QED BY <1>1, <1>2, <1>3, PublisherAssumption DEF PubStep, Tasks

(* What the others have, no move touches. *)
Others(t) == UNION {Elements(HandOf(u)) : u \in Tasks \ {t}}

LEMMA OthersKeep ==
  ASSUME PubInv, NEW t \in Tasks, Moves(t)
  PROVE  /\ Held = Mine(t) \cup Others(t) /\ Held' = Mine(t)' \cup Others(t)
         /\ Mine(t) \cap Others(t) = {}
         /\ \A u \in Tasks \ {t} : Elements(HandOf(u))' = Elements(HandOf(u))
                                   /\ Distinct(HandOf(u))' /\ HandOf(u)' \in Seq(Batch)
<1>1. \A u \in Tasks \ {t} : /\ Elements(HandOf(u))' = Elements(HandOf(u))
                             /\ Distinct(HandOf(u))' /\ HandOf(u)' \in Seq(Batch)
  <2> SUFFICES ASSUME NEW u \in Tasks \ {t}
               PROVE  /\ Elements(HandOf(u))' = Elements(HandOf(u))
                      /\ Distinct(HandOf(u))' /\ HandOf(u)' \in Seq(Batch)
    OBVIOUS
  <2>1. HandOf(u)' = HandOf(u) /\ Distinct(HandOf(u)) /\ HandOf(u) \in Seq(Batch)
    BY HandsTyped DEF Moves
  <2> QED BY <2>1 DEF Elements, Distinct
<1>2. Held = Mine(t) \cup Others(t)
  BY DEF Held, Mine, Others
<1>3. Held' = Mine(t)' \cup Others(t)'
  BY DEF Held, Mine, Others
<1>4. Others(t)' = Others(t)
  BY <1>1 DEF Others
<1>5. Mine(t) \cap Others(t) = {}
  BY DEF PubInv, InOneHand, Mine, Others
<1> QED BY <1>1, <1>2, <1>3, <1>4, <1>5

LEMMA StepShapes ==
  ASSUME PublisherTypeOK, PubStep
  PROVE  /\ sending' = [s \in Senders |-> sending'[s]]
         /\ draining' = [h \in Heartbeats |-> draining'[h]]
         /\ linkUp' \in BOOLEAN
<1>1. /\ sending = [s \in Senders |-> sending[s]] /\ draining = [h \in Heartbeats |-> draining[h]]
      /\ linkUp \in BOOLEAN
  BY DEF PublisherTypeOK
<1>2. \A s \in Senders : \A hand : LET f == [sending EXCEPT ![s] = hand] IN f = [u \in Senders |-> f[u]]
  BY <1>1
<1>3. \A h \in Heartbeats : \A hand : LET f == [draining EXCEPT ![h] = hand] IN f = [u \in Heartbeats |-> f[u]]
  BY <1>1
<1> QED
  BY <1>1, <1>2, <1>3
  DEF PubStep, SendStep, Sent, SendFailed, SendRaised, Send, DrainStep, DrainSent, DrainFailed,
      DrainRaised, DrainQueue, LinkChanges

LEMMA StepPublisher ==
  ASSUME PubInv, PubStep
  PROVE  PubInv'
<1>0. PICK t \in Tasks : Settles(t) \/ \E n \in Nat \ {0} : Builds(t, n)
  BY StepMoves
<1>1. Moves(t)
  BY <1>0 DEF Settles, Builds
<1>2. /\ Held = Mine(t) \cup Others(t) /\ Held' = Mine(t)' \cup Others(t)
      /\ Mine(t) \cap Others(t) = {}
      /\ \A u \in Tasks \ {t} : Elements(HandOf(u))' = Elements(HandOf(u))
                                /\ Distinct(HandOf(u))' /\ HandOf(u)' \in Seq(Batch)
  BY <1>1, OthersKeep
<1>3. produced \in Nat /\ MaxBatches \in Nat /\ produced <= MaxBatches /\ Held \subseteq 1 .. produced
  BY PublisherAssumption DEF PubInv, PublisherTypeOK, Known
<1>4. Mine(t)' \cap Others(t) = {}
  <2>1. CASE Settles(t)
    BY <1>2, <2>1 DEF Settles
  <2>2. ASSUME NEW n \in Nat \ {0}, Builds(t, n) PROVE Mine(t)' \cap Others(t) = {}
    <3>1. Elements(queue)' = Elements(queue)
      BY <2>2 DEF Builds, Elements
    <3>2. Mine(t)' = Elements(queue) \cup (produced + 1 .. produced + n)
      BY <3>1, <2>2 DEF Builds, Mine
    <3>3. \A b \in Others(t) : b \in 1 .. produced /\ b \notin Elements(queue)
      BY <1>2, <1>3 DEF Mine
    <3> QED BY <1>3, <3>2, <3>3
  <2> QED BY <1>0, <2>1, <2>2
<1>5. InOneHand'
  <2>1. /\ Distinct(queue)' /\ Distinct(HandOf(t))' /\ (Elements(HandOf(t)) \cap Elements(queue))' = {}
    BY <1>1 DEF Moves
  <2>2. \A u \in Tasks \ {t} : /\ (Elements(HandOf(u)) \cap Elements(queue))' = {}
                               /\ (Elements(HandOf(u)) \cap Elements(HandOf(t)))' = {}
    BY <1>2, <1>4 DEF Mine, Others
  <2>3. \A u, v \in Tasks \ {t} : u # v => (Elements(HandOf(u)) \cap Elements(HandOf(v)))' = {}
    BY <1>2 DEF PubInv, InOneHand
  <2> QED BY <1>2, <2>1, <2>2, <2>3 DEF InOneHand
<1>6. Known' /\ Accounted' /\ produced' \in 0 .. MaxBatches
  <2>1. CASE Settles(t)
    BY <1>2, <1>3, <2>1 DEF Settles, PubInv, Known, Accounted
  <2>2. ASSUME NEW n \in Nat \ {0}, Builds(t, n)
        PROVE  Known' /\ Accounted' /\ produced' \in 0 .. MaxBatches
    <3>1. Elements(queue)' = Elements(queue) /\ Elements(HandOf(t)) = {}
      BY <2>2 DEF Builds, Elements
    <3>2. Held' = Held \cup (produced + 1 .. produced + n)
      BY <3>1, <1>2, <2>2 DEF Builds, Mine
    <3>3. 1 .. produced' = 1 .. produced \cup (produced + 1 .. produced + n)
      BY <1>3, <2>2 DEF Builds
    <3>4. arrived' = arrived /\ lost' = lost /\ produced' \in 0 .. MaxBatches
      BY <1>3, <2>2 DEF Builds
    <3> QED BY <3>2, <3>3, <3>4 DEF PubInv, Known, Accounted
  <2> QED BY <1>0, <2>1, <2>2
<1>7. PublisherTypeOK'
  <2>1. \A u \in Tasks : HandOf(u)' \in Seq(Batch)
    BY <1>1, <1>2 DEF Moves
  <2>2. sending' \in [Senders -> Seq(Batch)] /\ draining' \in [Heartbeats -> Seq(Batch)]
    BY <2>1, StepShapes, PublisherAssumption DEF PubInv, Tasks, HandOf
  <2>3. arrived' \cup lost' \subseteq Batch
    BY <1>3, <1>6 DEF Known, Batch
  <2> QED BY <1>1, <1>6, <2>2, <2>3, StepShapes DEF PubInv, PublisherTypeOK, Moves
<1> QED BY <1>5, <1>6, <1>7 DEF PubInv

LEMMA InitPublisher == PublisherInit => PubInv
<1> SUFFICES ASSUME PublisherInit PROVE PubInv
  OBVIOUS
<1>1. << >> \in Seq(Batch) /\ Elements(<< >>) = {} /\ Distinct(<< >>) /\ 0 <= MaxQueueDepth
      /\ Len(<< >>) = 0
  BY PublisherAssumption DEF Elements, Distinct
<1>2. \A t \in Tasks : HandOf(t) = << >>
  BY DEF PublisherInit, HandOf, Tasks
<1>3. PublisherTypeOK
  BY <1>1, PublisherAssumption DEF PublisherInit, PublisherTypeOK
<1>4. InOneHand
  BY <1>1, <1>2 DEF PublisherInit, InOneHand
<1>5. Held = {}
  BY <1>1, <1>2 DEF PublisherInit, Held
<1>6. Known /\ Accounted
  BY <1>5 DEF PublisherInit, Known, Accounted
<1> QED BY <1>3, <1>4, <1>6 DEF PubInv

LEMMA StillPublisher ==
  ASSUME PubInv, UNCHANGED pubVars
  PROVE  PubInv' /\ Held' = Held
<1> USE DEF pubVars
<1>1. /\ Elements(queue)' = Elements(queue) /\ Distinct(queue)' = Distinct(queue)
      /\ \A t \in Tasks : /\ Elements(HandOf(t))' = Elements(HandOf(t))
                          /\ Distinct(HandOf(t))' = Distinct(HandOf(t))
  BY DEF Elements, Distinct, HandOf
<1>2. Held' = Held
  BY <1>1 DEF Held
<1>3. PublisherTypeOK'
  BY DEF PubInv, PublisherTypeOK
<1>4. InOneHand'
  BY <1>1 DEF PubInv, InOneHand
<1>5. Known' /\ Accounted'
  BY <1>2 DEF PubInv, Known, Accounted
<1> QED BY <1>2, <1>3, <1>4, <1>5 DEF PubInv

-----------------------------------------------------------------------------
(***************************************************************************)
(* What a step of the publisher is to BatchChannel, and what it drops.     *)
(***************************************************************************)
LEMMA StepOnChannel ==
  ASSUME PubInv, PubStep
  PROVE  Channel!Build \/ Channel!Settle
<1>0. PICK t \in Tasks : Settles(t) \/ \E n \in Nat \ {0} : Builds(t, n)
  BY StepMoves
<1>1. /\ Held = Mine(t) \cup Others(t) /\ Held' = Mine(t)' \cup Others(t)
      /\ produced \in Nat
  BY <1>0, OthersKeep DEF Settles, Builds, PubInv, PublisherTypeOK
<1>2. CASE Settles(t)
  BY <1>1, <1>2 DEF Settles, Channel!Settle
<1>3. ASSUME NEW n \in Nat \ {0}, Builds(t, n) PROVE Channel!Build
  <2>1. Elements(queue)' = Elements(queue) /\ Elements(HandOf(t)) = {}
    BY <1>3 DEF Builds, Elements
  <2>2. Held' = Held \cup (produced + 1 .. produced')
    BY <1>1, <1>3, <2>1 DEF Builds, Mine
  <2> QED BY <1>1, <1>3, <2>2 DEF Builds, Channel!Build
<1> QED BY <1>0, <1>2, <1>3

(* While all the batches ever built would fit, a push drops none of them:   *)
(* what is pushed is not in the queue, so the queue cannot be full.        *)
LEMMA StepDropsNothing ==
  ASSUME PubInv, PubStep, produced <= MaxQueueDepth, queue' # queue
  PROVE  lost' = lost
<1>0. produced \in Nat /\ MaxQueueDepth \in Nat /\ Len(queue) \in Nat
  BY PublisherAssumption DEF PubInv, PublisherTypeOK
<1>a. \A q \in Seq(Batch) : q \in Seq(Nat)
  <2>1. Batch \subseteq Nat
    BY PublisherAssumption DEF Batch
  <2> QED BY <2>1, SeqMonotonic
<1>1. ASSUME NEW s \in Senders, SendFailed(s) PROVE lost' = lost
  <2>0. s \in Tasks /\ HandOf(s) = sending[s] /\ sending[s] # << >>
    BY <1>1 DEF Tasks, HandOf, SendFailed
  <2>1. /\ HandOf(s) \in Seq(Batch) /\ queue \in Seq(Batch) /\ Len(queue) <= MaxQueueDepth
        /\ Distinct(queue) /\ Elements(HandOf(s)) \cap Elements(queue) = {}
        /\ Mine(s) \subseteq 1 .. produced
    BY <2>0, HandsTyped
  <2>2. Head(sending[s]) \in Batch /\ Head(sending[s]) \in Elements(HandOf(s))
    BY <2>0, <2>1, OfTail
  <2>3. PICK b \in Batch : b = Head(sending[s]) /\ b \notin Elements(queue) /\ b \in 1 .. produced
    BY <2>1, <2>2 DEF Mine
  <2>4. /\ Append(queue, b) \in Seq(Batch) /\ Len(Append(queue, b)) = Len(queue) + 1
        /\ Distinct(Append(queue, b)) /\ Elements(Append(queue, b)) \subseteq 1 .. produced
    BY <2>1, <2>3, OfAppend DEF Mine
  <2>5. Len(Append(queue, b)) <= produced
    BY <2>4, <1>0, <1>a, DistinctFits
  <2>6. Len(queue) # MaxQueueDepth
    BY <1>0, <2>4, <2>5
  <2>7. Elements(queue) \subseteq Elements(Pushed(queue, b))
    BY <2>1, <2>3, <2>6, PushedHolds
  <2> QED BY <1>1, <2>3, <2>7 DEF SendFailed, Requeue
<1>2. ASSUME NEW h \in Heartbeats, DrainFailed(h) PROVE lost' = lost
  <2>0. h \in Tasks /\ HandOf(h) = draining[h]
    BY PublisherAssumption DEF Tasks, HandOf
  <2>1. PICK hand : hand = draining[h] /\ hand \in Seq(Batch) /\ queue \in Seq(Batch)
                    /\ Distinct(hand) /\ Distinct(queue) /\ Elements(hand) \cap Elements(queue) = {}
                    /\ Elements(hand) \cup Elements(queue) \subseteq 1 .. produced
    BY <2>0, HandsTyped DEF Mine
  <2>2. PICK all \in Seq(Batch) : /\ all = hand \o queue /\ Distinct(all)
                                  /\ Elements(all) \subseteq 1 .. produced
    <3>1. /\ hand \o queue \in Seq(Batch)
          /\ Elements(hand \o queue) = Elements(hand) \cup Elements(queue)
          /\ Distinct(hand \o queue)
      BY <2>1, OfConcat
    <3> QED BY <2>1, <3>1
  <2>3. Len(all) <= produced
    BY <2>2, <1>0, <1>a, DistinctFits
  <2>4. Len(hand \o queue) <= MaxQueueDepth
    BY <1>0, <2>2, <2>3
  <2>5. Elements(PushedFront(queue, hand)) = Elements(queue) \cup Elements(hand)
    BY <2>1, <2>4, PushedFrontHolds
  <2> QED BY <1>2, <2>1, <2>5 DEF DrainFailed, Requeue
<1> QED
  BY <1>1, <1>2
  DEF PubStep, SendStep, DrainStep, Sent, SendRaised, Send, DrainSent, DrainRaised, DrainQueue,
      LinkChanges
=============================================================================
