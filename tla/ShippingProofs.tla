---------------------------- MODULE ShippingProofs ----------------------------
(***************************************************************************)
(* What holds of Shipping for any entities, any commands and status        *)
(* answers, any depth of the queue: types, that only confirmed entities    *)
(* leave by the flush, that no batch vanishes, and that the queue keeps the *)
(* order of building.                                                      *)
(***************************************************************************)
EXTENDS Shipping, PublisherProofs

(***************************************************************************)
(* The inductive invariant, without the order of the queue.  What was      *)
(* built is confirmed from then on, whether it has arrived yet or not; and  *)
(* what an active gate would let through now is confirmed already.         *)
(***************************************************************************)
BuiltConfirmed == \A b \in 1 .. produced : builder[b] = BatchLoop => content[b] \subseteq confirmed
GateConfirmed  == PublishingEnabled => whitelist \subseteq confirmed

(* A sender has its own batches in hand. *)
ByTheirOwn == \A s \in Senders : \A b \in Elements(sending[s]) : builder[b] = s

ShipTypes ==
  /\ GateTypeOK
  /\ content \in [Batch -> SUBSET Entity]
  /\ shown \in [Entity -> 0 .. MaxBatches]
  /\ builder \in [Batch -> Senders] /\ overlapped \in BOOLEAN
  /\ confirmed \in SUBSET Entity
  /\ gateChanges \in 0 .. MaxGateChanges

ShipInv == PubInv /\ ShipTypes /\ BuiltConfirmed /\ GateConfirmed /\ ByTheirOwn

LEMMA ShipSays == ShipInv => ShippingTypeOK /\ OnlyConfirmedLeaves /\ Accounted
<1> SUFFICES ASSUME ShipInv PROVE ShippingTypeOK /\ OnlyConfirmedLeaves /\ Accounted
  OBVIOUS
<1>1. ShippingTypeOK /\ Accounted
  BY DEF ShipInv, PubInv, ShipTypes, ShippingTypeOK
<1>2. arrived \subseteq 1 .. produced
  BY DEF ShipInv, PubInv, Known
<1>3. OnlyConfirmedLeaves
  BY <1>2 DEF ShipInv, BuiltConfirmed, OnlyConfirmedLeaves
<1> QED BY <1>1, <1>3

-----------------------------------------------------------------------------
(***************************************************************************)
(* The steps.                                                              *)
(***************************************************************************)
Ships ==
  \/ \E s \in Senders : SendStep(s)
  \/ \E h \in Heartbeats : DrainStep(h) \/ DrainQueue(h)
  \/ LinkChanges

LEMMA PublishingShips ==
  ASSUME Publishing
  PROVE  /\ Ships /\ UNCHANGED <<gateVars, content, builder, confirmed, gateChanges>>
         /\ UNCHANGED shown \/ \E b : Ingested(b)
<1> QED BY DEF Publishing, Ships

LEMMA ShippingOnPublisher ==
  ASSUME ShippingStep
  PROVE  PubStep \/ UNCHANGED pubVars
<1>1. ASSUME NEW n \in 1 .. MaxChunks, NEW rows, NEW s \in Senders, Flush(n, rows) \/ Replay(s, n, rows)
      PROVE  PubStep
  <2>1. n \in Nat \ {0} /\ BatchLoop \in Senders
    BY PublisherAssumption
  <2> QED BY <1>1, <2>1 DEF Flush, Replay, Build, PubStep
<1>2. ASSUME Publishing PROVE PubStep
  BY <1>2, PublishingShips DEF Ships, PubStep
<1>3. ASSUME NEW msg \in Messages, GateMoves(msg) PROVE UNCHANGED pubVars
  BY <1>3 DEF GateMoves
<1> QED BY <1>1, <1>2, <1>3, PublisherAssumption DEF ShippingStep

(* A step that builds nothing leaves each hand with what it had, or less. *)
LEMMA ShipsShrinks ==
  ASSUME PubInv, Ships
  PROVE  /\ produced' = produced
         /\ \A s \in Senders : Elements(sending[s])' \subseteq Elements(sending[s])
<1>1. produced' = produced
  BY DEF Ships, SendStep, Sent, SendFailed, SendRaised, DrainStep, DrainSent, DrainFailed, DrainRaised,
         DrainQueue, LinkChanges
<1>2. ASSUME NEW s \in Senders, sending'[s] = sending[s]
      PROVE  Elements(sending[s])' \subseteq Elements(sending[s])
  BY <1>2 DEF Elements
<1>3. ASSUME NEW s \in Senders, sending[s] # << >>, sending'[s] = Tail(sending[s])
      PROVE  Elements(sending[s])' \subseteq Elements(sending[s])
  <2>1. sending[s] \in Seq(Batch)
    BY DEF PubInv, PublisherTypeOK
  <2>2. Elements(Tail(sending[s])) \subseteq Elements(sending[s])
    BY <1>3, <2>1, OfTail
  <2> QED BY <1>3, <2>2 DEF Elements
<1>4. ASSUME NEW s \in Senders, sending'[s] = << >>
      PROVE  Elements(sending[s])' \subseteq Elements(sending[s])
  BY <1>4 DEF Elements
<1>5. ASSUME NEW s \in Senders
      PROVE  \/ sending'[s] = sending[s]
             \/ sending[s] # << >> /\ sending'[s] = Tail(sending[s])
             \/ sending'[s] = << >>
  <2>1. CASE \E u \in Senders : SendStep(u)
    BY <2>1 DEF SendStep, Sent, SendFailed, SendRaised, PubInv, PublisherTypeOK
  <2>2. CASE ~ \E u \in Senders : SendStep(u)
    BY <2>2 DEF Ships, DrainStep, DrainSent, DrainFailed, DrainRaised, DrainQueue, LinkChanges
  <2> QED BY <2>1, <2>2
<1> QED BY <1>1, <1>2, <1>3, <1>4, <1>5

(* The rows of the new batches, all of one sender. *)
LEMMA BuildShips ==
  ASSUME ShipInv, PubInv', overlapped' \in BOOLEAN, NEW s \in Senders, NEW n \in 1 .. MaxChunks,
         NEW rows \in [1 .. n -> SUBSET Entity \ {{}}], Build(s, n, rows),
         s = BatchLoop => \A i \in 1 .. n : rows[i] \subseteq confirmed
  PROVE  ShipInv'
<1>0. /\ produced \in Nat /\ produced' = produced + n /\ n \in Nat \ {0} /\ MaxBatches \in Nat
      /\ produced + n <= MaxBatches
  BY PublisherAssumption DEF ShipInv, PubInv, PublisherTypeOK, Build, Send
<1>1. /\ UNCHANGED <<gateVars, shown, confirmed, gateChanges>>
      /\ \A b \in Batch : content'[b] = IF b \in produced + 1 .. produced + n
                                        THEN rows[b - produced] ELSE content[b]
      /\ content' = [b \in Batch |-> content'[b]]
      /\ builder' = [b \in Batch |-> IF b \in produced + 1 .. produced + n THEN s ELSE builder[b]]
  BY DEF Build
<1>2. \A b \in produced + 1 .. produced + n : b - produced \in 1 .. n /\ b \in Batch
  BY <1>0 DEF Batch
<1>3. Builds(s, n)
  BY <1>0, SendBuilds DEF Build, ShipInv
<1>4. Elements(sending[s])' = produced + 1 .. produced + n
      /\ \A u \in Senders \ {s} : Elements(sending[u])' = Elements(sending[u])
  <2>1. \A u \in Senders : HandOf(u) = sending[u] /\ HandOf(u)' = sending'[u]
    BY DEF HandOf
  <2>2. \A u \in Senders \ {s} : sending'[u] = sending[u]
    BY <1>3, <2>1 DEF Builds, Moves, Tasks
  <2>3. Elements(HandOf(s))' = Elements(sending[s])'
    BY <2>1 DEF Elements
  <2> QED BY <1>3, <2>2, <2>3 DEF Builds, Elements
<1>5. ShipTypes'
  <2>1. \A b \in Batch : content'[b] \in SUBSET Entity
    BY <1>1, <1>2 DEF ShipInv, ShipTypes
  <2>2. content' \in [Batch -> SUBSET Entity]
    BY <1>1, <2>1
  <2>3. builder' \in [Batch -> Senders]
    BY <1>1 DEF ShipInv, ShipTypes
  <2> QED BY <1>1, <2>2, <2>3 DEF ShipInv, ShipTypes, GateTypeOK, gateVars
<1>6. BuiltConfirmed'
  <2> SUFFICES ASSUME NEW b \in 1 .. produced', builder'[b] = BatchLoop
               PROVE  content'[b] \subseteq confirmed
    BY <1>1 DEF BuiltConfirmed
  <2>0. b \in Batch
    BY <1>0 DEF Batch
  <2>1. CASE b \in produced + 1 .. produced + n
    <3>1. s = BatchLoop /\ content'[b] = rows[b - produced]
      BY <1>1, <2>0, <2>1
    <3> QED BY <1>2, <2>1, <3>1
  <2>2. CASE b \notin produced + 1 .. produced + n
    BY <1>0, <1>1, <2>0, <2>2 DEF ShipInv, BuiltConfirmed
  <2> QED BY <2>1, <2>2
<1>7. GateConfirmed'
  BY <1>1 DEF ShipInv, GateConfirmed, PublishingEnabled, gateVars
<1>8. ByTheirOwn'
  <2> SUFFICES ASSUME NEW u \in Senders, NEW b \in Elements(sending[u])' PROVE builder'[b] = u
    BY DEF ByTheirOwn
  <2>1. CASE u = s
    BY <1>1, <1>2, <1>4, <2>1
  <2>2. CASE u # s
    <3>1. b \in Elements(sending[u])
      BY <1>4, <2>2
    <3>2. HandOf(u) = sending[u] /\ u \in Tasks
      BY DEF HandOf, Tasks
    <3>3. Mine(u) \subseteq 1 .. produced
      BY <3>2, HandsTyped DEF ShipInv
    <3>4. b \in 1 .. produced /\ b \in Batch
      BY <1>0, <3>1, <3>2, <3>3 DEF Mine, Batch
    <3>5. builder'[b] = builder[b]
      BY <1>0, <1>1, <3>4
    <3> QED BY <3>1, <3>5 DEF ShipInv, ByTheirOwn
  <2> QED BY <2>1, <2>2
<1> QED BY <1>5, <1>6, <1>7, <1>8 DEF ShipInv

LEMMA PublishingKeeps ==
  ASSUME ShipInv, PubInv', overlapped' \in BOOLEAN, Publishing
  PROVE  ShipInv'
<1>1. /\ Ships /\ UNCHANGED <<gateVars, content, builder, confirmed, gateChanges>>
  BY PublishingShips
<1>2. /\ produced' = produced
      /\ \A s \in Senders : Elements(sending[s])' \subseteq Elements(sending[s])
  BY <1>1, ShipsShrinks DEF ShipInv
<1>3. shown' \in [Entity -> 0 .. MaxBatches]
  <2>1. \A s \in Senders : sending[s] # << >> => Head(sending[s]) \in Batch
    BY OfTail DEF ShipInv, PubInv, PublisherTypeOK
  <2>2. \A h \in Heartbeats : draining[h] # << >> => Head(draining[h]) \in Batch
    BY OfTail DEF ShipInv, PubInv, PublisherTypeOK
  <2>3. UNCHANGED shown \/ \E b \in Batch : Ingested(b)
    BY <2>1, <2>2
    DEF Publishing, SendStep, Sent, SendFailed, SendRaised, DrainStep, DrainSent, DrainFailed, DrainRaised
  <2>4. shown \in [Entity -> 0 .. MaxBatches] /\ Batch \subseteq 0 .. MaxBatches
    BY DEF ShipInv, ShipTypes, Batch
  <2>5. ASSUME NEW b \in Batch, Ingested(b) PROVE shown' \in [Entity -> 0 .. MaxBatches]
    BY <2>4, <2>5 DEF Ingested
  <2> QED BY <2>3, <2>4, <2>5
<1>4. ShipTypes'
  BY <1>1, <1>3 DEF ShipInv, ShipTypes, GateTypeOK, gateVars
<1>5. BuiltConfirmed' /\ GateConfirmed'
  BY <1>1, <1>2 DEF ShipInv, BuiltConfirmed, GateConfirmed, PublishingEnabled, gateVars
<1>6. ByTheirOwn'
  BY <1>1, <1>2, PublisherAssumption DEF ShipInv, ByTheirOwn
<1> QED BY <1>4, <1>5, <1>6 DEF ShipInv

(* A list the gate takes is confirmed with it when the mode is active.  A   *)
(* list that comes in a suppressed mode is confirmed when the mode is      *)
(* turned: the whole list in force then is.                                *)
LEMMA GateKeeps ==
  ASSUME ShipInv, PubInv', overlapped' \in BOOLEAN, NEW msg \in Messages, GateMoves(msg)
  PROVE  ShipInv'
<1>0. /\ msg \in Message
      /\ UNCHANGED <<queue, sending, draining, produced, arrived, lost, content, shown, builder>>
      /\ MaxGateChanges \in Nat
  BY ShippingAssumption DEF GateMoves, pubVars
<1>1. /\ whitelist' \in SUBSET Entity /\ whitelistVersion' \in Nat \cup {-1}
      /\ shippingMode' \in ValidModes
  <2>1. /\ msg.list \in SUBSET Entity /\ msg.version \in Nat \cup {NoVersion}
        /\ shippingMode \in ValidModes /\ whitelist \in SUBSET Entity
        /\ whitelistVersion \in Nat \cup {-1}
    BY <1>0 DEF Message, ShipInv, ShipTypes, GateTypeOK
  <2>2. shippingMode' \in ValidModes /\ TakeList(msg)
    BY <2>1 DEF GateMoves, SetShippingMode, ReconcileFromStatus
  <2>3. CASE msg.hasList /\ ~ Stale(msg.version)
    BY <2>1, <2>2, <2>3 DEF TakeList, SetWhitelist
  <2>4. CASE ~ (msg.hasList /\ ~ Stale(msg.version))
    BY <2>1, <2>2, <2>4 DEF TakeList, SetWhitelist
  <2> QED BY <2>2, <2>3, <2>4
<1>2. confirmed' = confirmed \cup (IF shippingMode' = "active" THEN whitelist' ELSE {})
  BY DEF GateMoves
<1>3. ShipTypes'
  BY <1>0, <1>1, <1>2 DEF ShipInv, ShipTypes, GateTypeOK, GateMoves
<1>4. GateConfirmed'
  BY <1>1, <1>2 DEF GateConfirmed, PublishingEnabled, SuppressedModes, ValidModes
<1>5. BuiltConfirmed'
  BY <1>0, <1>2 DEF ShipInv, BuiltConfirmed
<1>6. ByTheirOwn'
  <2>1. \A s \in Senders : Elements(sending[s])' = Elements(sending[s])
    BY <1>0 DEF Elements
  <2> QED BY <1>0, <2>1, PublisherAssumption DEF ShipInv, ByTheirOwn
<1> QED BY <1>3, <1>4, <1>5, <1>6 DEF ShipInv

LEMMA InitShips == ShippingInit => ShipInv
<1> SUFFICES ASSUME ShippingInit PROVE ShipInv
  OBVIOUS
<1>1. PubInv
  BY InitPublisher DEF ShippingInit
<1>2. ShipTypes
  <2>1. GateTypeOK
    BY DEF ShippingInit, GateInit, DefaultMode, ValidModes, GateTypeOK
  <2>2. builder \in [Batch -> Senders]
    BY PublisherAssumption DEF ShippingInit
  <2>3. overlapped \in BOOLEAN
    BY DEF ShippingInit
  <2>4. content \in [Batch -> SUBSET Entity] /\ shown \in [Entity -> 0 .. MaxBatches]
    BY PublisherAssumption DEF ShippingInit
  <2>5. confirmed \in SUBSET Entity /\ gateChanges \in 0 .. MaxGateChanges
    BY ShippingAssumption DEF ShippingInit
  <2> QED BY <2>1, <2>2, <2>3, <2>4, <2>5 DEF ShipTypes
<1>3. BuiltConfirmed /\ GateConfirmed
  BY DEF ShippingInit, PublisherInit, GateInit, DefaultMode, SuppressedModes, PublishingEnabled,
         BuiltConfirmed, GateConfirmed
<1>4. ByTheirOwn
  <2>1. \A s \in Senders : Elements(sending[s]) = {}
    BY DEF ShippingInit, PublisherInit, Elements
  <2> QED BY <2>1, PublisherAssumption DEF ShippingInit, ByTheirOwn
<1> QED BY <1>1, <1>2, <1>3, <1>4 DEF ShipInv

LEMMA NextShips == ShipInv /\ [ShippingNext]_shippingVars => ShipInv'
<1> SUFFICES ASSUME ShipInv, [ShippingNext]_shippingVars PROVE ShipInv'
  OBVIOUS
<1>1. PubStep \/ UNCHANGED pubVars
  BY ShippingOnPublisher DEF shippingVars, ShippingNext
<1>2. PubInv'
  BY <1>1, StepPublisher, StillPublisher DEF ShipInv
<1>0. overlapped' \in BOOLEAN
  BY DEF shippingVars, ShippingNext, ShipInv, ShipTypes
<1>3. ASSUME NEW n \in 1 .. MaxChunks, NEW rows \in [1 .. n -> SUBSET Entity \ {{}}], Flush(n, rows)
      PROVE  ShipInv'
  <2>1. /\ BatchLoop \in Senders /\ Build(BatchLoop, n, rows)
        /\ \A i \in 1 .. n : rows[i] \subseteq confirmed
    BY <1>3, PublisherAssumption DEF Flush, ShipInv, GateConfirmed
  <2> QED BY <1>0, <1>2, <2>1, BuildShips
<1>4. ASSUME NEW n \in 1 .. MaxChunks, NEW rows \in [1 .. n -> SUBSET Entity \ {{}}],
             NEW s \in Senders, Replay(s, n, rows)
      PROVE  ShipInv'
  <2>1. s # BatchLoop /\ Build(s, n, rows)
    BY <1>4 DEF Replay
  <2> QED BY <1>0, <1>2, <2>1, BuildShips
<1>5. CASE UNCHANGED shippingVars
  <2>1. /\ UNCHANGED <<sending, produced, gateVars, content, shown, builder, confirmed, gateChanges>>
    BY <1>5 DEF shippingVars, pubVars
  <2>2. \A s \in Senders : Elements(sending[s])' = Elements(sending[s])
    BY <2>1 DEF Elements
  <2>3. ShipTypes' /\ BuiltConfirmed' /\ GateConfirmed'
    BY <1>0, <2>1 DEF ShipInv, ShipTypes, GateTypeOK, BuiltConfirmed, GateConfirmed, PublishingEnabled, gateVars
  <2>4. ByTheirOwn'
    BY <2>1, <2>2, PublisherAssumption DEF ShipInv, ByTheirOwn
  <2> QED BY <1>2, <2>3, <2>4 DEF ShipInv
<1> QED BY <1>0, <1>2, <1>3, <1>4, <1>5, PublishingKeeps, GateKeeps DEF ShippingNext, ShippingStep

LEMMA ShippingHolds == ShippingSpec => []ShipInv
<1> QED BY InitShips, NextShips, PTL DEF ShippingSpec

-----------------------------------------------------------------------------
(***************************************************************************)
(* The order of the queue.  While no drains overlap, what is drained, the  *)
(* queue and the hand of a sender are one line of batches: those of the    *)
(* sender ascend along it.                                                 *)
(***************************************************************************)
AscIn(C, s) == \A i, j \in DOMAIN s : i < j /\ s[i] \in C /\ s[j] \in C => s[i] < s[j]
Below(C, A, B) == \A x \in A \cap C : \A y \in B \cap C : x < y

Line(C, first, q, last) ==
  /\ AscIn(C, first) /\ AscIn(C, q) /\ AscIn(C, last)
  /\ Below(C, Elements(first), Elements(q))
  /\ Below(C, Elements(first), Elements(last))
  /\ Below(C, Elements(q), Elements(last))

LEMMA AscNone == \A C : AscIn(C, << >>) /\ Elements(<< >>) = {}
<1> QED BY DEF AscIn, Elements

LEMMA AscTail ==
  ASSUME NEW C, NEW s \in Seq(Batch), s # << >>, AscIn(C, s)
  PROVE  AscIn(C, Tail(s)) /\ Below(C, {Head(s)}, Elements(Tail(s)))
<1>1. /\ Head(s) = s[1] /\ 1 \in DOMAIN s
      /\ \A i \in DOMAIN Tail(s) : i \in Nat /\ i + 1 \in DOMAIN s /\ Tail(s)[i] = s[i + 1] /\ 1 < i + 1
  OBVIOUS
<1>2. AscIn(C, Tail(s))
  <2> SUFFICES ASSUME NEW i \in DOMAIN Tail(s), NEW j \in DOMAIN Tail(s), i < j,
                      Tail(s)[i] \in C, Tail(s)[j] \in C
               PROVE  Tail(s)[i] < Tail(s)[j]
    BY DEF AscIn
  <2>1. i + 1 < j + 1
    BY <1>1
  <2> QED BY <1>1, <2>1 DEF AscIn
<1>3. Below(C, {Head(s)}, Elements(Tail(s)))
  <2> SUFFICES ASSUME NEW i \in DOMAIN Tail(s), Head(s) \in C, Tail(s)[i] \in C
               PROVE  Head(s) < Tail(s)[i]
    BY DEF Below, Elements
  <2> QED BY <1>1 DEF AscIn
<1> QED BY <1>2, <1>3

LEMMA AscConcat ==
  ASSUME NEW C, NEW s \in Seq(Batch), NEW q \in Seq(Batch), AscIn(C, s), AscIn(C, q),
         Below(C, Elements(s), Elements(q))
  PROVE  AscIn(C, s \o q)
<1>1. /\ \A i \in DOMAIN (s \o q) : i \in Nat
      /\ \A i \in DOMAIN (s \o q) : \/ i \in DOMAIN s /\ (s \o q)[i] = s[i]
                                    \/ /\ i \notin DOMAIN s /\ i - Len(s) \in DOMAIN q
                                       /\ (s \o q)[i] = q[i - Len(s)]
      /\ \A i, j \in DOMAIN (s \o q) : i < j /\ j \in DOMAIN s => i \in DOMAIN s
  OBVIOUS
<1> SUFFICES ASSUME NEW i \in DOMAIN (s \o q), NEW j \in DOMAIN (s \o q), i < j,
                    (s \o q)[i] \in C, (s \o q)[j] \in C
             PROVE  (s \o q)[i] < (s \o q)[j]
  BY DEF AscIn
<1>2. CASE j \in DOMAIN s
  BY <1>1, <1>2 DEF AscIn
<1>3. CASE i \in DOMAIN s /\ j \notin DOMAIN s
  <2>1. (s \o q)[i] \in Elements(s) /\ (s \o q)[j] \in Elements(q)
    BY <1>1, <1>3 DEF Elements
  <2> QED BY <2>1 DEF Below
<1>4. CASE i \notin DOMAIN s
  <2>1. j \notin DOMAIN s /\ i - Len(s) < j - Len(s)
    BY <1>1, <1>4
  <2> QED BY <1>1, <1>4, <2>1 DEF AscIn
<1> QED BY <1>2, <1>3, <1>4

LEMMA AscAppend ==
  ASSUME NEW C, NEW s \in Seq(Batch), NEW b \in Batch, AscIn(C, s), Below(C, Elements(s), {b})
  PROVE  AscIn(C, Append(s, b))
<1>1. /\ \A i \in DOMAIN Append(s, b) : \/ i \in DOMAIN s /\ Append(s, b)[i] = s[i]
                                        \/ i = Len(s) + 1 /\ Append(s, b)[i] = b
      /\ \A i, j \in DOMAIN Append(s, b) : i < j => i \in DOMAIN s
  OBVIOUS
<1>2. \A i \in DOMAIN s : s[i] \in Elements(s)
  BY DEF Elements
<1> QED BY <1>1, <1>2 DEF AscIn, Below

LEMMA AscPrefix ==
  ASSUME NEW C, NEW s \in Seq(Batch), NEW n \in 0 .. Len(s), AscIn(C, s)
  PROVE  AscIn(C, SubSeq(s, 1, n))
<1>1. \A i \in DOMAIN SubSeq(s, 1, n) : i \in DOMAIN s /\ SubSeq(s, 1, n)[i] = s[i]
  OBVIOUS
<1> QED BY <1>1 DEF AscIn

(* The last of the line goes into the queue, whose oldest may fall out. *)
LEMMA LinePushed ==
  ASSUME NEW C, NEW first \in Seq(Batch), NEW q \in Seq(Batch), NEW last \in Seq(Batch),
         Line(C, first, q, last), last # << >>, Len(q) <= MaxQueueDepth
  PROVE  Line(C, first, Pushed(q, Head(last)), Tail(last))
<1>1. PICK b \in Batch : b = Head(last)
  BY OfTail
<1>2. /\ Tail(last) \in Seq(Batch) /\ Elements(last) = {b} \cup Elements(Tail(last))
      /\ AscIn(C, Tail(last)) /\ Below(C, {b}, Elements(Tail(last)))
  BY <1>1, OfTail, AscTail DEF Line
<1>3. Elements(Pushed(q, b)) \subseteq Elements(q) \cup {b}
  BY PushedHolds
<1>4. AscIn(C, Pushed(q, b))
  <2>1. AscIn(C, q) /\ Below(C, Elements(q), {b})
    BY <1>2 DEF Line, Below
  <2>2. CASE Len(q) = MaxQueueDepth
    <3>1. q # << >>
      BY <2>2, PublisherAssumption
    <3>2. Tail(q) \in Seq(Batch) /\ Elements(Tail(q)) \subseteq Elements(q) /\ AscIn(C, Tail(q))
      BY <2>1, <3>1, OfTail, AscTail
    <3>3. AscIn(C, Append(Tail(q), b))
      BY <2>1, <3>2, AscAppend DEF Below
    <3> QED BY <2>2, <3>3 DEF Pushed
  <2>3. CASE Len(q) # MaxQueueDepth
    BY <2>1, <2>3, AscAppend DEF Pushed
  <2> QED BY <2>2, <2>3
<1>5. /\ Below(C, Elements(first), Elements(Pushed(q, b)))
      /\ Below(C, Elements(first), Elements(Tail(last)))
      /\ Below(C, Elements(Pushed(q, b)), Elements(Tail(last)))
  BY <1>2, <1>3 DEF Line, Below
<1> QED BY <1>1, <1>2, <1>4, <1>5 DEF Line

(* So does a batch of another source. *)
LEMMA LineOtherPushed ==
  ASSUME NEW C, NEW first \in Seq(Batch), NEW q \in Seq(Batch), NEW last \in Seq(Batch),
         Line(C, first, q, last), NEW b \in Batch, b \notin C, Len(q) <= MaxQueueDepth
  PROVE  Line(C, first, Pushed(q, b), last)
<1>1. Elements(Pushed(q, b)) \subseteq Elements(q) \cup {b}
  BY PushedHolds
<1>2. AscIn(C, q) /\ \A A : Below(C, A, {b})
  BY DEF Line, Below
<1>3. AscIn(C, Pushed(q, b))
  <2>1. CASE Len(q) = MaxQueueDepth
    <3>1. q # << >>
      BY <2>1, PublisherAssumption
    <3>2. Tail(q) \in Seq(Batch) /\ AscIn(C, Tail(q))
      BY <1>2, <3>1, OfTail, AscTail
    <3> QED BY <1>2, <2>1, <3>2, AscAppend DEF Pushed
  <2>2. CASE Len(q) # MaxQueueDepth
    BY <1>2, <2>2, AscAppend DEF Pushed
  <2> QED BY <2>1, <2>2
<1>4. /\ Below(C, Elements(first), Elements(Pushed(q, b)))
      /\ Below(C, Elements(Pushed(q, b)), Elements(last))
  BY <1>1 DEF Line, Below
<1> QED BY <1>3, <1>4 DEF Line

(* What leaves an end of the line, in the hand of the heartbeat or of the   *)
(* sender, leaves the rest in order; a drain that starts moves it along.   *)
LEMMA LineShrinks ==
  ASSUME NEW C, NEW first \in Seq(Batch), NEW q \in Seq(Batch), NEW last \in Seq(Batch),
         Line(C, first, q, last)
  PROVE  /\ last # << >> => Line(C, first, q, Tail(last))
         /\ first # << >> => Line(C, Tail(first), q, last)
         /\ Line(C, first, q, << >>)
         /\ Line(C, << >>, q, last)
         /\ first = << >> => Line(C, q, << >>, last)
<1>1. last # << >> => Line(C, first, q, Tail(last))
  <2> SUFFICES ASSUME last # << >> PROVE Line(C, first, q, Tail(last))
    OBVIOUS
  <2>1. AscIn(C, Tail(last)) /\ Elements(Tail(last)) \subseteq Elements(last)
    BY AscTail, OfTail DEF Line
  <2> QED BY <2>1 DEF Line, Below
<1>2. first # << >> => Line(C, Tail(first), q, last)
  <2> SUFFICES ASSUME first # << >> PROVE Line(C, Tail(first), q, last)
    OBVIOUS
  <2>1. AscIn(C, Tail(first)) /\ Elements(Tail(first)) \subseteq Elements(first)
    BY AscTail, OfTail DEF Line
  <2> QED BY <2>1 DEF Line, Below
<1>3. Line(C, first, q, << >>) /\ Line(C, << >>, q, last)
  BY AscNone DEF Line, Below
<1>4. ASSUME first = << >> PROVE Line(C, q, << >>, last)
  BY <1>4, AscNone DEF Line, Below
<1> QED BY <1>1, <1>2, <1>3, <1>4

(* A drain that failed puts its rest back in front; the newest may fall out. *)
LEMMA LinePutBack ==
  ASSUME NEW C, NEW first \in Seq(Batch), NEW q \in Seq(Batch), NEW last \in Seq(Batch),
         Line(C, first, q, last)
  PROVE  Line(C, << >>, PushedFront(q, first), last)
<1>1. Elements(PushedFront(q, first)) \subseteq Elements(q) \cup Elements(first)
  BY PushedFrontHolds
<1>2. PICK all \in Seq(Batch) : all = first \o q /\ AscIn(C, all)
  BY AscConcat, OfConcat DEF Line
<1>3. AscIn(C, PushedFront(q, first))
  <2>1. PICK n \in 0 .. Len(all) : PushedFront(q, first) = SubSeq(all, 1, n)
    <3>1. PushedFront(q, first)
            = SubSeq(all, 1, IF Len(all) > MaxQueueDepth THEN MaxQueueDepth ELSE Len(all))
      BY <1>2 DEF PushedFront
    <3>2. Len(all) \in Nat /\ MaxQueueDepth \in Nat
      BY PublisherAssumption
    <3>3. CASE Len(all) > MaxQueueDepth
      BY <3>1, <3>2, <3>3
    <3>4. CASE ~ (Len(all) > MaxQueueDepth)
      BY <3>1, <3>2, <3>4
    <3> QED BY <3>3, <3>4
  <2> QED BY <1>2, <2>1, AscPrefix
<1>4. AscIn(C, << >>) /\ Elements(<< >>) = {}
  BY AscNone
<1>5. Below(C, Elements(PushedFront(q, first)), Elements(last))
  BY <1>1 DEF Line, Below
<1> QED BY <1>3, <1>4, <1>5 DEF Line, Below

(* A sender that had nothing builds batches newer than all the others. *)
LEMMA LineBuilt ==
  ASSUME NEW C, NEW first \in Seq(Batch), NEW q \in Seq(Batch), Line(C, first, q, << >>),
         NEW made \in Nat, NEW n \in Nat, Elements(first) \cup Elements(q) \subseteq 1 .. made
  PROVE  Line(C, first, q, [i \in 1 .. n |-> made + i])
<1>1. PICK hand : hand = [i \in 1 .. n |-> made + i]
  OBVIOUS
<1>2. \A x \in Elements(hand) : x \in Nat /\ x > made
  BY <1>1 DEF Elements
<1>3. AscIn(C, hand)
  BY <1>1 DEF AscIn
<1>4. \A x \in Elements(first) \cup Elements(q) : x \in Nat /\ x <= made
  OBVIOUS
<1>5. Below(C, Elements(first), Elements(hand)) /\ Below(C, Elements(q), Elements(hand))
  BY <1>2, <1>4 DEF Below
<1> QED BY <1>1, <1>3, <1>5 DEF Line

LEMMA LineSame ==
  ASSUME NEW C, NEW D, NEW first, NEW q, NEW last, Line(C, first, q, last),
         (Elements(first) \cup Elements(q) \cup Elements(last)) \cap D \subseteq C
  PROVE  Line(D, first, q, last)
<1>1. ASSUME NEW s, AscIn(C, s), Elements(s) \cap D \subseteq C PROVE AscIn(D, s)
  BY <1>1 DEF AscIn, Elements
<1>2. AscIn(D, first) /\ AscIn(D, q) /\ AscIn(D, last)
  BY <1>1 DEF Line
<1>3. /\ Below(D, Elements(first), Elements(q)) /\ Below(D, Elements(first), Elements(last))
      /\ Below(D, Elements(q), Elements(last))
  BY DEF Line, Below
<1> QED BY <1>2, <1>3 DEF Line

-----------------------------------------------------------------------------
Own(t) == {b \in Batch : builder[b] = t}
Alone  == \A g, h \in Heartbeats : draining[g] # << >> /\ draining[h] # << >> => g = h

HandInOrder(t) == AscIn(Batch, sending[t])
InLine(t) == \A h \in Heartbeats : Line(Own(t), draining[h], queue, sending[t])

OrderInv ==
  /\ \A t \in Senders : HandInOrder(t)
  /\ ~overlapped => Alone /\ \A t \in Senders : InLine(t)

LEMMA LineTyped ==
  ASSUME PubInv, NEW t \in Senders, NEW h \in Heartbeats
  PROVE  /\ draining[h] \in Seq(Batch) /\ queue \in Seq(Batch)
         /\ sending[t] \in Seq(Batch) /\ Len(queue) <= MaxQueueDepth
         /\ Elements(draining[h]) \cup Elements(queue) \cup Elements(sending[t])
              \subseteq 1 .. produced
<1>1. /\ t \in Tasks /\ HandOf(t) = sending[t]
      /\ h \in Tasks /\ HandOf(h) = draining[h]
  BY PublisherAssumption DEF Tasks, HandOf
<1>2. Mine(t) \subseteq 1 .. produced /\ Mine(h) \subseteq 1 .. produced
  BY <1>1, HandsTyped
<1> QED BY <1>1, <1>2, PublisherAssumption DEF PubInv, PublisherTypeOK, Mine

(* The chunks of a window go out in order, whatever the link does. *)
LEMMA HandStep ==
  ASSUME PubInv, NEW t \in Senders, HandInOrder(t),
         Ships \/ UNCHANGED pubVars \/ \E s \in Senders, n \in Nat : Send(s, n)
  PROVE  HandInOrder(t)'
<1>1. PICK last \in Seq(Batch) : last = sending[t]
  BY DEF PubInv, PublisherTypeOK
<1>2. AscIn(Batch, << >>) /\ (last # << >> => AscIn(Batch, Tail(last)))
  BY <1>1, AscNone, AscTail DEF HandInOrder
<1>3. CASE Ships \/ UNCHANGED pubVars
  <2>1. \/ sending'[t] = last
        \/ last # << >> /\ sending'[t] = Tail(last)
        \/ sending'[t] = << >>
    <3>1. CASE \E u \in Senders : SendStep(u)
      BY <1>1, <3>1 DEF SendStep, Sent, SendFailed, SendRaised, PubInv, PublisherTypeOK
    <3>2. CASE ~ \E u \in Senders : SendStep(u)
      BY <1>1, <1>3, <3>2 DEF Ships, DrainStep, DrainSent, DrainFailed, DrainRaised, DrainQueue,
         LinkChanges, pubVars
    <3> QED BY <3>1, <3>2
  <2> QED BY <1>1, <1>2, <2>1 DEF HandInOrder
<1>4. ASSUME NEW s \in Senders, NEW n \in Nat, Send(s, n) PROVE HandInOrder(t)'
  <2>1. \/ sending'[t] = last
        \/ sending'[t] = [i \in 1 .. n |-> produced + i]
    BY <1>1, <1>4 DEF Send, PubInv, PublisherTypeOK
  <2>2. produced \in Nat
    BY DEF PubInv, PublisherTypeOK
  <2>3. AscIn(Batch, [i \in 1 .. n |-> produced + i])
    BY <2>2 DEF AscIn
  <2> QED BY <1>1, <2>1, <2>3 DEF HandInOrder
<1> QED BY <1>3, <1>4

(* A publish of a sender leaves a line in line. *)
LEMMA SendInLine ==
  ASSUME PubInv, NEW t \in Senders, NEW s \in Senders, SendStep(s), NEW h \in Heartbeats,
         NEW C, Line(C, draining[h], queue, sending[t]),
         s # t => Elements(sending[s]) \cap C = {}
  PROVE  Line(C, draining'[h], queue', sending'[t])
<1>1. PICK first \in Seq(Batch), q \in Seq(Batch), last \in Seq(Batch) :
        /\ first = draining[h] /\ q = queue /\ last = sending[t]
        /\ Len(q) <= MaxQueueDepth
  BY LineTyped
<1>2. Line(C, first, q, last)
  BY <1>1
<1>3. PublisherTypeOK
  BY DEF PubInv
<1>4. CASE s = t
  <2>1. last # << >> /\ draining' = draining
    BY <1>1, <1>4 DEF SendStep, Sent, SendFailed, SendRaised
  <2>2. sending'[t] = Tail(last) \/ sending'[t] = << >>
    BY <1>1, <1>3, <1>4 DEF SendStep, Sent, SendFailed, SendRaised, PublisherTypeOK
  <2>3. CASE queue' = q
    BY <1>1, <1>2, <2>1, <2>2, <2>3, LineShrinks
  <2>4. CASE queue' # q
    <3>1. queue' = Pushed(q, Head(last)) /\ sending'[t] = Tail(last)
      BY <1>1, <1>3, <1>4, <2>4 DEF SendStep, Sent, SendFailed, SendRaised, Requeue, PublisherTypeOK
    <3> QED BY <1>1, <1>2, <2>1, <3>1, LinePushed
  <2> QED BY <2>3, <2>4
<1>5. CASE s # t
  <2>1. draining' = draining /\ sending'[t] = sending[t] /\ sending[s] # << >>
    BY <1>3, <1>5 DEF SendStep, Sent, SendFailed, SendRaised, PublisherTypeOK
  <2>2. CASE queue' = q
    BY <1>1, <1>2, <2>1, <2>2
  <2>3. CASE queue' # q
    <3>1. PICK b \in Batch : b = Head(sending[s]) /\ b \in Elements(sending[s])
      <4>1. sending[s] \in Seq(Batch)
        BY <1>3 DEF PublisherTypeOK
      <4>2. Head(sending[s]) \in Batch /\ Head(sending[s]) \in Elements(sending[s])
        BY <2>1, <4>1, OfTail
      <4> QED BY <4>2
    <3>2. queue' = Pushed(q, b) /\ b \notin C
      BY <1>1, <1>5, <2>3, <3>1 DEF SendStep, Sent, SendFailed, SendRaised, Requeue
    <3> QED BY <1>1, <1>2, <2>1, <3>1, <3>2, LineOtherPushed
  <2> QED BY <2>2, <2>3
<1> QED BY <1>4, <1>5

(* The step of the heartbeat that drains leaves its line in line. *)
LEMMA DrainInLine ==
  ASSUME PubInv, NEW t \in Senders, NEW h \in Heartbeats, DrainStep(h) \/ DrainQueue(h),
         NEW C, Line(C, draining[h], queue, sending[t])
  PROVE  /\ Line(C, draining'[h], queue', sending'[t])
         /\ \A g \in Heartbeats \ {h} : draining'[g] = draining[g]
<1>1. PICK first \in Seq(Batch), q \in Seq(Batch), last \in Seq(Batch) :
        first = draining[h] /\ q = queue /\ last = sending[t]
  BY LineTyped
<1>2. Line(C, first, q, last)
  BY <1>1
<1>3. PublisherTypeOK
  BY DEF PubInv
<1>4. \A g \in Heartbeats \ {h} : draining'[g] = draining[g]
  BY <1>3 DEF DrainStep, DrainSent, DrainFailed, DrainRaised, DrainQueue, PublisherTypeOK
<1>5. CASE DrainStep(h)
  <2>1. first # << >> /\ sending' = sending
    BY <1>1, <1>5 DEF DrainStep, DrainSent, DrainFailed, DrainRaised
  <2>2. CASE DrainSent(h)
    <3>1. draining'[h] = Tail(first) /\ queue' = q
      BY <1>1, <1>3, <2>2 DEF DrainSent, PublisherTypeOK
    <3> QED BY <1>1, <1>2, <1>4, <2>1, <3>1, LineShrinks
  <2>3. CASE DrainFailed(h)
    <3>1. draining'[h] = << >> /\ queue' = PushedFront(q, first)
      BY <1>1, <1>3, <2>3 DEF DrainFailed, Requeue, PublisherTypeOK
    <3> QED BY <1>1, <1>2, <1>4, <2>1, <3>1, LinePutBack
  <2>4. CASE DrainRaised(h)
    <3>1. draining'[h] = << >> /\ queue' = q
      BY <1>1, <1>3, <2>4 DEF DrainRaised, PublisherTypeOK
    <3> QED BY <1>1, <1>2, <1>4, <2>1, <3>1, LineShrinks
  <2> QED BY <1>5, <2>2, <2>3, <2>4 DEF DrainStep
<1>6. CASE DrainQueue(h)
  <2>1. /\ first = << >> /\ draining'[h] = q /\ queue' = << >> /\ sending' = sending
    BY <1>1, <1>3, <1>6 DEF DrainQueue, PublisherTypeOK
  <2> QED BY <1>1, <1>2, <1>4, <2>1, LineShrinks
<1> QED BY <1>5, <1>6

(* As long as drains do not come to overlap, all the lines stay in line:   *)
(* what stands in the way of a heartbeat with nothing in hand is what the  *)
(* one that drains leaves in the queue.                                    *)
LEMMA ShipsInLine ==
  ASSUME ShipInv, Alone, Ships, Alone', NEW t \in Senders, InLine(t), NEW h \in Heartbeats
  PROVE  Line(Own(t), draining'[h], queue', sending'[t])
<1>0. PubInv /\ PublisherTypeOK /\ Line(Own(t), draining[h], queue, sending[t])
  BY DEF ShipInv, PubInv, InLine
<1>1. ASSUME NEW s \in Senders, SendStep(s)
      PROVE  Line(Own(t), draining'[h], queue', sending'[t])
  <2>1. s # t => Elements(sending[s]) \cap Own(t) = {}
    BY DEF ShipInv, ByTheirOwn, Own
  <2> QED BY <1>0, <1>1, <2>1, SendInLine
<1>2. ASSUME NEW g \in Heartbeats, DrainStep(g) \/ DrainQueue(g)
      PROVE  Line(Own(t), draining'[h], queue', sending'[t])
  <2>1. Line(Own(t), draining[g], queue, sending[t])
    BY DEF InLine
  <2>2. /\ Line(Own(t), draining'[g], queue', sending'[t])
        /\ \A x \in Heartbeats \ {g} : draining'[x] = draining[x]
    BY <1>0, <1>2, <2>1, DrainInLine
  <2>3. CASE h = g
    BY <2>2, <2>3
  <2>4. CASE h # g
    <3>1. draining'[h] = draining[h]
      BY <2>2, <2>4
    <3>2. CASE draining[h] = << >>
      BY <2>2, <3>1, <3>2, AscNone DEF Line, Below
    <3>3. CASE draining[h] # << >>
      <4>1. draining[g] = << >> /\ draining'[g] = << >>
        BY <2>4, <3>1, <3>3 DEF Alone
      <4>2. DrainQueue(g) /\ queue # << >>
        BY <1>2, <4>1 DEF DrainStep, DrainSent, DrainFailed, DrainRaised, DrainQueue
      <4>3. draining'[g] = queue
        BY <1>0, <4>2 DEF DrainQueue, PublisherTypeOK
      <4> QED BY <4>1, <4>2, <4>3
    <3> QED BY <3>2, <3>3
  <2> QED BY <2>3, <2>4
<1>3. CASE LinkChanges
  BY <1>0, <1>3 DEF LinkChanges
<1> QED BY <1>1, <1>2, <1>3 DEF Ships

(* New batches are newer than all that is held. *)
LEMMA BuildInLine ==
  ASSUME ShipInv, NEW s \in Senders, NEW n \in Nat, NEW rows, Build(s, n, rows), NEW t \in Senders,
         InLine(t), NEW h \in Heartbeats
  PROVE  Line(Own(t)', draining'[h], queue', sending'[t])
<1>0. PubInv /\ Send(s, n) /\ Line(Own(t), draining[h], queue, sending[t])
  BY DEF ShipInv, Build, InLine
<1>1. PICK first \in Seq(Batch), q \in Seq(Batch), last \in Seq(Batch) :
        /\ first = draining[h] /\ q = queue /\ last = sending[t]
        /\ Elements(first) \cup Elements(q) \cup Elements(last) \subseteq 1 .. produced
  BY <1>0, LineTyped
<1>2. PICK C, D : C = Own(t) /\ D = Own(t)'
  OBVIOUS
<1>3. D \cap 1 .. produced \subseteq C
  <2>1. \A b \in Batch \cap 1 .. produced : builder'[b] = builder[b]
    BY <1>0 DEF Build, PubInv, PublisherTypeOK
  <2> QED BY <1>2, <2>1 DEF Own
<1>4. Line(D, first, q, last)
  BY <1>0, <1>1, <1>2, <1>3, LineSame
<1>5. draining' = draining /\ queue' = queue /\ produced \in Nat
  BY <1>0 DEF Send, PubInv, PublisherTypeOK
<1>6. CASE s = t
  <2>1. last = << >> /\ sending'[t] = [i \in 1 .. n |-> produced + i]
    BY <1>0, <1>1, <1>6 DEF Send, PubInv, PublisherTypeOK
  <2>2. PICK made \in Nat : made = produced
    BY <1>5
  <2>3. Line(D, first, q, << >>) /\ Elements(first) \cup Elements(q) \subseteq 1 .. made
    BY <1>1, <1>4, <2>1, <2>2
  <2>4. Line(D, first, q, [i \in 1 .. n |-> made + i])
    BY <2>3, LineBuilt
  <2> QED BY <1>1, <1>2, <1>5, <2>1, <2>2, <2>4
<1>7. CASE s # t
  <2>1. sending'[t] = last
    BY <1>0, <1>1, <1>7 DEF Send, PubInv, PublisherTypeOK
  <2> QED BY <1>1, <1>2, <1>4, <1>5, <2>1
<1> QED BY <1>6, <1>7

(* Where a step stands with the publisher and the builders. *)
LEMMA StepOfShipping ==
  ASSUME [ShippingNext]_shippingVars
  PROVE  \/ \E s \in Senders, n \in Nat : \E rows : Build(s, n, rows)
         \/ Ships /\ builder' = builder
         \/ UNCHANGED <<pubVars, builder>>
<1>1. ASSUME NEW n \in 1 .. MaxChunks, NEW rows, Flush(n, rows) \/ \E s \in Senders : Replay(s, n, rows)
      PROVE  \E s \in Senders, k \in Nat : \E r : Build(s, k, r)
  <2>1. n \in Nat /\ \E s \in Senders : Build(s, n, rows)
    BY <1>1, PublisherAssumption DEF Flush, Replay
  <2> QED BY <2>1
<1>2. ASSUME Publishing PROVE Ships /\ builder' = builder
  BY <1>2, PublishingShips
<1>3. ASSUME NEW msg \in Messages, GateMoves(msg) PROVE UNCHANGED <<pubVars, builder>>
  BY <1>3 DEF GateMoves
<1>4. (UNCHANGED shippingVars) => UNCHANGED <<pubVars, builder>>
  BY DEF shippingVars
<1> QED BY <1>1, <1>2, <1>3, <1>4 DEF ShippingNext, ShippingStep

LEMMA NextOrder ==
  ASSUME ShipInv, ShipInv', OrderInv, [ShippingNext]_shippingVars
  PROVE  OrderInv'
<1>0. PubInv /\ PubInv'
  BY DEF ShipInv
<1>1. \/ \E s \in Senders, n \in Nat : \E rows : Build(s, n, rows)
      \/ Ships /\ builder' = builder
      \/ UNCHANGED <<pubVars, builder>>
  BY StepOfShipping
<1>2. ASSUME NEW t \in Senders PROVE HandInOrder(t)'
  <2>1. Ships \/ UNCHANGED pubVars \/ \E s \in Senders, n \in Nat : Send(s, n)
    BY <1>1 DEF Build
  <2> QED BY <1>0, <2>1, HandStep DEF OrderInv
<1>3. ASSUME ~overlapped' PROVE Alone' /\ \A t \in Senders : InLine(t)'
  <2>1. Alone'
    <3>1. CASE UNCHANGED shippingVars
      BY <1>3, <3>1 DEF shippingVars, pubVars, OrderInv, Alone
    <3>2. CASE ~Overlap'
      BY <3>2 DEF Overlap, Alone
    <3> QED BY <1>3, <3>1, <3>2 DEF ShippingNext
  <2>2. CASE ~overlapped
    <3>1. Alone /\ \A t \in Senders : InLine(t)
      BY <2>2 DEF OrderInv
    <3>2. ASSUME NEW t \in Senders, NEW h \in Heartbeats
          PROVE  Line(Own(t)', draining'[h], queue', sending'[t])
      <4>1. CASE \E s \in Senders, n \in Nat : \E rows : Build(s, n, rows)
        BY <3>1, <4>1, BuildInLine
      <4>2. CASE Ships /\ builder' = builder
        <5>1. Own(t)' = Own(t)
          BY <4>2 DEF Own
        <5> QED BY <2>1, <3>1, <4>2, <5>1, ShipsInLine
      <4>3. CASE UNCHANGED <<pubVars, builder>>
        BY <3>1, <4>3 DEF pubVars, Own, InLine
      <4> QED BY <1>1, <4>1, <4>2, <4>3
    <3> QED BY <2>1, <3>2 DEF InLine
  <2>3. CASE overlapped
    <3>1. ~Backlog'
      <4>1. ~ UNCHANGED shippingVars
        BY <1>3, <2>3 DEF shippingVars
      <4> QED BY <1>3, <2>3, <4>1 DEF ShippingNext
    <3>2. queue' = << >> /\ \A h \in Heartbeats : draining'[h] = << >>
      BY <3>1 DEF Backlog
    <3>3. \A t \in Senders : AscIn(Own(t)', sending'[t])
      BY <1>2 DEF HandInOrder, AscIn, Own
    <3>4. ASSUME NEW t \in Senders, NEW h \in Heartbeats
          PROVE  Line(Own(t)', draining'[h], queue', sending'[t])
      BY <3>2, <3>3, AscNone DEF Line, Below
    <3> QED BY <2>1, <3>4 DEF InLine
  <2> QED BY <2>2, <2>3
<1> QED BY <1>2, <1>3 DEF OrderInv

LEMMA InitOrder ==
  ASSUME ShippingInit
  PROVE  OrderInv
<1>1. \A C : Line(C, << >>, << >>, << >>) /\ AscIn(C, << >>)
  BY AscNone DEF Line, Below
<1>2. /\ queue = << >> /\ \A h \in Heartbeats : draining[h] = << >>
      /\ \A t \in Senders : sending[t] = << >>
  BY DEF ShippingInit, PublisherInit
<1> QED BY <1>1, <1>2 DEF OrderInv, Alone, InLine, HandInOrder

-----------------------------------------------------------------------------
(* Gate, publisher and cloud keep their types, and the queue its bound. *)
THEOREM ShippingTypeCorrect == ShippingSpec => []ShippingTypeOK
<1> QED BY ShippingHolds, ShipSays, PTL

(* "NO telemetry batches leave HA before the user confirms"                *)
(* (coordinator.py:1117): what a flush built and the broker ever gets, be   *)
(* it sent late, from the queue, in a mode that is suppressed by then, was  *)
(* let through by an active gate, entity by entity.                        *)
THEOREM OnlyConfirmed == ShippingSpec => []OnlyConfirmedLeaves
<1> QED BY ShippingHolds, ShipSays, PTL

(* No batch vanishes (publisher.py:80-193): it is held, it arrived, or it   *)
(* was dropped by the bound of the queue or by an exception.               *)
THEOREM AllAccounted == ShippingSpec => []Accounted
<1> QED BY ShippingHolds, ShipSays, PTL

(* Each of any number of senders keeps its order in the queue, however     *)
(* many heartbeats drain it, through failed drains and overflow, until two *)
(* drains overlap; and again once that backlog is gone                     *)
(* (publisher.py:80, 177-193).                                             *)
THEOREM QueueKeepsOrder == ShippingSpec => []QueueAscends
<1>1. ShippingInit => OrderInv
  BY InitOrder
<1>2. ShipInv /\ ShipInv' /\ OrderInv /\ [ShippingNext]_shippingVars => OrderInv'
  BY NextOrder
<1>3. ShipInv /\ OrderInv => QueueAscends
  <2> SUFFICES ASSUME ShipInv, OrderInv, ~overlapped, NEW i \in DOMAIN queue, NEW j \in DOMAIN queue,
                      i < j, builder[queue[i]] = builder[queue[j]]
               PROVE  queue[i] < queue[j]
    BY DEF QueueAscends
  <2>1. queue[i] \in Batch /\ queue[j] \in Batch
    BY DEF ShipInv, PubInv, PublisherTypeOK
  <2>2. PICK t \in Senders : t = builder[queue[i]]
    BY <2>1 DEF ShipInv, ShipTypes
  <2>3. AscIn(Own(t), queue)
    BY PublisherAssumption DEF OrderInv, InLine, Line
  <2> QED BY <2>1, <2>2, <2>3 DEF AscIn, Own
<1> QED BY <1>1, <1>2, <1>3, ShippingHolds, PTL DEF ShippingSpec
=============================================================================
