--------------------------- MODULE CoordinatorProofs ---------------------------
(***************************************************************************)
(* What holds of Coordinator and CoordinatorCloud for any set of entities, *)
(* send policy, bound and, but for one theorem, clock: the type invariants,*)
(* that a sealed minute is shipped at most once, that the rows of an       *)
(* entity leave in the order of minutes, and that once at rest the cloud   *)
(* shows what Home Assistant does, or holds a value near enough to it.     *)
(***************************************************************************)
EXTENDS CoordinatorCloud, FiniteSetTheorems, WellFoundedInduction, TLAPS

(* A non-empty set of naturals has a least element: the order on Nat is    *)
(* well founded, so no induction over numbers has to be set up below.      *)
LEMMA LeastNatural ==
  ASSUME NEW T, T \subseteq Nat, T # {}
  PROVE  \E x \in T : \A y \in T : x <= y
<1> DEFINE R == OpToRel(<, Nat)
<1>1. IsWellFoundedOn(R, Nat)
  BY NatLessThanWellFounded
<1>2. \E x \in T : \A y \in T : ~ (<<y, x>> \in R)
  <2> HIDE DEF R
  <2> QED BY <1>1, WFMin
<1>3. PICK x \in T : \A y \in T : ~ (<<y, x>> \in R)
  BY <1>2
<1>4. ASSUME NEW y \in T, y < x PROVE <<y, x>> \in R
  BY <1>4 DEF OpToRel
<1> HIDE DEF R
<1>5. ASSUME NEW y \in T PROVE ~(y < x)
  BY <1>3, <1>4
<1>6. \A y \in T : y \in Nat /\ x \in Nat
  OBVIOUS
<1> QED BY <1>5, <1>6

(* Max is defined on every non-empty set of minutes: what the high-water   *)
(* mark and the baseline of the gate rest on (coordinator.py:770, :786).   *)
LEMMA MaxOfMinutes ==
  ASSUME NEW S, S \subseteq Minute \cup {Never}, S # {}
  PROVE  Max(S) \in S /\ \A y \in S : y <= Max(S)
<1>1. \E x \in S : \A y \in S : y <= x
  <2> DEFINE T == {n \in Nat : \E s \in S : n = MaxMinute - s}
  <2>0. \A s \in S : s \in Int /\ MaxMinute - s \in Nat
    BY CoordinatorAssumption, SMT DEF Minute, Never
  <2>1. T \subseteq Nat /\ T # {}
    BY <2>0
  <2>2. PICK t \in T : \A u \in T : t <= u
    <3> HIDE DEF T
    <3> QED BY <2>1, LeastNatural
  <2>3. PICK x \in S : t = MaxMinute - x
    OBVIOUS
  <2>4. ASSUME NEW y \in S PROVE y <= x
    <3>1. MaxMinute - y \in T
      BY <2>0
    <3>2. MaxMinute - x <= MaxMinute - y
      BY <3>1, <2>2, <2>3
    <3> QED BY <3>2, <2>0, CoordinatorAssumption
  <2> QED BY <2>4
<1>2. \A y \in S : y \in Int
  BY CoordinatorAssumption, SMT DEF Minute, Never
<1>3. \E x \in S : \A y \in S : x >= y
  BY <1>1, <1>2
<1> QED BY <1>2, <1>3 DEF Max

-----------------------------------------------------------------------------
(***************************************************************************)
(* The pieces of a drain.                                                  *)
(***************************************************************************)
(* The row value of a minute that has samples is a state. *)
LEMMA FinaliseState ==
  ASSUME NEW a \in Accumulator, a.count > 0
  PROVE  Finalise(a) \in State
<1>1. a.sum \in Int /\ a.count \in Nat \ {0}
  BY DEF Accumulator
<1>2. a.sum \div a.count \in Int
  BY <1>1
<1>3. a.passthrough \in State
  BY DEF Accumulator
<1> QED BY <1>2, <1>3 DEF Finalise, Num, State

(* What the gate compares with is a state the coordinator may remember. *)
LEMMA BaselineState ==
  ASSUME TypeOK, NEW e \in Entity, NEW em, em \subseteq Open(e)
  PROVE  Baseline(e, em) \in State \cup {NoState}
<1> DEFINE numeric == {m \in em : acc[e][m].numeric}
<1>1. CASE numeric = {}
  BY <1>1 DEF Baseline, TypeOK
<1>2. CASE numeric # {}
  <2>1. numeric \subseteq Minute
    BY DEF Open
  <2>2. Max(numeric) \in numeric
    <3> HIDE DEF numeric
    <3> QED BY <1>2, <2>1, MaxOfMinutes
  <2>3. Max(numeric) \in Open(e)
    BY <2>2
  <2>4. acc[e][Max(numeric)] \in Accumulator /\ acc[e][Max(numeric)].count > 0
    BY <2>3 DEF TypeOK, Open
  <2>5. Finalise(acc[e][Max(numeric)]) \in State
    BY <2>4, FinaliseState
  <2> QED BY <1>2, <2>5 DEF Baseline
<1> QED BY <1>1, <1>2

(* Every minute row of a drain is the row of a minute it seals. *)
LEMMA MinuteRowsOfSealed ==
  ASSUME TypeOK, NEW emitted, \A e \in Entity : emitted[e] \subseteq Sealed(e),
         NEW r \in MinuteRows(emitted)
  PROVE  /\ r \in Row
         /\ r.ts \in Sealed(r.entity)
         /\ r = MinuteRow(r.entity, r.ts)
<1>1. PICK e \in Entity, m \in Minute :
         m \in Capped(emitted[e]) /\ r = MinuteRow(e, m)
  BY DEF MinuteRows
<1>2. m \in Sealed(e)
  BY <1>1 DEF Capped
<1>3. acc[e][m] \in Accumulator /\ acc[e][m].count > 0
  BY <1>2 DEF TypeOK, Sealed, Open
<1>4. Finalise(acc[e][m]) \in State
  BY <1>3, FinaliseState
<1>5. r.entity = e /\ r.ts = m
  BY <1>1 DEF MinuteRow
<1>6. r \in Row
  BY <1>1, <1>4 DEF MinuteRow, Row
<1> QED BY <1>1, <1>2, <1>5, <1>6

(* A batch holds at most one minute row for an entity and a minute, and    *)
(* none unless the drain seals that minute.                                *)
LEMMA OneRowPerMinute ==
  ASSUME TypeOK, NEW emitted, \A x \in Entity : emitted[x] \subseteq Sealed(x),
         NEW e \in Entity, NEW m \in Minute
  PROVE  LET R == {r \in Admitted(MinuteRows(emitted)) : r.entity = e /\ r.ts = m}
         IN  /\ Cardinality(R) \in {0, 1}
             /\ m \notin Sealed(e) => Cardinality(R) = 0
<1> DEFINE R == {r \in Admitted(MinuteRows(emitted)) : r.entity = e /\ r.ts = m}
<1>1. \A r \in R : r = MinuteRow(e, m) /\ m \in Sealed(e)
  BY MinuteRowsOfSealed DEF Admitted
<1>2. R = {} \/ R = {MinuteRow(e, m)}
  <2> HIDE DEF R
  <2> QED BY <1>1
<1>3. Cardinality({}) = 0 /\ Cardinality({MinuteRow(e, m)}) = 1
  BY FS_EmptySet, FS_Singleton
<1>4. m \notin Sealed(e) => R = {}
  BY <1>1
<1> HIDE DEF R
<1>5. Cardinality(R) \in {0, 1} /\ (m \notin Sealed(e) => Cardinality(R) = 0)
  BY <1>2, <1>3, <1>4
<1> QED BY <1>5 DEF R

(* Whatever a drain produces is a set of rows. *)
LEMMA DrainedRows ==
  ASSUME TypeOK, NEW emitted, \A e \in Entity : emitted[e] \subseteq Sealed(e)
  PROVE  Admitted(Drained(emitted)) \subseteq Row
<1>1. MinuteRows(emitted) \subseteq Row
  BY MinuteRowsOfSealed
<1>2. {pending[i] : i \in DOMAIN pending} \subseteq Row
  BY DEF TypeOK
<1>3. Drained(emitted) \subseteq Row
  BY <1>1, <1>2 DEF Drained
<1> QED BY <1>3 DEF Admitted

-----------------------------------------------------------------------------
(***************************************************************************)
(* Type correctness.                                                       *)
(***************************************************************************)
LEMMA InitType == Init => TypeOK
<1> SUFFICES ASSUME Init PROVE TypeOK
  OBVIOUS
<1>1. NoSamples \in Accumulator
  BY DEF NoSamples, Accumulator, Num, State
<1>2. NoMinutes \in [Minute -> Accumulator]
  BY <1>1 DEF NoMinutes
<1>3. 1 \in Minute /\ 0 \in Minute
  BY CoordinatorAssumption DEF Minute
<1>4. ha \in [Entity -> [state : State, attr : Attr, since : Minute]]
  BY <1>3, CoordinatorAssumption DEF Init
<1>5. GateTypeOK
  BY DEF Init, GateInit, GateTypeOK, DefaultMode, ValidModes
<1> QED
  BY <1>2, <1>3, <1>4, <1>5, CoordinatorAssumption DEF Init, Fresh, TypeOK

(* The transition row queued by a capture, and what it leaves remembered. *)
LEMMA EmitTransitionType ==
  ASSUME TypeOK, NEW e \in Entity, NEW s \in State, NEW a \in Attr, NEW m \in Minute,
         EmitTransition(e, s, a, m)
  PROVE  pending' \in Seq(Row) /\ lastEmitted' \in [Entity -> State \cup {NoState}]
<1>1. Len(pending) + 1 \in Nat
  BY DEF TypeOK
<1>2. [entity |-> e, ts |-> m, state |-> s, attr |-> a, order |-> Len(pending) + 1] \in Row
  BY <1>1 DEF Row
<1> QED BY <1>2 DEF EmitTransition, TypeOK

LEMMA FoldType ==
  ASSUME NEW a \in Accumulator, NEW s \in State
  PROVE  Fold(a, s) \in Accumulator
<1>1. s.val \in Int
  BY DEF State
<1>2. a.count + 1 \in Nat /\ a.sum + s.val \in Int
  BY <1>1 DEF Accumulator
<1> QED BY <1>2 DEF Fold, Accumulator

LEMMA CaptureType ==
  ASSUME TypeOK, NEW e \in Entity, NEW s \in StatesOf[e], NEW a \in Attr,
         NEW m \in {now, ha[e].since}, StateChanged(e, s, a, m)
  PROVE  TypeOK'
<1>1. s \in State /\ m \in Minute
  BY CoordinatorAssumption DEF TypeOK
<1>2. ha' \in [Entity -> [state : State, attr : Attr, since : Minute]]
  BY <1>1 DEF StateChanged, Reports, TypeOK
<1>3. NoMinutes \in [Minute -> Accumulator]
  BY DEF NoMinutes, NoSamples, Accumulator, Num, State
<1>4. /\ acc' \in [Entity -> [Minute -> Accumulator]]
      /\ lastEmitted' \in [Entity -> State \cup {NoState}]
      /\ lastFault' \in [Entity -> Attr \cup {NoAttr}]
      /\ pending' \in Seq(Row)
  <2>1. CASE DropLate(e, m)
    BY <2>1 DEF DropLate, captureVars, TypeOK
  <2>2. CASE CaptureOutage(e, s, a, m)
    <3>1. CASE UNCHANGED captureVars
      BY <3>1 DEF captureVars, TypeOK
    <3>2. CASE EmitTransition(e, s, a, m) /\ acc' = [acc EXCEPT ![e] = NoMinutes]
                 /\ UNCHANGED lastFault
      BY <3>2, <1>1, <1>3, EmitTransitionType DEF TypeOK
    <3> QED BY <2>2, <3>1, <3>2 DEF CaptureOutage
  <2>3. CASE CaptureTransition(e, s, a, m)
    <3>1. CASE UNCHANGED captureVars
      BY <3>1 DEF captureVars, TypeOK
    <3>2. CASE /\ EmitTransition(e, s, a, m)
               /\ lastFault' = IF Bucket[e] = "fault"
                               THEN [lastFault EXCEPT ![e] = a] ELSE lastFault
               /\ UNCHANGED acc
      BY <3>2, <1>1, EmitTransitionType DEF TypeOK
    <3> QED BY <2>3, <3>1, <3>2 DEF CaptureTransition
  <2>4. CASE CaptureSample(e, s, m)
    <3>1. Fold(acc[e][m], s) \in Accumulator
      BY <1>1, FoldType DEF TypeOK
    <3> QED BY <2>4, <3>1, <1>1 DEF CaptureSample, TypeOK
  <2> QED BY <2>1, <2>2, <2>3, <2>4 DEF StateChanged
<1> QED
  BY <1>2, <1>4 DEF StateChanged, lifeVars, gateVars, TypeOK, GateTypeOK

LEMMA FlushType ==
  ASSUME TypeOK, NEW emitted, BeginFlush(emitted)
  PROVE  TypeOK'
<1>1. \A e \in Entity : emitted[e] \subseteq Sealed(e) /\ emitted[e] \subseteq Open(e)
  BY DEF BeginFlush, Gated, Sealed
<1>2. outgoing' \in SUBSET Row
  BY <1>1, DrainedRows DEF BeginFlush
<1>3. lastFinal' \in [Entity -> Minute \cup {Never}]
  <2> SUFFICES ASSUME NEW e \in Entity
               PROVE  Max(Sealed(e) \cup {lastFinal[e]}) \in Minute \cup {Never}
    BY DEF BeginFlush
  <2> DEFINE S == Sealed(e) \cup {lastFinal[e]}
  <2>1. S \subseteq Minute \cup {Never} /\ S # {}
    BY DEF TypeOK, Sealed, Open
  <2> HIDE DEF S
  <2>2. Max(S) \in S
    BY <2>1, MaxOfMinutes
  <2> QED BY <2>1, <2>2 DEF S
<1>4. lastEmitted' \in [Entity -> State \cup {NoState}]
  BY <1>1, BaselineState DEF BeginFlush
<1>5. acc' \in [Entity -> [Minute -> Accumulator]]
  <2>1. NoSamples \in Accumulator
    BY DEF NoSamples, Accumulator, Num, State
  <2> QED BY <2>1 DEF BeginFlush, TypeOK
<1>6. handed' \in [Entity -> [Minute -> Nat]]
  <2> SUFFICES ASSUME NEW e \in Entity, NEW m \in Minute
               PROVE  handed[e][m] + Cardinality({r \in Admitted(MinuteRows(emitted)) :
                                                    r.entity = e /\ r.ts = m}) \in Nat
    BY DEF BeginFlush
  <2>1. handed[e][m] \in Nat
    BY DEF TypeOK
  <2> QED BY <1>1, <2>1, OneRowPerMinute
<1>7. pending' \in Seq(Row)
  BY DEF BeginFlush
<1> QED
  BY <1>2, <1>3, <1>4, <1>5, <1>6, <1>7 DEF BeginFlush, TypeOK, gateVars, GateTypeOK

LEMMA GateType ==
  ASSUME TypeOK, ChangeGate
  PROVE  TypeOK'
<1>1. PICK msg \in Message : SetShippingMode(msg) \/ ReconcileFromStatus(msg)
  BY CoordinatorAssumption DEF ChangeGate
<1>2. GateTypeOK'
  <2>1. shippingMode' \in ValidModes
    BY <1>1 DEF SetShippingMode, ReconcileFromStatus, TypeOK, GateTypeOK
  <2>2. TakeList(msg)
    BY <1>1 DEF SetShippingMode, ReconcileFromStatus
  <2>3. whitelist' \in SUBSET Entity /\ whitelistVersion' \in Nat \cup {-1}
    BY <2>2 DEF TakeList, SetWhitelist, TypeOK, GateTypeOK, Message
  <2> QED BY <2>1, <2>3 DEF GateTypeOK
<1> QED
  BY <1>2 DEF ChangeGate, captureVars, lifeVars, TypeOK

LEMMA StopType ==
  ASSUME TypeOK, Stop
  PROVE  TypeOK'
<1>1. NoMinutes \in [Minute -> Accumulator]
  BY DEF NoMinutes, NoSamples, Accumulator, Num, State
<1>2. GateTypeOK'
  BY DEF Stop, GateTypeOK, DefaultMode, ValidModes
<1>3. reloads' \in 0 .. MaxReloads
  BY CoordinatorAssumption DEF Stop, TypeOK
<1>4. running' \in BOOLEAN
  BY DEF Stop
<1>5. /\ now' \in Minute
      /\ ha' \in [Entity -> [state : State, attr : Attr, since : Minute]]
  BY DEF Stop, TypeOK
<1>6. /\ acc' \in [Entity -> [Minute -> Accumulator]]
      /\ lastFinal' \in [Entity -> Minute \cup {Never}]
      /\ lastEmitted' \in [Entity -> State \cup {NoState}]
      /\ lastFault' \in [Entity -> Attr \cup {NoAttr}]
      /\ pending' \in Seq(Row) /\ coldStart' \in BOOLEAN /\ outgoing' \in SUBSET Row
      /\ handed' \in [Entity -> [Minute -> Nat]]
  BY <1>1 DEF Stop
<1> QED
  BY <1>2, <1>3, <1>4, <1>5, <1>6 DEF TypeOK

(* While no coordinator runs, Home Assistant's states go on changing. *)
LEMMA UnheardType ==
  ASSUME TypeOK, NEW e \in Entity, NEW s \in StatesOf[e], NEW a \in Attr,
         NEW m \in {now, ha[e].since}, Unheard(e, s, a, m)
  PROVE  TypeOK'
<1>1. s \in State /\ m \in Minute
  BY CoordinatorAssumption DEF TypeOK
<1>2. ha' \in [Entity -> [state : State, attr : Attr, since : Minute]]
  BY <1>1 DEF Unheard, Reports, TypeOK
<1> QED
  BY <1>2 DEF Unheard, captureVars, lifeVars, gateVars, TypeOK, GateTypeOK

LEMMA OtherType ==
  ASSUME TypeOK,
         (\E chunk \in SUBSET outgoing : ChunkDone(chunk)) \/ FlushAborted \/ Start \/ Tick
  PROVE  TypeOK'
<1>1. CASE \E chunk \in SUBSET outgoing : ChunkDone(chunk)
  BY <1>1 DEF ChunkDone, captureVars, lifeVars, gateVars, TypeOK, GateTypeOK
<1>2. CASE FlushAborted
  BY <1>2 DEF FlushAborted, captureVars, lifeVars, gateVars, TypeOK, GateTypeOK
<1>3. CASE Start
  BY <1>3 DEF Start, captureVars, gateVars, TypeOK, GateTypeOK
<1>4. CASE Tick
  <2>1. now' \in Minute
    BY <1>4, CoordinatorAssumption DEF Tick, TypeOK, Minute
  <2> QED
    BY <1>4, <2>1 DEF Tick, captureVars, lifeVars, gateVars, TypeOK, GateTypeOK
<1> QED BY <1>1, <1>2, <1>3, <1>4

LEMMA NextType == TypeOK /\ [Next]_vars => TypeOK'
<1> SUFFICES ASSUME TypeOK, [Next]_vars PROVE TypeOK'
  OBVIOUS
<1>1. CASE UNCHANGED vars
  BY <1>1 DEF vars, gateVars, TypeOK, GateTypeOK
<1>2. CASE Next
  BY <1>2, CaptureType, UnheardType, FlushType, GateType, StopType, OtherType DEF Next
<1> QED BY <1>1, <1>2

(* Every variable keeps its type, for any instance and any clock. *)
THEOREM TypeCorrect == Spec => []TypeOK
<1> QED BY InitType, NextType, PTL DEF Spec

-----------------------------------------------------------------------------
(***************************************************************************)
(* Sealing.  The late guard and the high-water mark carry the argument:    *)
(* NoDoubleShip alone is not inductive, since it says nothing of a minute  *)
(* that collects again after its row left.  OpenIsNotFinal and             *)
(* HandedIsFinal exclude that.                                             *)
(***************************************************************************)
SealInv == TypeOK /\ OpenIsNotFinal /\ HandedIsFinal /\ NoDoubleShip

LEMMA InitSeal == Init => SealInv
<1> SUFFICES ASSUME Init PROVE SealInv
  OBVIOUS
<1>1. TypeOK
  BY InitType
<1>2. \A e \in Entity : Open(e) = {}
  <2> SUFFICES ASSUME NEW e \in Entity, NEW m \in Minute
               PROVE  ~(acc[e][m].count > 0)
    BY DEF Open
  <2>1. acc[e][m] = NoSamples
    BY DEF Init, Fresh, NoMinutes
  <2> QED BY <2>1 DEF NoSamples
<1>3. \A e \in Entity, m \in Minute : handed[e][m] = 0
  BY DEF Init, Fresh
<1> QED
  BY <1>1, <1>2, <1>3 DEF SealInv, OpenIsNotFinal, HandedIsFinal, NoDoubleShip

(* An event opens a minute only past the late guard. *)
LEMMA CaptureSeal ==
  ASSUME SealInv, NEW e \in Entity, NEW s \in StatesOf[e], NEW a \in Attr,
         NEW m \in {now, ha[e].since}, StateChanged(e, s, a, m)
  PROVE  SealInv'
<1> USE DEF SealInv
<1>1. TypeOK'
  BY CaptureType
<1>2. UNCHANGED <<lastFinal, handed>>
  BY DEF StateChanged, lifeVars
<1>3. m \in Minute
  BY DEF TypeOK
<1>4. ASSUME NEW x \in Entity, NEW n \in Open(x)'
      PROVE  n \in Open(x) \/ (x = e /\ n = m /\ ~TooLate(e, m))
  <2>0. n \in Minute /\ acc'[x][n].count > 0
    BY <1>4 DEF Open
  <2>1. CASE UNCHANGED acc
    BY <2>0, <2>1 DEF Open
  <2>2. CASE CaptureOutage(e, s, a, m) /\ acc' = [acc EXCEPT ![e] = NoMinutes]
    <3>1. CASE x = e
      BY <2>0, <2>2, <3>1 DEF TypeOK, NoMinutes, NoSamples
    <3>2. CASE x # e
      BY <2>0, <2>2, <3>2 DEF TypeOK, Open
    <3> QED BY <3>1, <3>2
  <2>3. CASE CaptureSample(e, s, m)
    <3>1. CASE x = e /\ n = m
      BY <2>3, <3>1 DEF CaptureSample
    <3>2. CASE ~(x = e /\ n = m)
      BY <2>0, <2>3, <3>2, <1>3 DEF CaptureSample, TypeOK, Open
    <3> QED BY <3>1, <3>2
  <2> QED
    BY <2>1, <2>2, <2>3
    DEF StateChanged, DropLate, CaptureOutage, CaptureTransition, captureVars
<1>5. OpenIsNotFinal'
  <2> SUFFICES ASSUME NEW x \in Entity, NEW n \in Open(x)'
               PROVE  n > lastFinal[x]
    BY <1>2 DEF OpenIsNotFinal
  <2>1. CASE n \in Open(x)
    BY <2>1 DEF OpenIsNotFinal
  <2>2. CASE x = e /\ n = m /\ ~TooLate(e, m)
    <3>1. lastFinal[e] \in Int /\ m \in Int
      BY <1>3, CoordinatorAssumption DEF TypeOK, Minute, Never
    <3> QED BY <2>2, <3>1 DEF TooLate
  <2> QED BY <1>4, <2>1, <2>2
<1> QED
  BY <1>1, <1>2, <1>5 DEF HandedIsFinal, NoDoubleShip

(* What a flush does to one entity: its mark passes every minute it seals, *)
(* and only sealed minutes get a row, at most one.                         *)
LEMMA FlushOfEntity ==
  ASSUME SealInv, NEW emitted, BeginFlush(emitted), NEW e \in Entity
  PROVE  /\ lastFinal'[e] \in Sealed(e) \cup {lastFinal[e]}
         /\ \A m \in Sealed(e) : m <= lastFinal'[e]
         /\ lastFinal[e] <= lastFinal'[e]
         /\ \A m \in Minute : /\ handed'[e][m] - handed[e][m] \in {0, 1}
                              /\ m \notin Sealed(e) => handed'[e][m] = handed[e][m]
<1> USE DEF SealInv
<1> DEFINE S == Sealed(e) \cup {lastFinal[e]}
<1>1. S \subseteq Minute \cup {Never} /\ S # {}
  BY DEF TypeOK, Sealed, Open
<1>2. lastFinal'[e] = Max(S)
  BY DEF BeginFlush
<1>3. Max(S) \in S /\ \A y \in S : y <= Max(S)
  <2> HIDE DEF S
  <2> QED BY <1>1, MaxOfMinutes
<1>4. \A x \in Entity : emitted[x] \subseteq Sealed(x)
  BY DEF BeginFlush, Gated
<1>5. ASSUME NEW m \in Minute
      PROVE  /\ handed'[e][m] - handed[e][m] \in {0, 1}
             /\ m \notin Sealed(e) => handed'[e][m] = handed[e][m]
  <2> DEFINE R == {r \in Admitted(MinuteRows(emitted)) : r.entity = e /\ r.ts = m}
  <2>1. handed'[e][m] = handed[e][m] + Cardinality(R)
    BY DEF BeginFlush
  <2>2. Cardinality(R) \in {0, 1} /\ (m \notin Sealed(e) => Cardinality(R) = 0)
    BY <1>4, OneRowPerMinute
  <2>3. handed[e][m] \in Nat
    BY DEF TypeOK
  <2> HIDE DEF R
  <2> QED BY <2>1, <2>2, <2>3
<1> QED BY <1>2, <1>3, <1>5

LEMMA FlushSeal ==
  ASSUME SealInv, NEW emitted, BeginFlush(emitted)
  PROVE  SealInv'
<1> USE DEF SealInv
<1>1. TypeOK'
  BY FlushType
<1>2. \A e \in Entity : lastFinal[e] \in Int /\ lastFinal'[e] \in Int
  <2>1. Minute \cup {Never} \subseteq Int
    BY CoordinatorAssumption DEF Minute, Never
  <2>2. \A e \in Entity : /\ lastFinal[e] \in Minute \cup {Never}
                          /\ lastFinal'[e] \in Minute \cup {Never}
    BY <1>1 DEF TypeOK
  <2> QED BY <2>1, <2>2
<1>3. Pivot \in Int /\ \A m \in Minute : m \in Int
  BY CoordinatorAssumption DEF Pivot, TypeOK, Minute
<1>4. OpenIsNotFinal'
  <2> SUFFICES ASSUME NEW e \in Entity, NEW m \in Open(e)'
               PROVE  m > lastFinal'[e]
    BY DEF OpenIsNotFinal
  <2>1. m \in Minute /\ acc'[e][m].count > 0
    BY DEF Open
  <2>2. acc'[e][m] = IF m < Pivot THEN NoSamples ELSE acc[e][m]
    BY <2>1 DEF BeginFlush
  <2>3. ~(m < Pivot) /\ m \in Open(e)
    BY <2>1, <2>2 DEF NoSamples, Open
  <2>4. m > lastFinal[e]
    BY <2>3 DEF OpenIsNotFinal
  <2>5. \A n \in Sealed(e) : m > n
    BY <2>1, <2>3, <1>3 DEF Sealed, Open
  <2> QED BY <2>4, <2>5, FlushOfEntity
<1>5. HandedIsFinal'
  <2> SUFFICES ASSUME NEW e \in Entity, NEW m \in Minute, handed'[e][m] > 0
               PROVE  m <= lastFinal'[e]
    BY DEF HandedIsFinal
  <2>1. CASE m \in Sealed(e)
    BY <2>1, FlushOfEntity
  <2>2. CASE m \notin Sealed(e)
    <3>1. handed[e][m] > 0
      BY <2>2, FlushOfEntity
    <3>2. m <= lastFinal[e]
      BY <3>1 DEF HandedIsFinal
    <3> QED BY <3>2, <1>2, <1>3, FlushOfEntity
  <2> QED BY <2>1, <2>2
<1>6. NoDoubleShip'
  <2> SUFFICES ASSUME NEW e \in Entity, NEW m \in Minute
               PROVE  handed'[e][m] <= 1
    BY DEF NoDoubleShip
  <2>1. handed[e][m] \in Nat /\ handed[e][m] <= 1 /\ handed'[e][m] \in Nat
    BY <1>1 DEF TypeOK, NoDoubleShip
  <2>2. CASE m \in Sealed(e)
    <3>1. m > lastFinal[e]
      BY <2>2 DEF Sealed, OpenIsNotFinal
    <3>2. handed[e][m] = 0
      BY <3>1, <2>1, <1>2, <1>3 DEF HandedIsFinal
    <3>3. handed'[e][m] - handed[e][m] \in {0, 1}
      BY FlushOfEntity
    <3> QED BY <3>2, <3>3, <2>1
  <2>3. CASE m \notin Sealed(e)
    BY <2>1, <2>3, FlushOfEntity
  <2> QED BY <2>2, <2>3
<1> QED BY <1>1, <1>4, <1>5, <1>6

LEMMA StopSeal ==
  ASSUME SealInv, Stop
  PROVE  SealInv'
<1>1. TypeOK'
  BY StopType DEF SealInv
<1>2. \A e \in Entity : Open(e)' = {}
  BY DEF Stop, Open, NoMinutes, NoSamples
<1>3. \A e \in Entity, m \in Minute : handed'[e][m] = 0
  BY DEF Stop
<1> QED
  BY <1>1, <1>2, <1>3 DEF SealInv, OpenIsNotFinal, HandedIsFinal, NoDoubleShip

LEMMA NextSeal == SealInv /\ [Next]_vars => SealInv'
<1> SUFFICES ASSUME SealInv, [Next]_vars PROVE SealInv'
  OBVIOUS
<1>1. ASSUME UNCHANGED <<acc, lastFinal, handed>> PROVE SealInv'
  <2>1. TypeOK'
    BY NextType DEF SealInv
  <2> QED
    BY <1>1, <2>1
    DEF SealInv, OpenIsNotFinal, HandedIsFinal, NoDoubleShip, Open
<1>2. CASE UNCHANGED vars
  BY <1>1, <1>2 DEF vars
<1>3. CASE Next
  <2>1. CASE \E e \in Entity : \E s \in StatesOf[e], a \in Attr, m \in {now, ha[e].since} :
                StateChanged(e, s, a, m) \/ Unheard(e, s, a, m)
    BY <2>1, <1>1, CaptureSeal DEF Unheard, captureVars, lifeVars
  <2>2. CASE \E emitted \in [Entity -> SUBSET Minute] : BeginFlush(emitted)
    BY <2>2, FlushSeal
  <2>3. CASE \E chunk \in SUBSET outgoing : ChunkDone(chunk)
    BY <2>3, <1>1 DEF ChunkDone, captureVars, lifeVars
  <2>4. CASE FlushAborted \/ ChangeGate \/ Start \/ Tick
    BY <2>4, <1>1 DEF FlushAborted, ChangeGate, Start, Tick, captureVars, lifeVars
  <2>5. CASE Stop
    BY <2>5, StopSeal
  <2> QED BY <1>3, <2>1, <2>2, <2>3, <2>4, <2>5 DEF Next
<1> QED BY <1>2, <1>3

LEMMA SealingHolds == Spec => []SealInv
<1> QED BY InitSeal, NextSeal, PTL DEF Spec

(* Between two reloads no entity gets two rows for one minute, whatever    *)
(* the clock, the gate, late events and aborted flushes do.                *)
THEOREM SealedOnce == Spec => []NoDoubleShip
<1>1. SealInv => NoDoubleShip
  BY DEF SealInv
<1> QED BY <1>1, SealingHolds, PTL

(* The finalised mark separates what still collects from what was shipped: *)
(* no late event reopens a minute that was sealed.                         *)
THEOREM MarkSeparates == Spec => []SealedStaysSealed
<1>1. SealInv => SealedStaysSealed
  BY DEF SealInv, SealedStaysSealed
<1> QED BY <1>1, SealingHolds, PTL

(* The rows an entity gets ascend in their minute, flush after flush. *)
THEOREM RowsAscend == Spec => ChronologicalRows
<1> DEFINE Ascends == \A e \in Entity, m, n \in Minute :
             handed[e][m] > 0 /\ handed'[e][n] > handed[e][n] => n > m
<1>1. SealInv /\ [Next]_vars => [Ascends]_vars
  <2> SUFFICES ASSUME SealInv, Next,
                      NEW e \in Entity, NEW m \in Minute, NEW n \in Minute,
                      handed[e][m] > 0, handed'[e][n] > handed[e][n]
               PROVE  n > m
    OBVIOUS
  <2>1. CASE \E emitted \in [Entity -> SUBSET Minute] : BeginFlush(emitted)
    <3>1. handed[e][n] \in Nat /\ handed'[e][n] # handed[e][n]
      BY DEF SealInv, TypeOK
    <3>2. n \in Sealed(e)
      BY <2>1, <3>1, FlushOfEntity
    <3>3. n > lastFinal[e]
      BY <3>2 DEF SealInv, OpenIsNotFinal, Sealed
    <3>4. m <= lastFinal[e]
      BY DEF SealInv, HandedIsFinal
    <3>5. lastFinal[e] \in Int /\ m \in Int /\ n \in Int
      BY CoordinatorAssumption DEF SealInv, TypeOK, Minute, Never
    <3> QED BY <3>3, <3>4, <3>5
  <2>2. CASE Stop
    <3>1. handed'[e][n] = 0 /\ handed[e][n] \in Nat
      BY <2>2 DEF Stop, SealInv, TypeOK
    <3> QED BY <3>1
  <2>3. CASE UNCHANGED handed
    <3>1. handed[e][n] \in Nat
      BY DEF SealInv, TypeOK
    <3> QED BY <2>3, <3>1
  <2> QED
    BY <2>1, <2>2, <2>3
    DEF Next, StateChanged, Unheard, ChunkDone, FlushAborted, ChangeGate, Start, Tick, lifeVars
<1>2. Spec => [][Ascends]_vars
  <2> HIDE DEF Ascends
  <2> QED BY <1>1, SealingHolds, PTL DEF Spec
<1> QED BY <1>2 DEF ChronologicalRows

-----------------------------------------------------------------------------
(***************************************************************************)
(* What the cloud will show.  The rows of one entity have a last one, and   *)
(* the chunks keep it for the end: what the cloud shows of an entity once  *)
(* the rows of the running flush have arrived moves only when a flush      *)
(* begins, and once the queued transitions have, too, with a capture.      *)
(***************************************************************************)
Valued(r)    == [state |-> r.state, attr |-> r.attr]
RowsOf(e, R) == {r \in R : r.entity = e}
Numeric(R)   == {r \in R : r.state.kind = "num"}
Queued       == {pending[i] : i \in DOMAIN pending}

Shown(e)  == LET R == RowsOf(e, outgoing)
             IN  IF R = {} THEN latest[e] ELSE Valued(LastOf(R))
Final(e)  == LET R == RowsOf(e, Queued)
             IN  IF R = {} THEN Shown(e) ELSE Valued(LastOf(R))
Charts(e) == LET R == Numeric(RowsOf(e, outgoing))
             IN  IF R = {} THEN charted[e] ELSE LastOf(R).state

(* Any two rows of an entity are in order. *)
Ordered(R) ==
  /\ \A r, q \in R : r.entity = q.entity /\ r # q => Precedes(r, q) \/ Precedes(q, r)
  /\ \A r \in R : r.order <= MaxPending

Lined ==
  /\ Ordered(outgoing)
  /\ Len(pending) <= MaxPending /\ \A i \in DOMAIN pending : pending[i].order = i

LEMMA RowsTyped ==
  ASSUME NEW r \in Row
  PROVE  /\ r.order \in Nat /\ r.ts \in Minute /\ r.ts \in Int
         /\ r.entity \in Entity /\ r.state \in State /\ r.attr \in Attr \cup {NoAttr}
<1> QED BY CoordinatorAssumption DEF Row, Minute

LEMMA PrecedesOnce ==
  ASSUME NEW r \in Row, NEW q \in Row, Precedes(r, q)
  PROVE  ~Precedes(q, r)
<1> QED BY RowsTyped DEF Precedes

LEMMA LastIs ==
  ASSUME NEW S, S \subseteq Row, NEW last \in S, \A q \in S \ {last} : Precedes(q, last)
  PROVE  LastOf(S) = last
<1>1. \A r \in S : (\A q \in S \ {r} : Precedes(q, r)) => r = last
  BY PrecedesOnce
<1> QED BY <1>1 DEF LastOf

LEMMA LastExists ==
  ASSUME NEW S, S \subseteq Row, S # {}, Ordered(S), \A r, q \in S : r.entity = q.entity
  PROVE  LastOf(S) \in S /\ \A q \in S \ {LastOf(S)} : Precedes(q, LastOf(S))
<1>1. \A r \in S : r.order \in Nat /\ r.ts \in Minute /\ r.ts \in Int /\ r.order <= MaxPending
  BY RowsTyped DEF Ordered
<1>2. PICK top \in S : \A q \in S : q.order <= top.order
  <2> DEFINE T == {n \in Nat : \E r \in S : n = MaxPending - r.order}
  <2>1. \A r \in S : MaxPending - r.order \in Nat
    BY <1>1, CoordinatorAssumption
  <2>2. T \subseteq Nat /\ T # {}
    BY <2>1
  <2>3. PICK t \in T : \A u \in T : t <= u
    <3> HIDE DEF T
    <3> QED BY <2>2, LeastNatural
  <2>4. PICK r \in S : t = MaxPending - r.order
    OBVIOUS
  <2>5. \A q \in S : MaxPending - r.order <= MaxPending - q.order
    BY <2>1, <2>3, <2>4
  <2>6. \A q \in S : q.order <= r.order
    BY <1>1, <2>5, CoordinatorAssumption
  <2> QED BY <2>6
<1>3. \E last \in S : \A q \in S : ~Precedes(last, q)
  <2>1. CASE top.order # 0
    <3>1. \A q \in S : ~Precedes(top, q)
      BY <1>1, <1>2, <2>1 DEF Precedes
    <3> QED BY <3>1
  <2>2. CASE top.order = 0
    <3> DEFINE D == {r.ts : r \in S}
    <3>1. D \subseteq Minute \cup {Never} /\ D # {}
      BY <1>1
    <3>2. Max(D) \in D /\ \A y \in D : y <= Max(D)
      <4> HIDE DEF D
      <4> QED BY <3>1, MaxOfMinutes
    <3>3. PICK last \in S : last.ts = Max(D)
      BY <3>2
    <3>4. \A q \in S : q.ts <= last.ts /\ q.order = 0
      BY <1>1, <1>2, <2>2, <3>2, <3>3
    <3>5. \A q \in S : ~Precedes(last, q)
      <4> HIDE DEF D
      <4> QED BY <1>1, <3>4 DEF Precedes
    <3> QED BY <3>5
  <2> QED BY <2>1, <2>2
<1>4. PICK last \in S : \A q \in S : ~Precedes(last, q)
  BY <1>3
<1>5. \A q \in S \ {last} : Precedes(q, last)
  BY <1>4 DEF Ordered
<1> QED BY <1>5, LastIs

(* A chunk takes the last row of an entity only with all the others. *)
LEMMA LastLeavesLast ==
  ASSUME NEW R, R \subseteq Row, R # {}, Ordered(R), \A r, q \in R : r.entity = q.entity,
         NEW chunk, \A r \in R \ chunk, q \in R \cap chunk : ~Precedes(r, q)
  PROVE  \/ R \ chunk = {} /\ R \cap chunk = R
         \/ R \ chunk # {} /\ LastOf(R \ chunk) = LastOf(R)
<1>1. LastOf(R) \in R /\ \A q \in R \ {LastOf(R)} : Precedes(q, LastOf(R))
  BY LastExists
<1>2. CASE LastOf(R) \in chunk
  BY <1>1, <1>2
<1>3. CASE LastOf(R) \notin chunk
  <2>1. LastOf(R) \in R \ chunk /\ R \ chunk \subseteq Row
    BY <1>1, <1>3
  <2> QED BY <1>1, <2>1, LastIs
<1> QED BY <1>2, <1>3

-----------------------------------------------------------------------------
(***************************************************************************)
(* Chunks.                                                                 *)
(***************************************************************************)
LEMMA RowsOfEntity ==
  ASSUME TypeOK, Lined, NEW e \in Entity, NEW R \in SUBSET RowsOf(e, outgoing)
  PROVE  /\ R \subseteq Row /\ Ordered(R)
         /\ \A r, q \in R : r.entity = q.entity
         /\ R # {} => LastOf(R) \in R
<1>1. /\ R \subseteq Row /\ Ordered(R)
      /\ \A r, q \in R : r.entity = q.entity
  BY DEF TypeOK, Lined, Ordered, RowsOf
<1>2. R # {} => LastOf(R) \in R
  BY <1>1, LastExists
<1> QED BY <1>1, <1>2

LEMMA ChunkKeeps ==
  ASSUME CloudTypeOK, Lined, NEW chunk \in SUBSET outgoing, ChunkArrives(chunk), NEW e \in Entity
  PROVE  /\ Shown(e)' = Shown(e) /\ Charts(e)' = Charts(e)
         /\ latest'[e] \in [state : State \cup {NoState}, attr : Attr \cup {NoAttr}]
         /\ charted'[e] \in State \cup {NoState}
<1> DEFINE R == RowsOf(e, outgoing)
           N == Numeric(R)
           in == RowsOf(e, chunk)
           numericIn == Numeric(in)
<1>0. TypeOK
  BY DEF CloudTypeOK
<1>1. /\ RowsOf(e, outgoing') = R \ chunk /\ Numeric(RowsOf(e, outgoing')) = N \ chunk
      /\ in = R \cap chunk /\ numericIn = N \cap chunk
  BY DEF ChunkArrives, ChunkDone, RowsOf, Numeric
<1>2. \A r \in outgoing \ chunk, q \in chunk : ~Precedes(r, q)
  BY DEF ChunkArrives, ChunkDone, NextChunk
<1>3. /\ latest'[e] = IF in = {} THEN latest[e] ELSE Valued(LastOf(in))
      /\ charted'[e] = IF numericIn = {} THEN charted[e] ELSE LastOf(numericIn).state
  BY DEF ChunkArrives, Ingest, RowsOf, Numeric, Valued
<1>4. /\ R \in SUBSET RowsOf(e, outgoing) /\ N \in SUBSET RowsOf(e, outgoing)
      /\ in \in SUBSET RowsOf(e, outgoing) /\ numericIn \in SUBSET RowsOf(e, outgoing)
  BY DEF RowsOf, Numeric
<1>5. Shown(e)' = Shown(e)
  <2>1. Shown(e)' = IF R \ chunk = {} THEN latest'[e] ELSE Valued(LastOf(R \ chunk))
    BY <1>1 DEF Shown
  <2>2. CASE R = {}
    BY <1>1, <1>3, <2>1, <2>2 DEF Shown
  <2>3. CASE R # {}
    <3>1. \/ R \ chunk = {} /\ R \cap chunk = R
          \/ R \ chunk # {} /\ LastOf(R \ chunk) = LastOf(R)
      <4>1. \A r \in R \ chunk, q \in R \cap chunk : ~Precedes(r, q)
        BY <1>2 DEF RowsOf
      <4>2. R \subseteq Row /\ Ordered(R) /\ \A r, q \in R : r.entity = q.entity
        BY <1>0, <1>4, RowsOfEntity
      <4> HIDE DEF R
      <4> QED BY <2>3, <4>1, <4>2, LastLeavesLast
    <3>2. Shown(e) = Valued(LastOf(R))
      BY <2>3 DEF Shown
    <3> HIDE DEF R, in
    <3> QED BY <1>1, <1>3, <2>1, <2>3, <3>1, <3>2
  <2> QED BY <2>2, <2>3
<1>6. Charts(e)' = Charts(e)
  <2>1. Charts(e)' = IF N \ chunk = {} THEN charted'[e] ELSE LastOf(N \ chunk).state
    BY <1>1 DEF Charts
  <2>2. CASE N = {}
    BY <1>1, <1>3, <2>1, <2>2 DEF Charts
  <2>3. CASE N # {}
    <3>1. \/ N \ chunk = {} /\ N \cap chunk = N
          \/ N \ chunk # {} /\ LastOf(N \ chunk) = LastOf(N)
      <4>1. \A r \in N \ chunk, q \in N \cap chunk : ~Precedes(r, q)
        BY <1>2 DEF RowsOf, Numeric
      <4>2. N \subseteq Row /\ Ordered(N) /\ \A r, q \in N : r.entity = q.entity
        BY <1>0, <1>4, RowsOfEntity
      <4> HIDE DEF N
      <4> QED BY <2>3, <4>1, <4>2, LastLeavesLast
    <3>2. Charts(e) = LastOf(N).state
      BY <2>3 DEF Charts
    <3> HIDE DEF N, numericIn
    <3> QED BY <1>1, <1>3, <2>1, <2>3, <3>1, <3>2
  <2> QED BY <2>2, <2>3
<1>7. latest'[e] \in [state : State \cup {NoState}, attr : Attr \cup {NoAttr}]
  <2>1. in # {} => LastOf(in) \in Row
    BY <1>0, <1>4, RowsOfEntity
  <2>2. in # {} => Valued(LastOf(in)) \in [state : State \cup {NoState}, attr : Attr \cup {NoAttr}]
    BY <2>1, RowsTyped DEF Valued
  <2> QED BY <1>3, <2>2 DEF CloudTypeOK
<1>8. charted'[e] \in State \cup {NoState}
  <2>1. numericIn # {} => LastOf(numericIn) \in Row
    BY <1>0, <1>4, RowsOfEntity
  <2>2. numericIn # {} => LastOf(numericIn).state \in State
    BY <2>1, RowsTyped
  <2> QED BY <1>3, <2>2 DEF CloudTypeOK
<1> QED BY <1>5, <1>6, <1>7, <1>8

(* Where rows are lost, those of an entity that is not lost stay. *)
LEMMA LossKeeps ==
  ASSUME NEW gone \in SUBSET outgoing, outgoing' = outgoing \ gone,
         UNCHANGED <<latest, charted>>, NEW e \in Entity, e \notin EntitiesOf(gone)
  PROVE  Shown(e)' = Shown(e) /\ Charts(e)' = Charts(e)
<1>1. RowsOf(e, outgoing') = RowsOf(e, outgoing)
  BY DEF RowsOf, EntitiesOf
<1> QED BY <1>1 DEF Shown, Charts

-----------------------------------------------------------------------------
(***************************************************************************)
(* What a drain makes of the rows of one entity.                           *)
(***************************************************************************)
LEMMA QueuedRows ==
  ASSUME TypeOK, Lined
  PROVE  /\ Queued \subseteq Row
         /\ \A r \in Queued : /\ r.order \in DOMAIN pending /\ r = pending[r.order]
                              /\ r.order >= 1 /\ r.order <= MaxPending
<1>1. Queued \subseteq Row
  BY DEF TypeOK, Queued
<1>2. ASSUME NEW r \in Queued
      PROVE  /\ r.order \in DOMAIN pending /\ r = pending[r.order]
             /\ r.order >= 1 /\ r.order <= MaxPending
  <2>1. PICK i \in DOMAIN pending : r = pending[i] /\ r.order = i
    BY DEF Queued, Lined
  <2>2. i \in 1 .. Len(pending) /\ Len(pending) <= MaxPending /\ Len(pending) \in Nat
    BY DEF TypeOK, Lined
  <2> QED BY <2>1, <2>2, CoordinatorAssumption
<1> QED BY <1>1, <1>2

LEMMA DrainLined ==
  ASSUME TypeOK, Lined, NEW emitted, \A e \in Entity : emitted[e] \subseteq Sealed(e)
  PROVE  /\ Drained(emitted) \subseteq Row /\ Ordered(Drained(emitted))
         /\ \A r \in MinuteRows(emitted) : r.order = 0
<1>1. \A r \in MinuteRows(emitted) : /\ r.order = 0 /\ r \in Row /\ r.ts \in Int
                                     /\ r = MinuteRow(r.entity, r.ts)
  BY MinuteRowsOfSealed, RowsTyped DEF MinuteRow
<1>2. \A r \in Drained(emitted) : r \in MinuteRows(emitted) \/ r \in Queued
  BY DEF Drained, Queued
<1>3. ASSUME NEW r \in Drained(emitted), NEW q \in Drained(emitted), r.entity = q.entity, r # q
      PROVE  Precedes(r, q) \/ Precedes(q, r)
  <2>1. CASE r \in MinuteRows(emitted) /\ q \in MinuteRows(emitted)
    <3>1. r.ts # q.ts
      BY <1>1, <1>3, <2>1
    <3> QED BY <1>1, <1>3, <2>1, <3>1 DEF Precedes
  <2>2. CASE r \in Queued /\ q \in Queued
    <3>1. r.order # q.order /\ r.order \in Nat /\ q.order \in Nat
      BY <1>3, <2>2, QueuedRows, RowsTyped
    <3> QED BY <3>1 DEF Precedes
  <2>3. CASE r \in MinuteRows(emitted) /\ q \in Queued
    <3>1. r.order = 0 /\ q.order \in Nat /\ q.order >= 1
      BY <1>1, <2>3, QueuedRows, RowsTyped
    <3> QED BY <3>1 DEF Precedes
  <2>4. CASE q \in MinuteRows(emitted) /\ r \in Queued
    <3>1. q.order = 0 /\ r.order \in Nat /\ r.order >= 1
      BY <1>1, <2>4, QueuedRows, RowsTyped
    <3> QED BY <3>1 DEF Precedes
  <2> QED BY <1>2, <2>1, <2>2, <2>3, <2>4
<1>4. \A r \in Drained(emitted) : r \in Row /\ r.order <= MaxPending
  BY <1>1, <1>2, QueuedRows, CoordinatorAssumption
<1> QED BY <1>1, <1>3, <1>4 DEF Ordered

(* A flush takes all the rows of an entity that is not lost by it. *)
LEMMA FlushTakesAll ==
  ASSUME CloudTypeOK, Lined, NEW emitted, CloudBeginFlush(emitted), NEW e \in Entity, e \notin lost'
  PROVE  /\ RowsOf(e, outgoing') = RowsOf(e, Drained(emitted))
         /\ RowsOf(e, Queued') = {} /\ Shown(e) = latest[e] /\ Charts(e) = charted[e]
         /\ UNCHANGED <<latest, charted>>
<1>1. outgoing' \subseteq Drained(emitted)
  BY DEF CloudBeginFlush, BeginFlush, Admitted
<1>2. \A r \in Drained(emitted) \ outgoing' : r.entity # e
  BY DEF CloudBeginFlush, EntitiesOf
<1>3. RowsOf(e, outgoing') = RowsOf(e, Drained(emitted))
  BY <1>1, <1>2 DEF RowsOf
<1>4. RowsOf(e, outgoing) = {} /\ Numeric(RowsOf(e, outgoing)) = {}
  BY DEF CloudBeginFlush, BeginFlush, RowsOf, Numeric
<1>5. RowsOf(e, Queued') = {}
  BY DEF CloudBeginFlush, BeginFlush, RowsOf, Queued
<1>6. UNCHANGED <<latest, charted>>
  BY DEF CloudBeginFlush
<1> QED BY <1>3, <1>4, <1>5, <1>6 DEF Shown, Charts

(* Without a minute row of its own, its transitions are shown in the end. *)
LEMMA FlushOfQuiet ==
  ASSUME CloudTypeOK, Lined, NEW emitted, CloudBeginFlush(emitted), NEW e \in Entity, e \notin lost',
         emitted[e] = {}
  PROVE  Final(e)' = Final(e) /\ RowsOf(e, outgoing') = RowsOf(e, Queued)
<1>1. ASSUME NEW r \in MinuteRows(emitted) PROVE r.entity # e
  <2>1. PICK x \in Entity, m \in Minute : m \in Capped(emitted[x]) /\ r = MinuteRow(x, m)
    BY DEF MinuteRows
  <2>2. m \in emitted[x] /\ r.entity = x
    BY <2>1 DEF Capped, MinuteRow
  <2> QED BY <2>2
<1>2. \A r \in RowsOf(e, Queued) : ~Superseded(r, MinuteRows(emitted))
  BY <1>1 DEF Superseded, RowsOf
<1>3. RowsOf(e, Drained(emitted)) = RowsOf(e, Queued)
  BY <1>1, <1>2 DEF Drained, RowsOf, Queued
<1>4. RowsOf(e, outgoing') = RowsOf(e, Queued)
  BY <1>3, FlushTakesAll
<1>5. Final(e)' = Shown(e)'
  BY FlushTakesAll DEF Final
<1>6. Shown(e)' = IF RowsOf(e, Queued) = {} THEN latest[e] ELSE Valued(LastOf(RowsOf(e, Queued)))
  BY <1>4, FlushTakesAll DEF Shown
<1> QED BY <1>4, <1>5, <1>6, FlushTakesAll DEF Final

(* An entity that is sampled reports numbers; only outages queue its rows. *)
NumbersOnly(e) ==
  /\ \A m \in Open(e) : acc[e][m].numeric
  /\ \A r \in RowsOf(e, Queued) : r.state.kind = "off"

LEMMA FlushOfNumbers ==
  ASSUME CloudTypeOK, Lined, NEW emitted, CloudBeginFlush(emitted), NEW e \in Entity, e \notin lost',
         NumbersOnly(e), emitted[e] # {}
  PROVE  /\ Max(emitted[e]) \in Sealed(e) /\ \A m \in emitted[e] : m <= Max(emitted[e])
         /\ lastEmitted'[e] = Finalise(acc[e][Max(emitted[e])])
         /\ lastEmitted'[e].kind = "num"
         /\ Charts(e)' = lastEmitted'[e]
         /\ (\A r \in RowsOf(e, Queued), m \in Open(e) : r.ts <= m) => Final(e)'.state = lastEmitted'[e]
<1> DEFINE em == emitted[e]
           top == Max(em)
           row == MinuteRow(e, top)
           own == RowsOf(e, MinuteRows(emitted))
<1>0. TypeOK /\ \A x \in Entity : emitted[x] \subseteq Sealed(x)
  BY DEF CloudTypeOK, CloudBeginFlush, BeginFlush, Gated
<1>1. top \in em /\ (\A m \in em : m <= top) /\ em \subseteq Sealed(e) /\ top \in Minute
  <2>1. em \subseteq Sealed(e) /\ Sealed(e) \subseteq Minute
    BY <1>0 DEF Sealed, Open
  <2>2. em \subseteq Minute \cup {Never} /\ em # {}
    BY <2>1
  <2>3. Max(em) \in em /\ \A m \in em : m <= Max(em)
    <3> HIDE DEF em
    <3> QED BY <2>2, MaxOfMinutes
  <2> QED BY <2>1, <2>3
<1>2. \A m \in em : acc[e][m].numeric /\ m \in Int
  <2>1. \A m \in em : m \in Open(e)
    BY <1>1 DEF Sealed
  <2> QED BY <2>1, CoordinatorAssumption DEF NumbersOnly, Open, Minute
<1>3. lastEmitted'[e] = Finalise(acc[e][top])
  <2>1. {m \in em : acc[e][m].numeric} = em
    BY <1>2
  <2>2. Baseline(e, em) = Finalise(acc[e][top])
    BY <2>1 DEF Baseline
  <2> QED BY <2>2 DEF CloudBeginFlush, BeginFlush
<1>4. Finalise(acc[e][top]).kind = "num"
  BY <1>1, <1>2 DEF Finalise, Num
<1>5. row \in own /\ row.state = Finalise(acc[e][top]) /\ row.order = 0 /\ row.ts = top /\ row.entity = e
  <2>1. {n \in em : n > top} = {}
    <3>1. ASSUME NEW n \in em PROVE ~(n > top)
      <4>1. n \in Int /\ top \in Int /\ n <= top
        BY <1>1, <1>2
      <4> QED BY <4>1
    <3> HIDE DEF em, top
    <3> QED BY <3>1
  <2>2. Cardinality({n \in em : n > top}) < MaxRowsPerEntity
    <3>1. Cardinality({}) = 0 /\ MaxRowsPerEntity \in Nat \ {0}
      BY FS_EmptySet, CoordinatorAssumption
    <3>2. Cardinality({n \in em : n > top}) = 0
      BY <2>1, <3>1
    <3> QED BY <3>1, <3>2
  <2>3. top \in Capped(em)
    BY <1>1, <2>2 DEF Capped
  <2>4. <<e, top>> \in {y \in Entity \X Minute : y[2] \in Capped(emitted[y[1]])}
    BY <1>1, <2>3
  <2>5. MinuteRow(e, top) \in MinuteRows(emitted)
    BY <2>4 DEF MinuteRows
  <2> QED BY <2>5 DEF MinuteRow, RowsOf
<1>6. /\ own \subseteq Row
      /\ \A r \in own : r.ts \in em /\ r.order = 0 /\ r.state.kind = "num" /\ r = MinuteRow(e, r.ts)
  <2> SUFFICES ASSUME NEW r \in own
               PROVE  r \in Row /\ r.ts \in em /\ r.order = 0 /\ r.state.kind = "num" /\ r = MinuteRow(e, r.ts)
    OBVIOUS
  <2>1. PICK x \in Entity, m \in Minute : m \in Capped(emitted[x]) /\ r = MinuteRow(x, m)
    BY DEF MinuteRows, RowsOf
  <2>2. x = e /\ m \in em /\ r.ts = m /\ r.order = 0 /\ r.state = Finalise(acc[e][m])
    BY <2>1 DEF MinuteRow, RowsOf, Capped
  <2>3. r.state.kind = "num"
    BY <1>2, <2>2 DEF Finalise, Num
  <2>4. r \in Row
    BY <1>0, MinuteRowsOfSealed DEF RowsOf
  <2> QED BY <2>1, <2>2, <2>3, <2>4
<1>7. \A r \in own \ {row} : Precedes(r, row)
  <2> SUFFICES ASSUME NEW r \in own, r # row PROVE Precedes(r, row)
    OBVIOUS
  <2>1. r.ts <= top /\ r.ts # top /\ r.ts \in Int /\ top \in Int
    BY <1>1, <1>2, <1>6
  <2> QED BY <1>5, <1>6, <2>1 DEF Precedes, RowsOf
<1>8. LastOf(own) = row
  <2> HIDE DEF own, row
  <2> QED BY <1>5, <1>6, <1>7, LastIs
<1>9. Charts(e)' = lastEmitted'[e]
  <2>1. Numeric(RowsOf(e, Drained(emitted))) = own
    BY <1>6 DEF Drained, RowsOf, Numeric, NumbersOnly, Queued
  <2>2. Numeric(RowsOf(e, outgoing')) = own
    BY <2>1, FlushTakesAll
  <2> HIDE DEF own
  <2> QED BY <1>3, <1>5, <1>8, <2>2 DEF Charts
<1>10. ASSUME \A r \in RowsOf(e, Queued), m \in Open(e) : r.ts <= m
       PROVE  Final(e)'.state = lastEmitted'[e]
  <2>1. top \in Open(e)
    BY <1>1 DEF Sealed
  <2>2. ASSUME NEW r \in RowsOf(e, Queued) PROVE Superseded(r, MinuteRows(emitted))
    <3>1. r.ts <= top /\ r \in Row
      BY <1>0, <1>10, <2>1, QueuedRows DEF RowsOf
    <3>2. top >= r.ts
      BY <3>1, <1>1, <1>2, RowsTyped
    <3>3. r.state.kind = "off" /\ r.entity = e
      BY DEF NumbersOnly, RowsOf
    <3>4. row \in MinuteRows(emitted) /\ row.entity = r.entity /\ row.ts >= r.ts /\ row.state.kind = "num"
      BY <1>4, <1>5, <3>2, <3>3 DEF RowsOf
    <3> HIDE DEF row
    <3> QED BY <3>3, <3>4 DEF Superseded
  <2>3. RowsOf(e, Drained(emitted)) = own
    BY <2>2 DEF Drained, RowsOf, Queued
  <2>4. Final(e)' = Shown(e)'
    BY FlushTakesAll DEF Final
  <2>5. Shown(e)' = Valued(row)
    <3>1. RowsOf(e, outgoing') = own
      BY <2>3, FlushTakesAll
    <3> HIDE DEF own, row
    <3> QED BY <1>5, <1>8, <3>1 DEF Shown
  <2> HIDE DEF row
  <2> QED BY <1>3, <1>5, <2>4, <2>5 DEF Valued
<1> QED BY <1>1, <1>3, <1>4, <1>9, <1>10

-----------------------------------------------------------------------------
(***************************************************************************)
(* Types, and the order of the rows.                                       *)
(***************************************************************************)
(* While no coordinator runs, nothing is remembered. *)
Idle == ~running => Fresh

CloudBase == CloudTypeOK /\ Lined /\ Idle

CloudTypes ==
  /\ latest \in [Entity -> [state : State \cup {NoState}, attr : Attr \cup {NoAttr}]]
  /\ charted \in [Entity -> State \cup {NoState}]
  /\ lost \in SUBSET Entity
  /\ missed \in SUBSET Entity
  /\ sealedMean \in [Entity -> State \cup {NoState}]

(* A capture leaves the cloud as it is; what it queues comes last. *)
LEMMA QueueGrows ==
  ASSUME TypeOK, Lined, NEW e \in Entity, NEW s \in State, NEW a \in Attr, NEW m \in Minute,
         EmitTransition(e, s, a, m)
  PROVE  LET row == [entity |-> e, ts |-> m, state |-> s, attr |-> a, order |-> Len(pending) + 1]
         IN  /\ row \in Row
             /\ Len(pending') <= MaxPending /\ \A i \in DOMAIN pending' : pending'[i].order = i
             /\ Queued' = Queued \cup {row}
             /\ \A r \in Queued : Precedes(r, row)
<1> DEFINE row == [entity |-> e, ts |-> m, state |-> s, attr |-> a, order |-> Len(pending) + 1]
<1>1. Len(pending) \in Nat /\ Len(pending) < MaxPending /\ DOMAIN pending = 1 .. Len(pending)
  BY DEF TypeOK, EmitTransition
<1>2. row \in Row
  BY <1>1 DEF Row
<1>3. /\ Len(pending') = Len(pending) + 1 /\ DOMAIN pending' = 1 .. Len(pending) + 1
      /\ \A i \in 1 .. Len(pending) : pending'[i] = pending[i]
      /\ pending'[Len(pending) + 1] = row
  <2>1. pending' = Append(pending, row) /\ pending \in Seq(Row)
    BY DEF EmitTransition, TypeOK
  <2> HIDE DEF row
  <2> QED BY <1>2, <2>1
<1>4. /\ Len(pending') <= MaxPending
      /\ \A i \in 1 .. Len(pending) : pending[i].order = i
      /\ row.order = Len(pending) + 1
  BY <1>1, <1>3, CoordinatorAssumption DEF Lined
<1>5. \A i \in 1 .. Len(pending) + 1 : i \in 1 .. Len(pending) \/ i = Len(pending) + 1
  BY <1>1
<1>6. \A i \in DOMAIN pending' : pending'[i].order = i
  <2> HIDE DEF row
  <2> QED BY <1>3, <1>4, <1>5
<1>7. Queued' = Queued \cup {row}
  <2>1. 1 .. Len(pending) + 1 = (1 .. Len(pending)) \cup {Len(pending) + 1}
    BY <1>1
  <2> HIDE DEF row
  <2> QED BY <1>1, <1>3, <2>1 DEF Queued
<1>8. \A r \in Queued : Precedes(r, row)
  <2> SUFFICES ASSUME NEW r \in Queued PROVE r.order < row.order
    BY DEF Precedes
  <2>1. r.order \in DOMAIN pending
    BY QueuedRows
  <2> HIDE DEF row
  <2> QED BY <1>1, <1>4, <2>1
<1> HIDE DEF row
<1>9. /\ row \in Row /\ Len(pending') <= MaxPending
      /\ \A i \in DOMAIN pending' : pending'[i].order = i
      /\ Queued' = Queued \cup {row} /\ \A r \in Queued : Precedes(r, row)
  BY <1>2, <1>4, <1>6, <1>7, <1>8
<1> QED BY <1>9 DEF row

LEMMA CaptureBase ==
  ASSUME CloudBase, NEW e \in Entity, NEW s \in StatesOf[e], NEW a \in Attr,
         NEW m \in {now, ha[e].since}, CloudStateChanged(e, s, a, m)
  PROVE  CloudBase'
<1>0. TypeOK /\ TypeOK' /\ s \in State /\ m \in Minute
  <2>1. TypeOK
    BY DEF CloudBase, CloudTypeOK
  <2>2. s \in State /\ m \in Minute
    BY <2>1, CoordinatorAssumption DEF TypeOK
  <2> QED BY <2>1, <2>2, CaptureType DEF CloudStateChanged
<1>1. CloudTypeOK' /\ Idle'
  BY <1>0 DEF CloudBase, CloudTypeOK, CloudStateChanged, StateChanged, lifeVars, Idle
<1>2. UNCHANGED outgoing
  BY DEF CloudStateChanged, StateChanged
<1>3. CASE UNCHANGED pending
  BY <1>1, <1>2, <1>3 DEF CloudBase, Lined, Ordered
<1>4. CASE EmitTransition(e, s, a, m)
  <2>1. Len(pending') <= MaxPending /\ \A i \in DOMAIN pending' : pending'[i].order = i
    BY <1>0, <1>4, QueueGrows DEF CloudBase
  <2> QED BY <1>1, <1>2, <2>1 DEF CloudBase, Lined, Ordered
<1> QED BY <1>3, <1>4 DEF CloudStateChanged, StateChanged, DropLate, CaptureOutage, CaptureTransition, CaptureSample, captureVars

LEMMA UnheardBase ==
  ASSUME CloudBase, NEW e \in Entity, NEW s \in StatesOf[e], NEW a \in Attr,
         NEW m \in {now, ha[e].since}, CloudUnheard(e, s, a, m)
  PROVE  CloudBase'
<1>1. TypeOK'
  BY UnheardType DEF CloudBase, CloudTypeOK, CloudUnheard
<1>2. UNCHANGED <<acc, lastFinal, lastEmitted, lastFault, pending, coldStart, outgoing, running, handed>>
  BY DEF CloudUnheard, Unheard, captureVars, lifeVars
<1>3. Lined' /\ Idle'
  BY <1>2 DEF CloudBase, Lined, Ordered, Idle, Fresh
<1> QED BY <1>1, <1>3 DEF CloudBase, CloudTypeOK, CloudUnheard

LEMMA FlushBase ==
  ASSUME CloudBase, NEW emitted, CloudBeginFlush(emitted)
  PROVE  CloudBase'
<1>0. /\ TypeOK /\ Lined /\ BeginFlush(emitted)
      /\ \A e \in Entity : emitted[e] \subseteq Sealed(e)
  BY DEF CloudBase, CloudTypeOK, CloudBeginFlush, BeginFlush, Gated
<1>1. TypeOK'
  BY <1>0, FlushType
<1>2. /\ Drained(emitted) \subseteq Row /\ Ordered(Drained(emitted))
      /\ outgoing' \subseteq Drained(emitted) /\ pending' = << >>
  BY <1>0, DrainLined DEF BeginFlush, Admitted
<1>3. Lined'
  BY <1>2, CoordinatorAssumption DEF Lined, Ordered
<1>4. lost' \in SUBSET Entity
  <2>1. \A r \in Drained(emitted) : r.entity \in Entity
    BY <1>2, RowsTyped
  <2> QED BY <2>1 DEF CloudBase, CloudTypeOK, CloudBeginFlush, EntitiesOf
<1>5. sealedMean' \in [Entity -> State \cup {NoState}]
  <2> SUFFICES ASSUME NEW e \in Entity
               PROVE  LET numeric == {m \in Sealed(e) : acc[e][m].numeric}
                      IN  (IF numeric = {} THEN sealedMean[e] ELSE Finalise(acc[e][Max(numeric)]))
                            \in State \cup {NoState}
    BY DEF CloudBeginFlush
  <2> DEFINE numeric == {m \in Sealed(e) : acc[e][m].numeric}
  <2>1. numeric \subseteq Minute \cup {Never}
    BY DEF Sealed, Open
  <2>2. numeric # {} => Max(numeric) \in numeric
    <3> HIDE DEF numeric
    <3> QED BY <2>1, MaxOfMinutes
  <2>3. numeric # {} => acc[e][Max(numeric)] \in Accumulator /\ acc[e][Max(numeric)].count > 0
    BY <1>0, <2>2 DEF Sealed, Open, TypeOK
  <2>4. numeric # {} => Finalise(acc[e][Max(numeric)]) \in State
    BY <2>3, FinaliseState
  <2>5. sealedMean[e] \in State \cup {NoState}
    BY DEF CloudBase, CloudTypeOK
  <2> QED BY <2>4, <2>5
<1>6. Idle'
  BY <1>0 DEF BeginFlush, Idle
<1> QED BY <1>1, <1>3, <1>4, <1>5, <1>6 DEF CloudBase, CloudTypeOK, CloudBeginFlush

LEMMA ChunkBase ==
  ASSUME CloudBase, NEW chunk \in SUBSET outgoing, ChunkArrives(chunk) \/ ChunkRejected(chunk)
  PROVE  CloudBase'
<1>0. TypeOK /\ Lined /\ ChunkDone(chunk)
  BY DEF CloudBase, CloudTypeOK, ChunkArrives, ChunkRejected
<1>1. TypeOK' /\ UNCHANGED <<pending, sealedMean>> /\ outgoing' \subseteq outgoing
  BY <1>0, OtherType DEF ChunkDone, captureVars, ChunkArrives, ChunkRejected
<1>2. Lined'
  BY <1>0, <1>1 DEF Lined, Ordered
<1>3. lost' \in SUBSET Entity
  <2>1. \A r \in outgoing : r.entity \in Entity
    BY <1>0, RowsTyped DEF TypeOK
  <2> QED BY <2>1 DEF CloudBase, CloudTypeOK, ChunkArrives, ChunkRejected, EntitiesOf
<1>4. /\ latest' \in [Entity -> [state : State \cup {NoState}, attr : Attr \cup {NoAttr}]]
      /\ charted' \in [Entity -> State \cup {NoState}]
  <2>1. CASE ChunkRejected(chunk)
    BY <2>1 DEF ChunkRejected, CloudBase, CloudTypeOK
  <2>2. CASE ChunkArrives(chunk)
    <3>1. \A e \in Entity : /\ latest'[e] \in [state : State \cup {NoState}, attr : Attr \cup {NoAttr}]
                            /\ charted'[e] \in State \cup {NoState}
      BY <2>2, ChunkKeeps DEF CloudBase
    <3>2. latest' = [e \in Entity |-> latest'[e]] /\ charted' = [e \in Entity |-> charted'[e]]
      BY <2>2 DEF ChunkArrives, Ingest
    <3> QED BY <3>1, <3>2
  <2> QED BY <2>1, <2>2
<1>5. Idle'
  BY <1>0 DEF ChunkDone, NextChunk, lifeVars, CloudBase, Idle, Fresh
<1>6. missed' \in SUBSET Entity
  BY DEF CloudBase, CloudTypeOK, ChunkArrives, ChunkRejected
<1> QED BY <1>1, <1>2, <1>3, <1>4, <1>5, <1>6 DEF CloudBase, CloudTypeOK

LEMMA OtherBase ==
  ASSUME CloudBase,
         \/ CloudFlushAborted \/ CloudStop
         \/ (ChangeGate \/ Start \/ Tick) /\ UNCHANGED cloudVars
  PROVE  CloudBase'
<1>0. TypeOK /\ Lined
  BY DEF CloudBase, CloudTypeOK
<1>1. TypeOK'
  BY <1>0, OtherType, StopType, GateType DEF CloudFlushAborted, CloudStop
<1>2. \A r \in outgoing \cup Queued : r.entity \in Entity
  BY <1>0, QueuedRows, RowsTyped DEF TypeOK
<1>3. CloudTypes'
  <2>1. CASE CloudFlushAborted
    <3>1. lost' \in SUBSET Entity
      BY <1>2, <2>1 DEF CloudFlushAborted, EntitiesOf, CloudBase, CloudTypeOK
    <3> QED BY <2>1, <3>1 DEF CloudFlushAborted, CloudBase, CloudTypeOK, CloudTypes
  <2>2. CASE CloudStop
    <3>1. lost' \in SUBSET Entity
      BY <1>2, <2>2 DEF CloudStop, EntitiesOf, Queued, CloudBase, CloudTypeOK
    <3> QED BY <2>2, <3>1 DEF CloudStop, CloudBase, CloudTypeOK, CloudTypes
  <2>3. CASE UNCHANGED cloudVars
    BY <2>3 DEF cloudVars, CloudBase, CloudTypeOK, CloudTypes
  <2> QED BY <2>1, <2>2, <2>3
<1>4. Lined'
  <2>1. CASE UNCHANGED <<outgoing, pending>>
    BY <1>0, <2>1 DEF Lined, Ordered
  <2>2. CASE outgoing' = {} /\ (pending' = << >> \/ UNCHANGED pending)
    BY <1>0, <2>2, CoordinatorAssumption DEF Lined, Ordered
  <2> QED BY <2>1, <2>2
      DEF CloudFlushAborted, FlushAborted, CloudStop, Stop, ChangeGate, Start, Tick, captureVars
<1>5. Idle'
  <2>1. CASE CloudStop
    BY <2>1 DEF CloudStop, Stop, Idle, Fresh
  <2>2. CASE CloudFlushAborted
    BY <2>2 DEF CloudFlushAborted, FlushAborted, lifeVars, CloudBase, Idle, Fresh
  <2>3. CASE ChangeGate \/ Start
    BY <2>3 DEF ChangeGate, Start, lifeVars, Idle
  <2>4. CASE Tick
    BY <2>4 DEF Tick, captureVars, lifeVars, CloudBase, Idle, Fresh
  <2> QED BY <2>1, <2>2, <2>3, <2>4
<1> QED BY <1>1, <1>3, <1>4, <1>5 DEF CloudBase, CloudTypeOK, CloudTypes

-----------------------------------------------------------------------------
(***************************************************************************)
(* What a step does to one entity: it keeps it, captures an event of it,    *)
(* misses one, flushes, or stops.                                          *)
(***************************************************************************)
Kept(e) ==
  /\ ha'[e] = ha[e] /\ acc'[e] = acc[e] /\ lastFinal'[e] = lastFinal[e]
  /\ lastEmitted'[e] = lastEmitted[e] /\ lastFault'[e] = lastFault[e]
  /\ sealedMean'[e] = sealedMean[e] /\ (e \in missed' <=> e \in missed)
  /\ RowsOf(e, Queued)' = RowsOf(e, Queued)
  /\ e \notin lost' => e \notin lost /\ Final(e)' = Final(e) /\ Charts(e)' = Charts(e)

Captured(e, s, a, m) == CloudStateChanged(e, s, a, m)
Ignored(e, s, a, m)  == CloudUnheard(e, s, a, m)

LEMMA EmitShows ==
  ASSUME TypeOK, Lined, NEW e \in Entity, NEW s \in State, NEW a \in Attr, NEW m \in Minute,
         EmitTransition(e, s, a, m)
  PROVE  /\ Final(e)' = [state |-> s, attr |-> a]
         /\ \A r \in RowsOf(e, Queued)' : r \in RowsOf(e, Queued) \/ (r.state = s /\ r.ts = m)
         /\ \A f \in Entity \ {e} : RowsOf(f, Queued)' = RowsOf(f, Queued)
<1>1. PICK row \in Row : /\ row = [entity |-> e, ts |-> m, state |-> s, attr |-> a,
                                   order |-> Len(pending) + 1]
                         /\ Queued' = Queued \cup {row}
                         /\ \A r \in Queued : Precedes(r, row)
  BY QueueGrows
<1>2. row.entity = e /\ row.ts = m /\ row.state = s /\ row.attr = a
  BY <1>1
<1>3. /\ RowsOf(e, Queued)' = RowsOf(e, Queued) \cup {row}
      /\ \A f \in Entity \ {e} : RowsOf(f, Queued)' = RowsOf(f, Queued)
  BY <1>1, <1>2 DEF RowsOf
<1>4. LastOf(RowsOf(e, Queued) \cup {row}) = row
  <2>1. RowsOf(e, Queued) \cup {row} \subseteq Row
    BY QueuedRows DEF RowsOf
  <2>2. \A q \in (RowsOf(e, Queued) \cup {row}) \ {row} : Precedes(q, row)
    BY <1>1 DEF RowsOf
  <2> QED BY <2>1, <2>2, LastIs
<1>5. Final(e)' = Valued(row)
  <2>1. Final(e)' = IF RowsOf(e, Queued)' = {} THEN Shown(e)' ELSE Valued(LastOf(RowsOf(e, Queued)'))
    BY DEF Final
  <2>2. RowsOf(e, Queued)' # {}
    BY <1>3
  <2> QED BY <1>3, <1>4, <2>1, <2>2
<1> QED BY <1>2, <1>3, <1>5 DEF Valued

LEMMA QuietCloud ==
  ASSUME UNCHANGED <<outgoing, latest, charted>>, NEW e \in Entity
  PROVE  /\ Shown(e)' = Shown(e) /\ Charts(e)' = Charts(e)
         /\ RowsOf(e, Queued)' = RowsOf(e, Queued) => Final(e)' = Final(e)
<1> QED BY DEF Shown, Charts, Final

LEMMA CaptureOfAnother ==
  ASSUME CloudBase, NEW x \in Entity, NEW s \in StatesOf[x], NEW a \in Attr,
         NEW m \in {now, ha[x].since}, Captured(x, s, a, m), NEW e \in Entity, e # x
  PROVE  Kept(e)
<1>0. TypeOK /\ Lined /\ s \in State /\ m \in Minute
  <2>1. TypeOK /\ Lined
    BY DEF CloudBase, CloudTypeOK
  <2> QED BY <2>1, CoordinatorAssumption DEF TypeOK
<1>1. /\ ha'[e] = ha[e] /\ acc'[e] = acc[e]
      /\ lastEmitted'[e] = lastEmitted[e] /\ lastFault'[e] = lastFault[e]
  BY <1>0 DEF Captured, CloudStateChanged, StateChanged, Reports, DropLate, CaptureOutage, CaptureTransition,
              CaptureSample, EmitTransition, captureVars, TypeOK
<1>2. UNCHANGED <<lastFinal, outgoing, latest, charted, lost, sealedMean>> /\ (e \in missed' <=> e \in missed)
  BY DEF Captured, CloudStateChanged, StateChanged
<1>3. RowsOf(e, Queued)' = RowsOf(e, Queued)
  <2>1. CASE UNCHANGED pending
    BY <2>1 DEF RowsOf, Queued
  <2>2. CASE EmitTransition(x, s, a, m)
    BY <1>0, <2>2, EmitShows
  <2> QED BY <2>1, <2>2 DEF Captured, CloudStateChanged, StateChanged, DropLate, CaptureOutage, CaptureTransition,
                            CaptureSample, captureVars
<1> QED BY <1>1, <1>2, <1>3, QuietCloud DEF Kept

LEMMA StepOfEntity ==
  ASSUME CloudBase, [CloudNext]_cvars, NEW e \in Entity
  PROVE  \/ Kept(e)
         \/ \E s \in StatesOf[e], a \in Attr, m \in {now, ha[e].since} : Captured(e, s, a, m)
         \/ \E emitted \in [Entity -> SUBSET Minute] : CloudBeginFlush(emitted)
         \/ CloudStop
         \/ \E s \in StatesOf[e], a \in Attr, m \in {now, ha[e].since} : Ignored(e, s, a, m)
<1>0. TypeOK /\ Lined
  BY DEF CloudBase, CloudTypeOK
<1>1. ASSUME NEW x \in Entity, NEW s \in StatesOf[x], NEW a \in Attr, NEW m \in {now, ha[x].since},
             Captured(x, s, a, m)
      PROVE  Kept(e) \/ x = e
  BY <1>1, CaptureOfAnother
<1>2. ASSUME NEW chunk \in SUBSET outgoing, ChunkArrives(chunk) PROVE Kept(e)
  <2>1. UNCHANGED <<ha, acc, lastFinal, lastEmitted, lastFault, pending, sealedMean, lost, missed>>
    BY <1>2 DEF ChunkArrives, ChunkDone, captureVars
  <2>2. RowsOf(e, Queued)' = RowsOf(e, Queued)
    BY <2>1 DEF RowsOf, Queued
  <2>3. Shown(e)' = Shown(e) /\ Charts(e)' = Charts(e)
    BY <1>2, ChunkKeeps DEF CloudBase
  <2> QED BY <2>1, <2>2, <2>3 DEF Kept, Final
<1>3. ASSUME NEW gone \in SUBSET outgoing, outgoing' = outgoing \ gone,
             lost' = lost \cup EntitiesOf(gone),
             UNCHANGED <<ha, acc, lastFinal, lastEmitted, lastFault, pending, sealedMean, missed, latest,
                         charted>>
      PROVE  Kept(e)
  <2>1. RowsOf(e, Queued)' = RowsOf(e, Queued)
    BY <1>3 DEF RowsOf, Queued
  <2>2. e \notin lost' => Shown(e)' = Shown(e) /\ Charts(e)' = Charts(e)
    BY <1>3, LossKeeps
  <2> QED BY <1>3, <2>1, <2>2 DEF Kept, Final
<1>4. ASSUME NEW chunk \in SUBSET outgoing, ChunkRejected(chunk) PROVE Kept(e)
  BY <1>3, <1>4 DEF ChunkRejected, ChunkDone, captureVars
<1>5. CASE CloudFlushAborted
  <2>1. outgoing' = outgoing \ outgoing
    BY <1>5 DEF CloudFlushAborted, FlushAborted
  <2> QED BY <1>3, <1>5, <2>1 DEF CloudFlushAborted, FlushAborted, captureVars
<1>6. CASE \/ (ChangeGate \/ Start \/ Tick) /\ UNCHANGED cloudVars
           \/ UNCHANGED cvars
  <2>1. UNCHANGED <<ha, acc, lastFinal, lastEmitted, lastFault, pending, outgoing,
                    sealedMean, latest, charted, lost, missed>>
    BY <1>6 DEF ChangeGate, Start, Tick, captureVars, cloudVars, cvars, vars
  <2>2. RowsOf(e, Queued)' = RowsOf(e, Queued)
    BY <2>1 DEF RowsOf, Queued
  <2> QED BY <2>1, <2>2, QuietCloud DEF Kept
<1>7. ASSUME NEW x \in Entity, NEW s \in StatesOf[x], NEW a \in Attr, NEW m \in {now, ha[x].since},
             Ignored(x, s, a, m), x # e
      PROVE  Kept(e)
  <2>1. UNCHANGED <<acc, lastFinal, lastEmitted, lastFault, pending, outgoing,
                    sealedMean, latest, charted, lost>>
    BY <1>7 DEF Ignored, CloudUnheard, Unheard, captureVars
  <2>2. ha'[e] = ha[e] /\ (e \in missed' <=> e \in missed)
    BY <1>0, <1>7 DEF Ignored, CloudUnheard, Unheard, Reports, TypeOK
  <2>3. RowsOf(e, Queued)' = RowsOf(e, Queued)
    BY <2>1 DEF RowsOf, Queued
  <2> QED BY <2>1, <2>2, <2>3, QuietCloud DEF Kept
<1> QED BY <1>1, <1>2, <1>4, <1>5, <1>6, <1>7 DEF CloudNext, Captured, Ignored

(* What a coordinator that has just been set up remembers of an entity. *)
Blank(e) ==
  /\ lastEmitted[e] = NoState /\ lastFinal[e] = Never
  /\ Open(e) = {} /\ RowsOf(e, Queued) = {}

LEMMA FreshIsBlank ==
  ASSUME Fresh, NEW e \in Entity
  PROVE  Blank(e)
<1>1. Open(e) = {}
  BY DEF Fresh, Open, NoMinutes, NoSamples
<1>2. RowsOf(e, Queued) = {}
  BY DEF Fresh, RowsOf, Queued
<1> QED BY <1>1, <1>2 DEF Fresh, Blank

(* A change that nobody hears moves Home Assistant's state and no other. *)
LEMMA IgnoredFacts ==
  ASSUME CloudBase, NEW e \in Entity, NEW s \in StatesOf[e], NEW a \in Attr,
         NEW m \in {now, ha[e].since}, Ignored(e, s, a, m)
  PROVE  /\ Blank(e) /\ Blank(e)'
         /\ ha'[e].since = m /\ m \in {now, ha[e].since}
         /\ e \in missed' /\ UNCHANGED <<now, lost, sealedMean>>
         /\ Final(e)' = Final(e) /\ Charts(e)' = Charts(e)
<1>1. TypeOK /\ Fresh
  BY DEF CloudBase, CloudTypeOK, Idle, Ignored, CloudUnheard, Unheard
<1>2. UNCHANGED <<now, acc, lastFinal, lastEmitted, lastFault, pending, coldStart, outgoing,
                  handed, sealedMean, latest, charted, lost>>
  BY DEF Ignored, CloudUnheard, Unheard, captureVars, lifeVars
<1>3. Blank(e) /\ Blank(e)'
  <2>1. Blank(e)
    BY <1>1, FreshIsBlank
  <2> QED BY <1>2, <2>1 DEF Blank, Open, RowsOf, Queued
<1>4. ha'[e].since = m /\ e \in missed'
  BY <1>1 DEF Ignored, CloudUnheard, Unheard, Reports, TypeOK
<1>5. RowsOf(e, Queued)' = RowsOf(e, Queued)
  BY <1>3 DEF Blank
<1> QED BY <1>2, <1>3, <1>4, <1>5, QuietCloud

-----------------------------------------------------------------------------
(***************************************************************************)
(* Hold-last.  The baseline of the gate is what the chart ends with once    *)
(* the rows under way have arrived, and the newest finalised mean is that  *)
(* baseline or was within the threshold of it.                             *)
(***************************************************************************)
Sampled(e)   == Bucket[e] \in {"always", "threshold"}
NumbersOf(e) == \A s \in StatesOf[e] : s.kind # "text"

Holds(e) ==
  e \notin lost =>
    /\ lastEmitted[e].kind = "num" => Charts(e) = lastEmitted[e]
    /\ sealedMean[e].kind = "num" =>
         /\ Charts(e).kind = "num"
         /\ Distance(Charts(e).val, sealedMean[e].val) < Threshold

LEMMA NothingOpen ==
  ASSUME NEW e \in Entity, acc'[e] = NoMinutes
  PROVE  Open(e)' = {}
<1> QED BY DEF Open, NoMinutes, NoSamples

LEMMA SampledCapture ==
  ASSUME CloudBase, NEW e \in Entity, Sampled(e), NumbersOf(e), NEW s \in StatesOf[e], NEW a \in Attr,
         NEW m \in {now, ha[e].since}, Captured(e, s, a, m)
  PROVE  \/ /\ TooLate(e, m) \/ (s.kind = "off" /\ lastEmitted[e] = s)
            /\ acc'[e] = acc[e] /\ lastEmitted' = lastEmitted /\ pending' = pending
         \/ /\ s.kind = "off" /\ acc'[e] = NoMinutes /\ lastEmitted'[e] = s /\ ~TooLate(e, m)
            /\ EmitTransition(e, s, a, m)
         \/ /\ s.kind = "num" /\ acc'[e] = [acc[e] EXCEPT ![m] = Fold(@, s)]
            /\ lastEmitted' = lastEmitted /\ pending' = pending
<1>0. TypeOK /\ s \in State
  <2>1. TypeOK
    BY DEF CloudBase, CloudTypeOK
  <2> QED BY <2>1, CoordinatorAssumption
<1>1. CASE DropLate(e, m)
  BY <1>1 DEF DropLate, captureVars
<1>2. CASE CaptureOutage(e, s, a, m)
  <2>1. CASE lastEmitted[e] = s
    BY <1>2, <2>1 DEF CaptureOutage, captureVars
  <2>2. CASE lastEmitted[e] # s
    BY <1>0, <1>2, <2>2 DEF CaptureOutage, EmitTransition, TypeOK
  <2> QED BY <2>1, <2>2
<1>3. ~CaptureTransition(e, s, a, m)
  BY DEF CaptureTransition, Sampled
<1>4. CASE CaptureSample(e, s, m)
  <2>1. s.kind = "num"
    BY <1>0, <1>4 DEF CaptureSample, NumbersOf, State
  <2>2. acc'[e] = [acc[e] EXCEPT ![m] = Fold(@, s)]
    BY <1>0, <1>4 DEF CaptureSample, TypeOK
  <2> QED BY <1>4, <2>1, <2>2 DEF CaptureSample
<1> QED BY <1>1, <1>2, <1>3, <1>4 DEF Captured, CloudStateChanged, StateChanged

(* What a flush leaves open of an entity, it did not touch. *)
LEMMA FlushLeaves ==
  ASSUME TypeOK, NEW emitted, BeginFlush(emitted), NEW e \in Entity
  PROVE  /\ Open(e)' = Open(e) \ Sealed(e)
         /\ \A m \in Open(e)' : acc'[e][m] = acc[e][m]
<1>1. \A m \in Minute : acc'[e][m] = IF m < Pivot THEN NoSamples ELSE acc[e][m]
  BY DEF BeginFlush
<1>2. NoSamples.count = 0
  BY DEF NoSamples
<1> QED BY <1>1, <1>2 DEF Open, Sealed

LEMMA NumbersStep ==
  ASSUME CloudBase, [CloudNext]_cvars, NEW e \in Entity, Sampled(e), NumbersOf(e), NumbersOnly(e)
  PROVE  NumbersOnly(e)'
<1>0. TypeOK /\ Lined
  BY DEF CloudBase, CloudTypeOK
<1>1. CASE Kept(e)
  BY <1>1 DEF Kept, NumbersOnly, Open
<1>2. ASSUME NEW s \in StatesOf[e], NEW a \in Attr, NEW m \in {now, ha[e].since}, Captured(e, s, a, m)
      PROVE  NumbersOnly(e)'
  <2>0. s \in State /\ m \in Minute
    BY <1>0, CoordinatorAssumption DEF TypeOK
  <2>1. CASE acc'[e] = acc[e] /\ pending' = pending
    BY <2>1 DEF NumbersOnly, Open, RowsOf, Queued
  <2>2. CASE s.kind = "off" /\ acc'[e] = NoMinutes /\ EmitTransition(e, s, a, m)
    <3>1. Open(e)' = {}
      BY <2>2, NothingOpen
    <3>2. \A r \in RowsOf(e, Queued)' : r \in RowsOf(e, Queued) \/ r.state = s
      BY <1>0, <2>0, <2>2, EmitShows
    <3> QED BY <2>2, <3>1, <3>2 DEF NumbersOnly
  <2>3. CASE /\ s.kind = "num" /\ acc'[e] = [acc[e] EXCEPT ![m] = Fold(@, s)] /\ pending' = pending
    <3>1. RowsOf(e, Queued)' = RowsOf(e, Queued)
      BY <2>3 DEF RowsOf, Queued
    <3>2. ASSUME NEW n \in Open(e)' PROVE acc'[e][n].numeric
      <4>1. acc[e] \in [Minute -> Accumulator] /\ n \in Minute
        BY <1>0, <3>2 DEF TypeOK, Open
      <4>2. CASE n = m
        BY <2>0, <2>3, <4>1, <4>2 DEF Fold, Accumulator
      <4>3. CASE n # m
        BY <2>3, <3>2, <4>1, <4>3 DEF NumbersOnly, Open
      <4> QED BY <4>2, <4>3
    <3> QED BY <3>1, <3>2 DEF NumbersOnly
  <2>4. \/ /\ TooLate(e, m) \/ (s.kind = "off" /\ lastEmitted[e] = s)
           /\ acc'[e] = acc[e] /\ lastEmitted' = lastEmitted /\ pending' = pending
        \/ /\ s.kind = "off" /\ acc'[e] = NoMinutes /\ lastEmitted'[e] = s /\ ~TooLate(e, m)
           /\ EmitTransition(e, s, a, m)
        \/ /\ s.kind = "num" /\ acc'[e] = [acc[e] EXCEPT ![m] = Fold(@, s)]
           /\ lastEmitted' = lastEmitted /\ pending' = pending
    BY <1>2, SampledCapture
  <2> HIDE <1>2
  <2> QED BY <2>1, <2>2, <2>3, <2>4
<1>3. ASSUME NEW emitted, CloudBeginFlush(emitted) PROVE NumbersOnly(e)'
  <2>1. RowsOf(e, Queued)' = {} /\ BeginFlush(emitted)
    BY <1>3 DEF CloudBeginFlush, BeginFlush, RowsOf, Queued
  <2> QED BY <1>0, <2>1, FlushLeaves DEF NumbersOnly
<1>4. CASE CloudStop
  <2>1. RowsOf(e, Queued)' = {} /\ acc'[e] = NoMinutes
    BY <1>4 DEF CloudStop, Stop, RowsOf, Queued
  <2> QED BY <2>1, NothingOpen DEF NumbersOnly
<1>5. ASSUME NEW s \in StatesOf[e], NEW a \in Attr, NEW m \in {now, ha[e].since}, Ignored(e, s, a, m)
      PROVE  NumbersOnly(e)'
  BY <1>5, IgnoredFacts DEF Blank, NumbersOnly
<1> QED BY <1>1, <1>2, <1>3, <1>4, <1>5, StepOfEntity

(* The newest sealed minute is emitted, or the gate found it near enough.  *)
LEMMA GateOfNewest ==
  ASSUME CloudBase, NEW emitted, CloudBeginFlush(emitted), NEW e \in Entity,
         Bucket[e] = "threshold", NumbersOnly(e), Sealed(e) # {}
  PROVE  LET newest == Max(Sealed(e))
         IN  /\ newest \in Sealed(e) /\ \A m \in Sealed(e) : m <= newest
             /\ sealedMean'[e] = Finalise(acc[e][newest])
             /\ sealedMean'[e].kind = "num" /\ sealedMean'[e].val \in Int
             /\ newest \notin emitted[e] =>
                  /\ lastEmitted'[e].kind = "num"
                  /\ Distance(sealedMean'[e].val, lastEmitted'[e].val) < Threshold
<1> DEFINE newest == Max(Sealed(e))
           em == emitted[e]
<1>0. TypeOK /\ BeginFlush(emitted) /\ Gated(e, em)
  BY DEF CloudBase, CloudTypeOK, CloudBeginFlush, BeginFlush
<1>1. newest \in Sealed(e) /\ (\A m \in Sealed(e) : m <= newest) /\ Sealed(e) \subseteq Minute
  <2>1. Sealed(e) \subseteq Minute \cup {Never} /\ Sealed(e) \subseteq Minute
    BY DEF Sealed, Open
  <2> QED BY <2>1, MaxOfMinutes
<1>2. {m \in Sealed(e) : acc[e][m].numeric} = Sealed(e)
  BY DEF NumbersOnly, Sealed
<1>3. sealedMean'[e] = Finalise(acc[e][newest])
  <2>1. sealedMean'[e] = IF {m \in Sealed(e) : acc[e][m].numeric} = {} THEN sealedMean[e]
                         ELSE Finalise(acc[e][Max({m \in Sealed(e) : acc[e][m].numeric})])
    BY DEF CloudBeginFlush
  <2> QED BY <1>2, <2>1
<1>4. acc[e][newest].numeric /\ Finalise(acc[e][newest]) \in State
  <2>1. acc[e][newest].numeric
    BY <1>1, <1>2
  <2>2. acc[e][newest] \in Accumulator /\ acc[e][newest].count > 0
    BY <1>0, <1>1 DEF TypeOK, Sealed, Open
  <2> QED BY <2>1, <2>2, FinaliseState
<1>5. sealedMean'[e].kind = "num" /\ sealedMean'[e].val \in Int
  BY <1>3, <1>4 DEF Finalise, Num, State
<1>6. ASSUME newest \notin em
      PROVE  /\ lastEmitted'[e].kind = "num"
             /\ Distance(sealedMean'[e].val, lastEmitted'[e].val) < Threshold
  <2>1. \A n \in em : n < newest
    <3>1. \A n \in em : n \in Int /\ newest \in Int /\ n <= newest /\ n # newest
      BY <1>0, <1>1, <1>6, CoordinatorAssumption DEF Gated, Minute
    <3> HIDE DEF newest
    <3> QED BY <3>1
  <2>2. {n \in em : n < newest} = em
    BY <2>1
  <2>3. ~PassesGate(e, acc[e][newest], Baseline(e, em))
    BY <1>0, <1>1, <1>6, <2>2 DEF Gated
  <2>4. lastEmitted'[e] = Baseline(e, em)
    BY <1>0 DEF BeginFlush
  <2>5. lastEmitted'[e].kind = "num" /\ ~(Distance(sealedMean'[e].val, lastEmitted'[e].val) >= Threshold)
    BY <1>3, <2>3, <2>4 DEF PassesGate
  <2>6. lastEmitted'[e] \in State \cup {NoState}
    BY <1>0, FlushType DEF TypeOK
  <2>7. lastEmitted'[e].val \in Int
    BY <2>6 DEF State, NoState
  <2>8. Distance(sealedMean'[e].val, lastEmitted'[e].val) \in Int
    BY <1>5, <2>7 DEF Distance
  <2> QED BY <2>5, <2>8, CoordinatorAssumption
<1> QED BY <1>1, <1>3, <1>5, <1>6

LEMMA HoldsStep ==
  ASSUME CloudBase, [CloudNext]_cvars, NEW e \in Entity, Bucket[e] = "threshold", NumbersOf(e),
         NumbersOnly(e), Holds(e)
  PROVE  Holds(e)'
<1>0. TypeOK /\ Lined /\ Sampled(e)
  BY DEF CloudBase, CloudTypeOK, Sampled
<1> SUFFICES ASSUME e \notin lost' PROVE Holds(e)'
  BY DEF Holds
<1>1. CASE Kept(e)
  BY <1>1 DEF Kept, Holds
<1>2. ASSUME NEW s \in StatesOf[e], NEW a \in Attr, NEW m \in {now, ha[e].since}, Captured(e, s, a, m)
      PROVE  Holds(e)'
  <2>1. UNCHANGED <<outgoing, latest, charted, lost, sealedMean>>
    BY <1>2 DEF Captured, CloudStateChanged, StateChanged, cloudVars
  <2>2. lastEmitted'[e] = lastEmitted[e] \/ lastEmitted'[e].kind # "num"
    <3>1. \/ lastEmitted' = lastEmitted
          \/ s.kind = "off" /\ lastEmitted'[e] = s
      BY <1>0, <1>2, SampledCapture
    <3> QED BY <3>1
  <2>3. Charts(e)' = Charts(e)
    BY <2>1, QuietCloud
  <2> QED BY <2>1, <2>2, <2>3 DEF Holds
<1>3. ASSUME NEW emitted, CloudBeginFlush(emitted) PROVE Holds(e)'
  <2> DEFINE em == emitted[e]
             newest == Max(Sealed(e))
  <2>1. e \notin lost /\ BeginFlush(emitted) /\ em \subseteq Sealed(e)
    BY <1>3 DEF CloudBeginFlush, BeginFlush, Gated
  <2>2. Charts(e)' = IF em = {} THEN Charts(e) ELSE lastEmitted'[e]
    <3>1. CASE em = {}
      <4>1. RowsOf(e, outgoing') = RowsOf(e, Queued)
        BY <1>0, <1>3, <3>1, FlushOfQuiet DEF CloudBase
      <4>2. Numeric(RowsOf(e, outgoing')) = {}
        BY <4>1 DEF NumbersOnly, Numeric
      <4> QED BY <1>0, <1>3, <3>1, <4>2, FlushTakesAll DEF Charts, CloudBase
    <3>2. CASE em # {}
      BY <1>0, <1>3, <3>2, FlushOfNumbers DEF CloudBase
    <3> QED BY <3>1, <3>2
  <2>3. em = {} => lastEmitted'[e] = lastEmitted[e]
    <3>1. lastEmitted'[e] = Baseline(e, em)
      BY <2>1 DEF BeginFlush
    <3> QED BY <3>1 DEF Baseline
  <2>4. lastEmitted'[e].kind = "num" => Charts(e)' = lastEmitted'[e]
    BY <2>1, <2>2, <2>3 DEF Holds
  <2>5. CASE Sealed(e) = {}
    <3>1. sealedMean'[e] = sealedMean[e] /\ em = {}
      BY <1>3, <2>1, <2>5 DEF CloudBeginFlush
    <3> QED BY <2>1, <2>2, <2>4, <3>1 DEF Holds
  <2>6. CASE Sealed(e) # {}
    <3>1. /\ newest \in Sealed(e) /\ \A m \in Sealed(e) : m <= newest
          /\ sealedMean'[e] = Finalise(acc[e][newest])
          /\ sealedMean'[e].kind = "num" /\ sealedMean'[e].val \in Int
          /\ newest \notin em =>
               /\ lastEmitted'[e].kind = "num"
               /\ Distance(sealedMean'[e].val, lastEmitted'[e].val) < Threshold
      BY <1>3, <2>6, GateOfNewest
    <3>2. CASE newest \in em
      <4>1. Max(em) = newest
        <5>1. Max(em) \in Sealed(e) /\ \A m \in em : m <= Max(em)
          BY <1>0, <1>3, <3>2, FlushOfNumbers DEF CloudBase
        <5>2. Max(em) <= newest /\ newest <= Max(em)
          BY <3>1, <3>2, <5>1
        <5>3. Max(em) \in Int /\ newest \in Int
          BY <3>1, <5>1, CoordinatorAssumption DEF Sealed, Open, Minute
        <5> HIDE DEF em, newest
        <5> QED BY <5>2, <5>3
      <4>2. lastEmitted'[e] = Finalise(acc[e][Max(em)])
        BY <1>0, <1>3, <3>2, FlushOfNumbers DEF CloudBase
      <4>3. lastEmitted'[e] = sealedMean'[e]
        BY <3>1, <4>1, <4>2
      <4>4. Distance(sealedMean'[e].val, sealedMean'[e].val) < Threshold
        <5>1. \A v \in Int : Distance(v, v) = 0
          BY DEF Distance
        <5> QED BY <3>1, <5>1, CoordinatorAssumption
      <4> QED BY <2>4, <3>1, <4>3, <4>4 DEF Holds
    <3>3. CASE newest \notin em
      <4>1. lastEmitted'[e].kind = "num" /\ Charts(e)' = lastEmitted'[e]
        BY <2>4, <3>1, <3>3
      <4>2. lastEmitted'[e] \in State \cup {NoState}
        BY <1>0, <2>1, FlushType DEF TypeOK
      <4>3. lastEmitted'[e].val \in Int
        BY <4>2 DEF State, NoState
      <4>4. \A x, y \in Int : Distance(x, y) = Distance(y, x)
        BY DEF Distance
      <4>5. Distance(Charts(e)'.val, sealedMean'[e].val) < Threshold
        BY <3>1, <3>3, <4>1, <4>3, <4>4
      <4> QED BY <4>1, <4>5 DEF Holds
    <3> QED BY <3>2, <3>3
  <2> QED BY <2>5, <2>6
<1>4. CASE CloudStop
  BY <1>4 DEF CloudStop, Stop, Holds, NoState
<1>5. ASSUME NEW s \in StatesOf[e], NEW a \in Attr, NEW m \in {now, ha[e].since}, Ignored(e, s, a, m)
      PROVE  Holds(e)'
  BY <1>5, IgnoredFacts DEF Blank, NoState, Holds
<1> QED BY <1>1, <1>2, <1>3, <1>4, <1>5, StepOfEntity

-----------------------------------------------------------------------------
(***************************************************************************)
(* What a capture leaves alone, and where the last minute stands.           *)
(***************************************************************************)
LEMMA CapturedFacts ==
  ASSUME CloudBase, NEW e \in Entity, NEW s \in StatesOf[e], NEW a \in Attr,
         NEW m \in {now, ha[e].since}, Captured(e, s, a, m)
  PROVE  /\ s \in State /\ m \in Minute /\ m \in Int /\ now \in Int /\ ha[e].since \in Int
         /\ ha'[e].state = s /\ ha'[e].attr = a /\ ha'[e].since = m
         /\ m = now \/ (m = ha[e].since /\ s = ha[e].state)
         /\ UNCHANGED <<now, lastFinal, lost>> /\ e \notin missed'
         /\ UNCHANGED pending => Final(e)' = Final(e) /\ RowsOf(e, Queued)' = RowsOf(e, Queued)
<1>1. TypeOK
  BY DEF CloudBase, CloudTypeOK
<1>2. s \in State /\ m \in Minute /\ m \in Int /\ now \in Int /\ ha[e].since \in Int
  BY <1>1, CoordinatorAssumption DEF TypeOK, Minute
<1>3. /\ ha'[e] = [state |-> s, attr |-> a, since |-> m]
      /\ m = now \/ (m = ha[e].since /\ s = ha[e].state)
  BY <1>1 DEF Captured, CloudStateChanged, StateChanged, Reports, TypeOK
<1>4. UNCHANGED <<now, lastFinal, lost, outgoing, latest, charted>> /\ e \notin missed'
  BY DEF Captured, CloudStateChanged, StateChanged, cloudVars
<1>5. UNCHANGED pending => RowsOf(e, Queued)' = RowsOf(e, Queued)
  BY DEF RowsOf, Queued
<1> QED BY <1>2, <1>3, <1>4, <1>5, QuietCloud

LEMMA NowGrows ==
  ASSUME TypeOK, ~ClockMayStepBack, [CloudNext]_cvars
  PROVE  now \in Int /\ now' \in Int /\ now <= now'
<1>1. now \in Int
  BY CoordinatorAssumption DEF TypeOK, Minute
<1>2. now' = now \/ now' = now + 1
  <2>1. CASE Tick
    BY <2>1 DEF Tick
  <2>2. CASE UNCHANGED now
    BY <2>2
  <2> QED
    BY <2>1, <2>2 DEF CloudNext, cvars, vars, CloudStateChanged, StateChanged,
       CloudUnheard, Unheard, Start, CloudBeginFlush, BeginFlush, ChunkArrives,
       ChunkRejected, ChunkDone, CloudFlushAborted, FlushAborted, CloudStop, Stop, ChangeGate
<1> QED BY <1>1, <1>2

(* A flush that finds nothing of an entity to seal leaves it as it was. *)
LEMMA NothingSealed ==
  ASSUME CloudBase, NEW emitted, CloudBeginFlush(emitted), NEW e \in Entity, Sealed(e) = {}
  PROVE  /\ emitted[e] = {} /\ Open(e)' = Open(e)
         /\ ha' = ha /\ lastFault' = lastFault /\ lastFinal'[e] = lastFinal[e]
         /\ lastEmitted'[e] = lastEmitted[e]
         /\ e \notin lost' => e \notin lost /\ Final(e)' = Final(e)
<1>1. TypeOK /\ Lined /\ CloudTypeOK /\ BeginFlush(emitted)
  BY DEF CloudBase, CloudTypeOK, CloudBeginFlush
<1>2. emitted[e] = {}
  BY <1>1 DEF BeginFlush, Gated
<1>3. Open(e)' = Open(e)
  BY <1>1, FlushLeaves
<1>4. lastFinal'[e] = lastFinal[e]
  <2>1. lastFinal'[e] = Max({lastFinal[e]})
    <3>1. Sealed(e) \cup {lastFinal[e]} = {lastFinal[e]}
      OBVIOUS
    <3> QED BY <1>1, <3>1 DEF BeginFlush
  <2>2. {lastFinal[e]} \subseteq Minute \cup {Never} /\ {lastFinal[e]} # {}
    BY <1>1 DEF TypeOK
  <2>3. Max({lastFinal[e]}) \in {lastFinal[e]}
    BY <2>2, MaxOfMinutes
  <2> QED BY <2>1, <2>3
<1>5. lastEmitted'[e] = lastEmitted[e]
  <2>1. lastEmitted'[e] = Baseline(e, {})
    BY <1>1, <1>2 DEF BeginFlush
  <2> QED BY <2>1 DEF Baseline
<1>6. e \notin lost' => e \notin lost /\ Final(e)' = Final(e)
  BY <1>1, <1>2, FlushOfQuiet DEF CloudBeginFlush
<1> QED BY <1>1, <1>2, <1>3, <1>4, <1>5, <1>6 DEF BeginFlush

(* stop() loses every entity that something was collected of. *)
LEMMA StopKeeps ==
  ASSUME CloudBase, CloudStop, NEW e \in Entity
  PROVE  /\ ha' = ha /\ lastFinal'[e] = Never /\ Open(e)' = {} /\ lastEmitted'[e] = NoState
         /\ RowsOf(e, Queued)' = {}
         /\ e \notin lost' => e \notin lost /\ Open(e) = {} /\ Final(e)' = Final(e)
<1>1. /\ ha' = ha /\ lastFinal'[e] = Never /\ acc'[e] = NoMinutes /\ lastEmitted'[e] = NoState
      /\ outgoing' = {} /\ pending' = << >> /\ latest' = latest
  BY DEF CloudStop, Stop
<1>2. RowsOf(e, Queued)' = {} /\ RowsOf(e, outgoing') = {}
  BY <1>1 DEF RowsOf, Queued
<1>3. ASSUME e \notin lost'
      PROVE  e \notin lost /\ Open(e) = {} /\ RowsOf(e, Queued) = {} /\ RowsOf(e, outgoing) = {}
  BY <1>3 DEF CloudStop, EntitiesOf, RowsOf, Queued
<1>4. e \notin lost' => Final(e)' = Final(e)
  BY <1>1, <1>2, <1>3 DEF Final, Shown
<1> QED BY <1>1, <1>2, <1>3, <1>4, NothingOpen

-----------------------------------------------------------------------------
(***************************************************************************)
(* Recovery of a sampled entity.  An outage that waits in the queue is no   *)
(* newer than what is open, so a value supersedes it; and while the cloud   *)
(* is bound to show an outage, the gate has no number to compare with.      *)
(***************************************************************************)
OutageIsOld(e) ==
  /\ ha[e].since <= now
  /\ \A r \in RowsOf(e, Queued) :
       /\ r.ts <= now
       /\ \A m \in Open(e) : r.ts <= m
       /\ ha[e].state.kind # "off" => r.ts <= ha[e].since

Returns(e) ==
  e \notin lost /\ Final(e).state.kind = "off" =>
    /\ lastEmitted[e].kind # "num"
    /\ lastFinal[e] < now
    /\ e \notin missed /\ ha[e].state.kind # "off" => Open(e) # {}

(* Of an entity whose newest change was missed nothing is remembered. *)
MissedIsBlank(e) == e \in missed => Blank(e)

LEMMA MissedStep ==
  ASSUME CloudBase, [CloudNext]_cvars, NEW e \in Entity, MissedIsBlank(e)
  PROVE  MissedIsBlank(e)'
<1>1. CASE Kept(e)
  BY <1>1 DEF Kept, MissedIsBlank, Blank, Open
<1>2. ASSUME NEW s \in StatesOf[e], NEW a \in Attr, NEW m \in {now, ha[e].since}, Captured(e, s, a, m)
      PROVE  MissedIsBlank(e)'
  BY <1>2, CapturedFacts DEF MissedIsBlank
<1>3. ASSUME NEW emitted, CloudBeginFlush(emitted) PROVE MissedIsBlank(e)'
  <2> SUFFICES ASSUME e \in missed' PROVE Blank(e)'
    BY DEF MissedIsBlank
  <2>1. Blank(e) /\ RowsOf(e, Queued)' = {}
    BY <1>3 DEF MissedIsBlank, CloudBeginFlush, BeginFlush, RowsOf, Queued
  <2>2. Sealed(e) = {}
    BY <2>1 DEF Blank, Sealed
  <2>3. Open(e)' = Open(e) /\ lastFinal'[e] = lastFinal[e] /\ lastEmitted'[e] = lastEmitted[e]
    BY <1>3, <2>2, NothingSealed
  <2> QED BY <2>1, <2>3 DEF Blank
<1>4. CASE CloudStop
  BY <1>4, StopKeeps DEF MissedIsBlank, Blank
<1>5. ASSUME NEW s \in StatesOf[e], NEW a \in Attr, NEW m \in {now, ha[e].since}, Ignored(e, s, a, m)
      PROVE  MissedIsBlank(e)'
  BY <1>5, IgnoredFacts DEF MissedIsBlank
<1> QED BY <1>1, <1>2, <1>3, <1>4, <1>5, StepOfEntity

LEMMA OutageStep ==
  ASSUME CloudBase, ~ClockMayStepBack, [CloudNext]_cvars, NEW e \in Entity, Sampled(e), NumbersOf(e),
         OutageIsOld(e)
  PROVE  OutageIsOld(e)'
<1>0. TypeOK /\ Lined
  BY DEF CloudBase, CloudTypeOK
<1>1. /\ now \in Int /\ now' \in Int /\ now <= now'
      /\ ha[e].since \in Int /\ \A r \in RowsOf(e, Queued) : r.ts \in Int
  <2>1. ha[e].since \in Int
    BY <1>0, CoordinatorAssumption DEF TypeOK, Minute
  <2>2. \A r \in RowsOf(e, Queued) : r.ts \in Int
    BY <1>0, QueuedRows, RowsTyped DEF RowsOf
  <2> QED BY <1>0, <2>1, <2>2, NowGrows
<1>2. CASE Kept(e)
  <2>1. Open(e)' = Open(e) /\ ha'[e] = ha[e] /\ RowsOf(e, Queued)' = RowsOf(e, Queued)
    BY <1>2 DEF Kept, Open
  <2> QED BY <1>1, <2>1 DEF OutageIsOld
<1>3. ASSUME NEW s \in StatesOf[e], NEW a \in Attr, NEW m \in {now, ha[e].since}, Captured(e, s, a, m)
      PROVE  OutageIsOld(e)'
  <2>1. /\ s \in State /\ m \in Minute /\ m \in Int
        /\ ha'[e].state = s /\ ha'[e].since = m /\ now' = now
        /\ m = now \/ (m = ha[e].since /\ s = ha[e].state)
        /\ UNCHANGED pending => RowsOf(e, Queued)' = RowsOf(e, Queued)
    BY <1>3, CapturedFacts
  <2>2. m <= now /\ (s.kind # "off" => \A r \in RowsOf(e, Queued) : r.ts <= m)
    BY <1>1, <2>1 DEF OutageIsOld
  <2>3. CASE acc'[e] = acc[e] /\ pending' = pending
    <3>1. Open(e)' = Open(e)
      BY <2>3 DEF Open
    <3> QED BY <2>1, <2>2, <2>3, <3>1 DEF OutageIsOld
  <2>4. CASE s.kind = "off" /\ acc'[e] = NoMinutes /\ EmitTransition(e, s, a, m)
    <3>1. Open(e)' = {}
      BY <2>4, NothingOpen
    <3>2. \A r \in RowsOf(e, Queued)' : r \in RowsOf(e, Queued) \/ r.ts = m
      BY <1>0, <2>1, <2>4, EmitShows
    <3> QED BY <2>1, <2>2, <2>4, <3>1, <3>2 DEF OutageIsOld
  <2>5. CASE s.kind = "num" /\ acc'[e] = [acc[e] EXCEPT ![m] = Fold(@, s)] /\ pending' = pending
    <3>1. \A n \in Open(e)' : n \in Open(e) \/ n = m
      <4>1. acc[e] \in [Minute -> Accumulator]
        BY <1>0 DEF TypeOK
      <4> QED BY <2>5, <4>1 DEF Open
    <3>2. RowsOf(e, Queued)' = RowsOf(e, Queued)
      BY <2>1, <2>5
    <3>3. \A r \in RowsOf(e, Queued), n \in Open(e)' : r.ts <= n
      BY <2>2, <2>5, <3>1 DEF OutageIsOld
    <3> QED BY <2>1, <2>2, <2>5, <3>2, <3>3 DEF OutageIsOld
  <2>6. \/ /\ TooLate(e, m) \/ (s.kind = "off" /\ lastEmitted[e] = s)
           /\ acc'[e] = acc[e] /\ lastEmitted' = lastEmitted /\ pending' = pending
        \/ /\ s.kind = "off" /\ acc'[e] = NoMinutes /\ lastEmitted'[e] = s /\ ~TooLate(e, m)
           /\ EmitTransition(e, s, a, m)
        \/ /\ s.kind = "num" /\ acc'[e] = [acc[e] EXCEPT ![m] = Fold(@, s)]
           /\ lastEmitted' = lastEmitted /\ pending' = pending
    BY <1>3, SampledCapture
  <2> HIDE <1>3
  <2> QED BY <2>3, <2>4, <2>5, <2>6
<1>4. ASSUME NEW emitted, CloudBeginFlush(emitted) PROVE OutageIsOld(e)'
  <2>1. RowsOf(e, Queued)' = {} /\ ha' = ha
    BY <1>4 DEF CloudBeginFlush, BeginFlush, RowsOf, Queued
  <2> QED BY <1>1, <2>1 DEF OutageIsOld
<1>5. CASE CloudStop
  <2>1. RowsOf(e, Queued)' = {} /\ ha' = ha
    BY <1>5, StopKeeps
  <2> QED BY <1>1, <2>1 DEF OutageIsOld
<1>6. ASSUME NEW s \in StatesOf[e], NEW a \in Attr, NEW m \in {now, ha[e].since}, Ignored(e, s, a, m)
      PROVE  OutageIsOld(e)'
  <2>1. RowsOf(e, Queued)' = {} /\ ha'[e].since \in {now, ha[e].since} /\ now' = now
    BY <1>6, IgnoredFacts DEF Blank
  <2> QED BY <1>1, <2>1 DEF OutageIsOld
<1> QED BY <1>2, <1>3, <1>4, <1>5, <1>6, StepOfEntity

(* Without a number to compare with, the gate lets the first minute pass. *)
LEMMA FirstMinutePasses ==
  ASSUME NEW emitted, CloudBeginFlush(emitted), NEW e \in Entity,
         lastEmitted[e].kind # "num", emitted[e] = {}
  PROVE  Sealed(e) = {}
<1>1. Gated(e, {})
  BY DEF CloudBeginFlush, BeginFlush
<1>2. \A m \in Sealed(e) : ~PassesGate(e, acc[e][m], Baseline(e, {n \in {} : n < m}))
  BY <1>1 DEF Gated
<1>3. ASSUME NEW m \in Sealed(e) PROVE Baseline(e, {n \in {} : n < m}) = lastEmitted[e]
  BY DEF Baseline
<1> QED BY <1>2, <1>3 DEF PassesGate

LEMMA ReturnsStep ==
  ASSUME CloudBase, ~ClockMayStepBack, [CloudNext]_cvars, NEW e \in Entity, Sampled(e), NumbersOf(e),
         NumbersOnly(e), OutageIsOld(e), MissedIsBlank(e), Returns(e)
  PROVE  Returns(e)'
<1>0. TypeOK /\ Lined /\ CloudTypeOK
  BY DEF CloudBase, CloudTypeOK
<1>1. now \in Int /\ now' \in Int /\ now <= now' /\ lastFinal[e] \in Int
  <2>1. lastFinal[e] \in Int
    BY <1>0, CoordinatorAssumption DEF TypeOK, Minute, Never
  <2> QED BY <1>0, <2>1, NowGrows
<1> SUFFICES ASSUME e \notin lost', Final(e)'.state.kind = "off"
             PROVE  /\ lastEmitted'[e].kind # "num"
                    /\ lastFinal'[e] < now'
                    /\ e \notin missed' /\ ha'[e].state.kind # "off" => Open(e)' # {}
  BY DEF Returns
<1>2. CASE Kept(e)
  <2>1. /\ Open(e)' = Open(e) /\ ha'[e] = ha[e] /\ lastEmitted'[e] = lastEmitted[e]
        /\ lastFinal'[e] = lastFinal[e] /\ e \notin lost /\ Final(e)' = Final(e)
        /\ (e \in missed' <=> e \in missed)
    BY <1>2 DEF Kept, Open
  <2> QED BY <1>1, <2>1 DEF Returns
<1>3. ASSUME NEW s \in StatesOf[e], NEW a \in Attr, NEW m \in {now, ha[e].since}, Captured(e, s, a, m)
      PROVE  /\ lastEmitted'[e].kind # "num"
             /\ lastFinal'[e] < now'
             /\ e \notin missed' /\ ha'[e].state.kind # "off" => Open(e)' # {}
  <2>1. /\ s \in State /\ m \in Minute /\ m \in Int
        /\ ha'[e].state = s
        /\ m = now \/ (m = ha[e].since /\ s = ha[e].state)
        /\ now' = now /\ lastFinal' = lastFinal /\ lost' = lost
        /\ UNCHANGED pending => Final(e)' = Final(e)
    BY <1>3, CapturedFacts
  <2>2. m <= now
    BY <1>1, <2>1 DEF OutageIsOld
  <2>3. CASE /\ TooLate(e, m) \/ s.kind = "off"
             /\ acc'[e] = acc[e] /\ lastEmitted' = lastEmitted /\ pending' = pending
    <3>1. Open(e)' = Open(e) /\ Final(e)' = Final(e)
      BY <2>1, <2>3 DEF Open
    <3>2. /\ lastEmitted[e].kind # "num" /\ lastFinal[e] < now
          /\ e \notin missed /\ ha[e].state.kind # "off" => Open(e) # {}
      BY <2>1, <3>1 DEF Returns
    <3>0. TooLate(e, m) => e \notin missed
      BY <2>1, CoordinatorAssumption DEF MissedIsBlank, Blank, TooLate, Never, Minute
    <3>3. s.kind # "off" => ha[e].state = s
      BY <1>1, <2>1, <2>3, <3>2 DEF TooLate
    <3> QED BY <2>1, <2>3, <3>0, <3>1, <3>2, <3>3
  <2>4. CASE s.kind = "off" /\ lastEmitted'[e] = s /\ ~TooLate(e, m)
    BY <1>1, <2>1, <2>2, <2>4 DEF TooLate
  <2>5. CASE /\ s.kind = "num" /\ acc'[e] = [acc[e] EXCEPT ![m] = Fold(@, s)]
             /\ lastEmitted' = lastEmitted /\ pending' = pending
    <3>1. acc[e] \in [Minute -> Accumulator] /\ acc[e][m].count \in Nat
      BY <1>0, <2>1 DEF TypeOK, Accumulator
    <3>2. acc'[e][m] = Fold(acc[e][m], s) /\ acc[e][m] \in Accumulator
      BY <2>1, <2>5, <3>1
    <3>3. acc'[e][m].count = acc[e][m].count + 1
      BY <2>5, <3>2 DEF Fold, Accumulator
    <3>4. m \in Open(e)'
      BY <2>1, <3>1, <3>3 DEF Open
    <3> QED BY <2>1, <2>5, <3>4 DEF Returns
  <2>6. \/ /\ TooLate(e, m) \/ (s.kind = "off" /\ lastEmitted[e] = s)
           /\ acc'[e] = acc[e] /\ lastEmitted' = lastEmitted /\ pending' = pending
        \/ /\ s.kind = "off" /\ acc'[e] = NoMinutes /\ lastEmitted'[e] = s /\ ~TooLate(e, m)
           /\ EmitTransition(e, s, a, m)
        \/ /\ s.kind = "num" /\ acc'[e] = [acc[e] EXCEPT ![m] = Fold(@, s)]
           /\ lastEmitted' = lastEmitted /\ pending' = pending
    BY <1>3, SampledCapture
  <2> HIDE <1>3
  <2> QED BY <2>3, <2>4, <2>5, <2>6
<1>4. ASSUME NEW emitted, CloudBeginFlush(emitted)
      PROVE  /\ lastEmitted'[e].kind # "num"
             /\ lastFinal'[e] < now'
             /\ e \notin missed' /\ ha'[e].state.kind # "off" => Open(e)' # {}
  <2>1. emitted[e] = {}
    <3>1. CASE emitted[e] # {}
      <4>1. lastEmitted'[e].kind = "num"
        BY <1>0, <1>4, <3>1, FlushOfNumbers
      <4>2. Final(e)'.state = lastEmitted'[e]
        BY <1>0, <1>4, <3>1, FlushOfNumbers DEF OutageIsOld
      <4> QED BY <4>1, <4>2
    <3> QED BY <3>1
  <2>2. e \notin lost /\ Final(e)' = Final(e)
    BY <1>0, <1>4, <2>1, FlushOfQuiet DEF CloudBeginFlush
  <2>3. Sealed(e) = {}
    BY <1>4, <2>1, <2>2, FirstMinutePasses DEF Returns
  <2>4. /\ Open(e)' = Open(e) /\ ha' = ha /\ lastFinal'[e] = lastFinal[e]
        /\ lastEmitted'[e] = lastEmitted[e]
    BY <1>4, <2>3, NothingSealed
  <2>5. missed' = missed
    BY <1>4 DEF CloudBeginFlush
  <2> QED BY <1>1, <2>2, <2>4, <2>5 DEF Returns
<1>5. CASE CloudStop
  <2>1. /\ ha' = ha /\ lastFinal'[e] = Never /\ lastEmitted'[e] = NoState
        /\ e \notin lost /\ Open(e) = {} /\ Final(e)' = Final(e) /\ missed' = missed
    BY <1>5, StopKeeps DEF CloudStop
  <2>2. now' \in Minute
    BY <1>0, <1>5 DEF CloudStop, Stop, TypeOK
  <2> QED BY <2>1, <2>2, CoordinatorAssumption DEF Returns, NoState, Never, Minute
<1>6. ASSUME NEW s \in StatesOf[e], NEW a \in Attr, NEW m \in {now, ha[e].since}, Ignored(e, s, a, m)
      PROVE  /\ lastEmitted'[e].kind # "num"
             /\ lastFinal'[e] < now'
             /\ e \notin missed' /\ ha'[e].state.kind # "off" => Open(e)' # {}
  <2>1. Blank(e)' /\ e \in missed' /\ now' = now /\ now \in Minute
    BY <1>0, <1>6, IgnoredFacts DEF TypeOK
  <2> QED BY <2>1, CoordinatorAssumption DEF Blank, NoState, Never, Minute
<1> QED BY <1>2, <1>3, <1>4, <1>5, <1>6, StepOfEntity

(* At rest, the cloud shows what it was bound to show. *)
LEMMA RestShows ==
  ASSUME NEW e \in Entity, AtRest(e)
  PROVE  Final(e) = latest[e] /\ Open(e) = {} /\ e \notin lost
<1>1. RowsOf(e, Queued) = {} /\ RowsOf(e, outgoing) = {}
  BY DEF AtRest, RowsOf, Queued
<1> QED BY <1>1 DEF Final, Shown, AtRest

-----------------------------------------------------------------------------
(***************************************************************************)
(* Latest-only entities.  Nothing of them is ever open or sealed, the last  *)
(* emitted state is Home Assistant's, and so is what the cloud will show.  *)
(***************************************************************************)
Words(e) == Bucket[e] = "fault" /\ ha[e].state.kind # "off"

Follows(e) ==
  /\ lastFinal[e] = Never
  /\ Open(e) = {}
  /\ Known(e) => /\ lastEmitted[e] = ha[e].state
                 /\ Words(e) => lastFault[e] = ha[e].attr
  /\ e \notin lost /\ Known(e) =>
       /\ Final(e).state = ha[e].state
       /\ Words(e) => Final(e).attr = ha[e].attr
  /\ e \notin lost /\ e \notin missed /\ ~Known(e) /\ ha[e].state.kind # "off" => Final(e).state.kind # "off"

LEMMA LatestCapture ==
  ASSUME CloudBase, NEW e \in Entity, ~Sampled(e), lastFinal[e] = Never, NEW s \in StatesOf[e],
         NEW a \in Attr, NEW m \in {now, ha[e].since}, Captured(e, s, a, m)
  PROVE  /\ acc'[e] = acc[e] \/ acc'[e] = NoMinutes
         /\ \/ /\ lastEmitted[e] = s
               /\ Bucket[e] = "fault" /\ s.kind # "off" => lastFault[e] = a
               /\ lastEmitted' = lastEmitted /\ lastFault' = lastFault /\ pending' = pending
            \/ /\ EmitTransition(e, s, a, m)
               /\ Bucket[e] = "fault" /\ s.kind # "off" => lastFault'[e] = a
<1>0. TypeOK /\ s \in State /\ m \in Minute
  BY CapturedFacts DEF CloudBase, CloudTypeOK
<1>1. ~TooLate(e, m)
  BY <1>0, CoordinatorAssumption DEF TooLate, Never, Minute
<1>2. CASE CaptureOutage(e, s, a, m)
  <2>1. CASE lastEmitted[e] = s
    BY <1>2, <2>1 DEF CaptureOutage, captureVars
  <2>2. CASE lastEmitted[e] # s
    BY <1>0, <1>2, <2>2 DEF CaptureOutage, TypeOK
  <2> QED BY <2>1, <2>2
<1>3. CASE CaptureTransition(e, s, a, m)
  <2>1. CASE SameValue(e, s, a)
    BY <1>3, <2>1 DEF CaptureTransition, SameValue, captureVars
  <2>2. CASE ~SameValue(e, s, a)
    BY <1>0, <1>3, <2>2 DEF CaptureTransition, TypeOK
  <2> QED BY <2>1, <2>2
<1>4. ~CaptureSample(e, s, m)
  BY DEF CaptureSample, Sampled
<1> QED BY <1>1, <1>2, <1>3, <1>4 DEF Captured, CloudStateChanged, StateChanged, DropLate

LEMMA FollowsStep ==
  ASSUME CloudBase, [CloudNext]_cvars, NEW e \in Entity, ~Sampled(e), Follows(e)
  PROVE  Follows(e)'
<1>0. TypeOK /\ Lined /\ CloudTypeOK /\ NoState \notin State
  BY DEF CloudBase, CloudTypeOK, NoState, State
<1>1. CASE Kept(e)
  <2>1. /\ Open(e)' = Open(e) /\ ha'[e] = ha[e] /\ lastEmitted'[e] = lastEmitted[e]
        /\ lastFinal'[e] = lastFinal[e] /\ lastFault'[e] = lastFault[e]
        /\ (e \in missed' <=> e \in missed)
        /\ e \notin lost' => e \notin lost /\ Final(e)' = Final(e)
    BY <1>1 DEF Kept, Open
  <2> QED BY <2>1 DEF Follows, Known, Words
<1>2. ASSUME NEW s \in StatesOf[e], NEW a \in Attr, NEW m \in {now, ha[e].since}, Captured(e, s, a, m)
      PROVE  Follows(e)'
  <2>1. /\ s \in State /\ m \in Minute
        /\ ha'[e].state = s /\ ha'[e].attr = a
        /\ lastFinal' = lastFinal /\ lost' = lost
        /\ UNCHANGED pending => Final(e)' = Final(e)
    BY <1>2, CapturedFacts
  <2>2. lastFinal'[e] = Never /\ Open(e)' = {}
    <3>1. acc'[e] = acc[e] \/ acc'[e] = NoMinutes
      BY <1>2, LatestCapture DEF Follows
    <3>2. acc'[e] = acc[e] => Open(e)' = Open(e)
      BY DEF Open
    <3> QED BY <2>1, <3>1, <3>2, NothingOpen DEF Follows
  <2>3. CASE /\ lastEmitted[e] = s
             /\ Bucket[e] = "fault" /\ s.kind # "off" => lastFault[e] = a
             /\ lastEmitted' = lastEmitted /\ lastFault' = lastFault /\ pending' = pending
    <3>1. Known(e) /\ Known(e)' /\ ha[e].state = s
      BY <1>0, <2>1, <2>3 DEF Known, Follows
    <3>2. Final(e)' = Final(e)
      BY <2>1, <2>3
    <3>3. Bucket[e] = "fault" /\ s.kind # "off" => lastFault[e] = a /\ ha[e].attr = a
      BY <2>3, <3>1 DEF Follows, Words
    <3> QED BY <2>1, <2>2, <2>3, <3>1, <3>2, <3>3 DEF Follows, Words
  <2>4. CASE /\ EmitTransition(e, s, a, m)
             /\ Bucket[e] = "fault" /\ s.kind # "off" => lastFault'[e] = a
    <3>1. Final(e)' = [state |-> s, attr |-> a]
      BY <1>0, <2>1, <2>4, EmitShows
    <3>2. lastEmitted'[e] = s
      BY <1>0, <2>4 DEF EmitTransition, TypeOK
    <3>3. Known(e)'
      BY <1>0, <2>1, <3>2 DEF Known
    <3> QED BY <2>1, <2>2, <2>4, <3>1, <3>2, <3>3 DEF Follows, Words
  <2>5. \/ /\ lastEmitted[e] = s
           /\ Bucket[e] = "fault" /\ s.kind # "off" => lastFault[e] = a
           /\ lastEmitted' = lastEmitted /\ lastFault' = lastFault /\ pending' = pending
        \/ /\ EmitTransition(e, s, a, m)
           /\ Bucket[e] = "fault" /\ s.kind # "off" => lastFault'[e] = a
    BY <1>2, LatestCapture DEF Follows
  <2> HIDE <1>2
  <2> QED BY <2>3, <2>4, <2>5
<1>3. ASSUME NEW emitted, CloudBeginFlush(emitted) PROVE Follows(e)'
  <2>1. Sealed(e) = {}
    BY DEF Follows, Sealed
  <2>2. /\ Open(e)' = Open(e) /\ ha' = ha /\ lastFinal'[e] = lastFinal[e]
        /\ lastFault' = lastFault /\ lastEmitted'[e] = lastEmitted[e] /\ missed' = missed
        /\ e \notin lost' => e \notin lost /\ Final(e)' = Final(e)
    BY <1>3, <2>1, NothingSealed DEF CloudBeginFlush
  <2> QED BY <2>2 DEF Follows, Known, Words
<1>4. CASE CloudStop
  <2>1. /\ ha' = ha /\ lastFinal'[e] = Never /\ lastEmitted'[e] = NoState /\ Open(e)' = {}
        /\ missed' = missed
        /\ e \notin lost' => e \notin lost /\ Final(e)' = Final(e)
    BY <1>4, StopKeeps DEF CloudStop
  <2> QED BY <2>1 DEF Follows, Known, Words
<1>5. ASSUME NEW s \in StatesOf[e], NEW a \in Attr, NEW m \in {now, ha[e].since}, Ignored(e, s, a, m)
      PROVE  Follows(e)'
  BY <1>5, IgnoredFacts DEF Blank, Follows, Known
<1> QED BY <1>1, <1>2, <1>3, <1>4, <1>5, StepOfEntity

-----------------------------------------------------------------------------
(***************************************************************************)
(* The theorems about the cloud.                                           *)
(***************************************************************************)
LEMMA InitCloud ==
  ASSUME CloudInit
  PROVE  /\ CloudBase
         /\ \A e \in Entity : NumbersOnly(e) /\ Holds(e) /\ OutageIsOld(e) /\ MissedIsBlank(e)
                            /\ Returns(e) /\ Follows(e)
<1>1. TypeOK
  BY InitType DEF CloudInit
<1>2. outgoing = {} /\ pending = << >> /\ Queued = {}
  BY DEF CloudInit, Init, Fresh, Queued
<1>3. CloudBase
  <2>1. Lined
    BY <1>2, CoordinatorAssumption DEF Lined, Ordered
  <2>2. Idle
    BY DEF CloudInit, Init, Idle
  <2> QED BY <1>1, <2>1, <2>2 DEF CloudInit, CloudBase, CloudTypeOK, NothingYet
<1>4. ASSUME NEW e \in Entity
      PROVE  NumbersOnly(e) /\ Holds(e) /\ OutageIsOld(e) /\ MissedIsBlank(e)
                            /\ Returns(e) /\ Follows(e)
  <2>1. /\ acc[e] = NoMinutes /\ lastFinal[e] = Never /\ lastEmitted[e] = NoState
        /\ latest[e] = NothingYet /\ sealedMean[e] = NoState /\ now = 1
    BY DEF CloudInit, Init, Fresh
  <2>2. Open(e) = {}
    BY <2>1 DEF Open, NoMinutes, NoSamples
  <2>3. RowsOf(e, Queued) = {} /\ RowsOf(e, outgoing) = {}
    BY <1>2 DEF RowsOf
  <2>4. Final(e) = NothingYet
    BY <2>1, <2>3 DEF Final, Shown
  <2>5. ha[e].since = 0
    BY DEF CloudInit, Init
  <2>6. ~Known(e) /\ Final(e).state = NoState
    BY <2>1, <2>4 DEF Known, NothingYet
  <2>7. NumbersOnly(e) /\ Holds(e)
    BY <2>1, <2>2, <2>3 DEF NumbersOnly, Holds, NoState
  <2>8. OutageIsOld(e)
    BY <2>1, <2>3, <2>5 DEF OutageIsOld
  <2>9. MissedIsBlank(e) /\ Returns(e) /\ Follows(e)
    BY <2>1, <2>2, <2>6 DEF CloudInit, MissedIsBlank, Returns, Follows, NoState
  <2> QED BY <2>7, <2>8, <2>9
<1> QED BY <1>3, <1>4

LEMMA NextCloudBase == CloudBase /\ [CloudNext]_cvars => CloudBase'
<1> SUFFICES ASSUME CloudBase, [CloudNext]_cvars PROVE CloudBase'
  OBVIOUS
<1>1. CASE UNCHANGED cvars
  <2>1. TypeOK'
    BY <1>1, NextType DEF CloudBase, CloudTypeOK, cvars
  <2> QED BY <1>1, <2>1 DEF cvars, vars, cloudVars, CloudBase, CloudTypeOK, Lined, Ordered, Idle, Fresh
<1>2. CASE CloudNext
  BY <1>2, CaptureBase, UnheardBase, FlushBase, ChunkBase, OtherBase DEF CloudNext
<1> QED BY <1>1, <1>2

(* Every variable keeps its type, the cloud's records included. *)
THEOREM CloudTypeCorrect == CloudSpec => []CloudTypeOK
<1>1. CloudInit => CloudBase
  BY InitCloud
<1>2. CloudBase => CloudTypeOK
  BY DEF CloudBase
<1> QED BY <1>1, <1>2, NextCloudBase, PTL DEF CloudSpec

(* What a latest-only entity shows in the cloud at rest is what Home       *)
(* Assistant shows: no transition is lost to the re-fire check.            *)
THEOREM Transitions == CloudSpec => []TransitionsConverge
<1> DEFINE CInv == CloudBase /\ \A e \in Entity : ~Sampled(e) => Follows(e)
<1>1. CloudInit => CInv
  BY InitCloud
<1>2. CInv /\ [CloudNext]_cvars => CInv'
  <2>1. ASSUME CInv, [CloudNext]_cvars, NEW e \in Entity, ~Sampled(e) PROVE Follows(e)'
    BY <2>1, FollowsStep
  <2> QED BY <2>1, NextCloudBase DEF Sampled
<1>3. CInv => TransitionsConverge
  <2> SUFFICES ASSUME CInv, NEW e \in Entity, Bucket[e] \in {"latest_only", "fault"}, AtRest(e), Known(e)
               PROVE  /\ latest[e].state = ha[e].state
                      /\ Bucket[e] = "fault" /\ ha[e].state.kind # "off" => latest[e].attr = ha[e].attr
    BY DEF TransitionsConverge
  <2>1. Follows(e)
    BY DEF Sampled
  <2> QED BY <2>1, RestShows DEF Follows, Words
<1> QED BY <1>1, <1>2, <1>3, PTL DEF CloudSpec

(* A threshold entity that reports numbers or outages: the chart's last    *)
(* value is within the threshold of the newest finalised mean.             *)
THEOREM HoldLast ==
  ASSUME \A e \in Entity : Bucket[e] = "threshold" => NumbersOf(e)
  PROVE  CloudSpec => []HoldLastTracks
<1> DEFINE HInv == CloudBase /\ \A e \in Entity : Bucket[e] = "threshold" => NumbersOnly(e) /\ Holds(e)
<1>1. CloudInit => HInv
  BY InitCloud
<1>2. HInv /\ [CloudNext]_cvars => HInv'
  <2>1. ASSUME HInv, [CloudNext]_cvars, NEW e \in Entity, Bucket[e] = "threshold"
        PROVE  NumbersOnly(e)' /\ Holds(e)'
    BY <2>1, NumbersStep, HoldsStep DEF Sampled
  <2> QED BY <2>1, NextCloudBase
<1>3. HInv => HoldLastTracks
  <2> SUFFICES ASSUME HInv, NEW e \in Entity, Bucket[e] = "threshold", e \notin lost, outgoing = {},
                      sealedMean[e].kind = "num"
               PROVE  /\ charted[e].kind = "num"
                      /\ Distance(charted[e].val, sealedMean[e].val) < Threshold
    BY DEF HoldLastTracks
  <2>1. Charts(e) = charted[e]
    BY DEF Charts, RowsOf, Numeric
  <2> QED BY <2>1 DEF Holds
<1> QED BY <1>1, <1>2, <1>3, PTL DEF CloudSpec

(* No entity that is back stays unavailable in the cloud, over any number   *)
(* of reloads, if its return was heard, the wall clock is not set back and  *)
(* the sampled entities report numbers or outages.                         *)
THEOREM RecoveredShows ==
  ASSUME ~ClockMayStepBack, \A e \in Entity : Sampled(e) => NumbersOf(e)
  PROVE  CloudSpec => []RecoverySurfaces
<1> DEFINE RInv == /\ CloudBase
                   /\ \A e \in Entity : IF Sampled(e) THEN NumbersOnly(e) /\ OutageIsOld(e)
                                                       /\ MissedIsBlank(e) /\ Returns(e)
                                        ELSE Follows(e)
<1>1. CloudInit => RInv
  BY InitCloud
<1>2. RInv /\ [CloudNext]_cvars => RInv'
  <2>1. ASSUME RInv, [CloudNext]_cvars, NEW e \in Entity, Sampled(e)
        PROVE  NumbersOnly(e)' /\ OutageIsOld(e)' /\ MissedIsBlank(e)' /\ Returns(e)'
    BY <2>1, NumbersStep, OutageStep, MissedStep, ReturnsStep
  <2>2. ASSUME RInv, [CloudNext]_cvars, NEW e \in Entity, ~Sampled(e) PROVE Follows(e)'
    BY <2>2, FollowsStep
  <2> QED BY <2>1, <2>2, NextCloudBase DEF Sampled
<1>3. RInv => RecoverySurfaces
  <2> SUFFICES ASSUME RInv, NEW e \in Entity, AtRest(e), e \notin missed, ha[e].state.kind # "off"
               PROVE  latest[e].state.kind # "off"
    BY DEF RecoverySurfaces
  <2>1. CASE Sampled(e)
    BY <2>1, RestShows DEF Returns
  <2>2. CASE ~Sampled(e)
    BY <2>2, RestShows DEF Follows
  <2> QED BY <2>1, <2>2
<1> QED BY <1>1, <1>2, <1>3, PTL DEF CloudSpec
=============================================================================
