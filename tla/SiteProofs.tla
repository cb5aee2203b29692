------------------------------ MODULE SiteProofs ------------------------------
(***************************************************************************)
(* What holds of Site for any keys and accounts, any versions and any       *)
(* number of concurrent commands, any entities and limits: types, that no  *)
(* restart is pointless, that an entry is never moved to another account,  *)
(* and that a snapshot finds the devices.                                  *)
(***************************************************************************)
EXTENDS Site, FiniteSetTheorems, TLAPS

(***************************************************************************)
(* The first max of a finite set in a strict total order are no more than  *)
(* max: their ranks are different numbers below max.                       *)
(***************************************************************************)
Ahead(S, R, e) == {f \in S : <<f, e>> \in R}
StrictOrder(S, R) ==
  /\ \A e \in S : <<e, e>> \notin R
  /\ \A e, f, g \in S : <<e, f>> \in R /\ <<f, g>> \in R => <<e, g>> \in R
  /\ \A e, f \in S : e = f \/ <<e, f>> \in R \/ <<f, e>> \in R

LEMMA RanksDiffer ==
  ASSUME NEW S, IsFiniteSet(S), NEW R, StrictOrder(S, R), NEW e \in S, NEW f \in S, <<e, f>> \in R
  PROVE  Cardinality(Ahead(S, R, e)) # Cardinality(Ahead(S, R, f))
<1>1. Ahead(S, R, e) \in SUBSET Ahead(S, R, f)
  BY DEF Ahead, StrictOrder
<1>2. e \in Ahead(S, R, f) /\ e \notin Ahead(S, R, e)
  BY DEF Ahead, StrictOrder
<1>3. Ahead(S, R, f) \in SUBSET S
  BY DEF Ahead
<1>4. IsFiniteSet(Ahead(S, R, f))
  BY <1>3, FS_Subset
<1> QED BY <1>1, <1>2, <1>4, FS_Subset

LEMMA FirstAreFew ==
  ASSUME NEW S, IsFiniteSet(S), NEW R, StrictOrder(S, R), NEW max \in Nat
  PROVE  LET first == {e \in S : Cardinality(Ahead(S, R, e)) < max}
         IN  IsFiniteSet(first) /\ Cardinality(first) <= max
<1> DEFINE first == {e \in S : Cardinality(Ahead(S, R, e)) < max}
           rank  == [e \in first |-> Cardinality(Ahead(S, R, e))]
<1>1. \A e \in S : Cardinality(Ahead(S, R, e)) \in Nat
  <2> SUFFICES ASSUME NEW e \in S PROVE Cardinality(Ahead(S, R, e)) \in Nat
    OBVIOUS
  <2>1. Ahead(S, R, e) \in SUBSET S
    BY DEF Ahead
  <2>2. IsFiniteSet(Ahead(S, R, e))
    BY <2>1, FS_Subset
  <2> QED BY <2>2, FS_CardinalityType
<1>2. \A e, f \in first : rank[e] = rank[f] => e = f
  <2> SUFFICES ASSUME NEW e \in first, NEW f \in first, e # f PROVE rank[e] # rank[f]
    OBVIOUS
  <2>1. <<e, f>> \in R \/ <<f, e>> \in R
    BY DEF StrictOrder
  <2> QED BY <2>1, RanksDiffer
<1>3. rank \in [first -> 0 .. max - 1]
  BY <1>1
<1>4. rank \in Injection(first, 0 .. max - 1)
  BY <1>2, <1>3 DEF Injection, IsInjective
<1>5. IsFiniteSet(0 .. max - 1) /\ Cardinality(0 .. max - 1) = max
  <2>1. 0 \in Int /\ max - 1 \in Int
    OBVIOUS
  <2>2. /\ IsFiniteSet(0 .. max - 1)
        /\ Cardinality(0 .. max - 1) = IF 0 > max - 1 THEN 0 ELSE (max - 1) - 0 + 1
    BY <2>1, FS_Interval
  <2> QED BY <2>2
<1> HIDE DEF first, rank
<1>6. IsFiniteSet(first) /\ Cardinality(first) <= Cardinality(0 .. max - 1)
  BY <1>4, <1>5, FS_Injection
<1>7. IsFiniteSet(first) /\ Cardinality(first) <= max
  BY <1>5, <1>6
<1> QED BY <1>7 DEF first

(* The two orders of a snapshot. *)
IdPairs(S) == {p \in S \X S : IdOrder[p[1]] < IdOrder[p[2]]}
SortPairs(S, names) == {p \in S \X S : SortsBefore(names, p[1], p[2])}

LEMMA IdsInOrder ==
  ASSUME NEW S \in SUBSET Entities
  PROVE  StrictOrder(S, IdPairs(S))
<1>1. \A e \in S : IdOrder[e] \in Nat
  BY SiteAssumption
<1>2. \A e, f \in S : <<e, f>> \in IdPairs(S) <=> IdOrder[e] < IdOrder[f]
  BY DEF IdPairs
<1>3. \A e, f \in S : IdOrder[e] = IdOrder[f] => e = f
  BY SiteAssumption
<1> QED BY <1>1, <1>2, <1>3 DEF StrictOrder

LEMMA TierTyped == \A domain : DomainTier(domain) \in 0 .. 2
<1> QED BY DEF DomainTier

LEMMA SortInOrder ==
  ASSUME NEW S \in SUBSET Entities, NEW names
  PROVE  StrictOrder(S, SortPairs(S, names))
<1> DEFINE tier(e) == DomainTier(DomainOf[e])
           unnamed(e) == IF e \in names THEN 0 ELSE 1
<1>1. \A e, f \in S : <<e, f>> \in SortPairs(S, names) <=>
        \/ tier(e) < tier(f)
        \/ tier(e) = tier(f) /\ unnamed(e) < unnamed(f)
        \/ tier(e) = tier(f) /\ unnamed(e) = unnamed(f) /\ IdOrder[e] < IdOrder[f]
  BY DEF SortPairs, SortsBefore
<1>2. \A e \in S : tier(e) \in Nat /\ unnamed(e) \in Nat /\ IdOrder[e] \in Nat
  BY TierTyped, SiteAssumption
<1>3. \A e, f \in S : IdOrder[e] = IdOrder[f] => e = f
  BY SiteAssumption
<1> HIDE DEF tier, unnamed
<1> QED BY <1>1, <1>2, <1>3 DEF StrictOrder

(* What a snapshot lists of an index: no more than the limits allow. *)
LEMMA RegistryFits ==
  ASSUME NEW idx \in Indexes
  PROVE  /\ EntityRegistry(idx) \subseteq idx.ids
         /\ Cardinality(EntityRegistry(idx)) <= MaxEntityRegistry
         /\ EntityClassifications(idx) \subseteq idx.ids
         /\ Cardinality(EntityClassifications(idx)) <= MaxClassifications
<1>0. idx.ids \in SUBSET Entities /\ MaxEntityRegistry \in Nat /\ MaxClassifications \in Nat
  BY SiteAssumption DEF Indexes
<1>1. PICK S \in SUBSET Entities : S = {e \in idx.ids : DomainOf[e] \in ControllableDomains \/ e \in idx.names}
  BY <1>0
<1>2. EntityRegistry(idx) = {e \in S : Cardinality(Ahead(S, SortPairs(S, idx.names), e)) < MaxEntityRegistry}
  <2>1. EntityRegistry(idx) = {e \in S : Cardinality({f \in S : SortsBefore(idx.names, f, e)}) < MaxEntityRegistry}
    BY <1>1 DEF EntityRegistry, Capped
  <2>2. \A e \in S : {f \in S : SortsBefore(idx.names, f, e)} = Ahead(S, SortPairs(S, idx.names), e)
    BY DEF Ahead, SortPairs
  <2> QED BY <2>1, <2>2
<1>3. Cardinality(EntityRegistry(idx)) <= MaxEntityRegistry
  <2>1. IsFiniteSet(S)
    BY SiteAssumption, FS_Subset
  <2> QED BY <1>0, <1>2, <2>1, SortInOrder, FirstAreFew
<1>4. PICK E \in SUBSET Entities : E = idx.ids \cap EnergyEntities
  BY <1>0
<1>5. EntityClassifications(idx) = {e \in E : Cardinality(Ahead(E, IdPairs(E), e)) < MaxClassifications}
  <2>1. EntityClassifications(idx) = {e \in E : Cardinality({f \in E : IdOrder[f] < IdOrder[e]}) < MaxClassifications}
    BY <1>4 DEF EntityClassifications, Capped
  <2>2. \A e \in E : {f \in E : IdOrder[f] < IdOrder[e]} = Ahead(E, IdPairs(E), e)
    BY DEF Ahead, IdPairs
  <2> QED BY <2>1, <2>2
<1>6. Cardinality(EntityClassifications(idx)) <= MaxClassifications
  <2>1. IsFiniteSet(E)
    BY SiteAssumption, FS_Subset
  <2> QED BY <1>0, <1>5, <2>1, IdsInOrder, FirstAreFew
<1> QED BY <1>1, <1>2, <1>3, <1>4, <1>5, <1>6

(* Where at most max are eligible and those ahead of one are among them,    *)
(* that one is listed.                                                     *)
LEMMA FewAhead ==
  ASSUME NEW S, IsFiniteSet(S), NEW A \in SUBSET S, NEW e \in S, e \notin A, NEW max \in Nat,
         Cardinality(S) <= max
  PROVE  Cardinality(A) < max
<1>1. IsFiniteSet(A) /\ Cardinality(A) <= Cardinality(S) /\ Cardinality(A) # Cardinality(S)
  BY FS_Subset
<1>2. Cardinality(A) \in Nat /\ Cardinality(S) \in Nat
  BY <1>1, FS_CardinalityType
<1> QED BY <1>1, <1>2

LEMMA DevicesFound ==
  ASSUME NEW idx \in Indexes
  PROVE  LET devices == {e \in idx.ids : DomainOf[e] \in RealDeviceDomains}
             energy  == idx.ids \cap EnergyEntities
         IN  /\ Cardinality(devices) <= MaxEntityRegistry => devices \subseteq EntityRegistry(idx)
             /\ Cardinality(energy) <= MaxClassifications => energy \subseteq EntityClassifications(idx)
<1> DEFINE devices == {e \in idx.ids : DomainOf[e] \in RealDeviceDomains}
           energy  == idx.ids \cap EnergyEntities
<1>0. /\ idx.ids \in SUBSET Entities /\ MaxEntityRegistry \in Nat /\ MaxClassifications \in Nat
      /\ IsFiniteSet(devices) /\ IsFiniteSet(energy)
  <2>1. idx.ids \in SUBSET Entities
    BY DEF Indexes
  <2>2. devices \in SUBSET Entities /\ energy \in SUBSET Entities
    BY <2>1
  <2> QED BY <2>1, <2>2, FS_Subset, SiteAssumption
<1>1. ASSUME Cardinality(devices) <= MaxEntityRegistry PROVE devices \subseteq EntityRegistry(idx)
  <2> SUFFICES ASSUME NEW d \in devices PROVE d \in EntityRegistry(idx)
    OBVIOUS
  <2>1. PICK S : S = {e \in idx.ids : DomainOf[e] \in ControllableDomains \/ e \in idx.names}
    OBVIOUS
  <2>2. d \in S
    BY <2>1 DEF ControllableDomains
  <2>3. PICK A : A = {f \in S : SortsBefore(idx.names, f, d)}
    OBVIOUS
  <2>4. A \in SUBSET devices
    <3> SUFFICES ASSUME NEW f \in S, SortsBefore(idx.names, f, d) PROVE f \in devices
      BY <2>3
    <3>1. DomainTier(DomainOf[d]) = 0
      <4>1. DomainOf[d] \in RealDeviceDomains /\ DomainOf[d] \notin ConfigKnobDomains
        BY DEF RealDeviceDomains, ConfigKnobDomains
      <4> QED BY <4>1 DEF DomainTier
    <3>2. DomainTier(DomainOf[f]) <= DomainTier(DomainOf[d])
      BY TierTyped DEF SortsBefore
    <3>3. DomainTier(DomainOf[f]) = 0
      BY <3>1, <3>2, TierTyped
    <3>4. DomainOf[f] \in RealDeviceDomains
      BY <3>3 DEF DomainTier
    <3> QED BY <2>1, <3>4
  <2>5. d \notin A
    <3>1. IdOrder[d] \in Nat /\ DomainTier(DomainOf[d]) \in Nat
      BY <1>0, SiteAssumption, TierTyped
    <3> QED BY <2>3, <3>1 DEF SortsBefore
  <2>6. Cardinality(A) < MaxEntityRegistry
    BY <1>0, <1>1, <2>4, <2>5, FewAhead
  <2>7. EntityRegistry(idx) = {e \in S : Cardinality({f \in S : SortsBefore(idx.names, f, e)}) < MaxEntityRegistry}
    BY <2>1 DEF EntityRegistry, Capped
  <2> QED BY <2>2, <2>3, <2>6, <2>7
<1>2. ASSUME Cardinality(energy) <= MaxClassifications PROVE energy \subseteq EntityClassifications(idx)
  <2> SUFFICES ASSUME NEW d \in energy PROVE d \in EntityClassifications(idx)
    OBVIOUS
  <2>1. PICK A : A = {f \in energy : IdOrder[f] < IdOrder[d]}
    OBVIOUS
  <2>2. A \in SUBSET energy /\ d \notin A
    <3>1. IdOrder[d] \in Nat
      BY <1>0, SiteAssumption
    <3> QED BY <2>1, <3>1
  <2>3. Cardinality(A) < MaxClassifications
    BY <1>0, <1>2, <2>2, FewAhead
  <2>4. EntityClassifications(idx) = {e \in energy : Cardinality({f \in energy : IdOrder[f] < IdOrder[e]}) < MaxClassifications}
    BY DEF EntityClassifications, Capped
  <2> QED BY <2>1, <2>3, <2>4
<1> QED BY <1>1, <1>2

-----------------------------------------------------------------------------
(***************************************************************************)
(* The inductive invariant: a version that is being installed, or was,      *)
(* does not run yet, and then the one on disk does not either.             *)
(***************************************************************************)
NotRunning(h) == handler[h].stage \in {"refresh", "install", "started", "delay"}
                   => handler[h].version # running
Staged(h) == handler[h].stage \in {"started", "delay"} => staged # running
UpdateInv == NoPointlessRestart /\ \A h \in Handlers : NotRunning(h) /\ Staged(h)

SiteInv == SiteTypeOK /\ UpdateInv


HandlerLocal ==
  {Idle} \cup [stage : {"refresh", "install", "noop", "started", "error", "delay"},
               version : Versions, current : BOOLEAN] \cup
  [stage : {"error"}, version : {Malformed}, current : BOOLEAN]

LEMMA HandlerTyped ==
  ASSUME UpdateTypeOK, NEW h \in Handlers
  PROVE  /\ handler[h] \in HandlerLocal
         /\ handler[h].stage # "idle" => handler[h] \in HandlerLocal \ {Idle}
                                         /\ handler[h].version \in Pins
                                         /\ handler[h].current \in BOOLEAN
         /\ handler[h].stage \notin {"idle", "error"} => handler[h].version \in Versions
<1>1. handler[h] \in HandlerLocal
  BY DEF UpdateTypeOK, HandlerLocal
<1> QED BY <1>1 DEF HandlerLocal, Idle, Pins

LEMMA HandlerGoes ==
  ASSUME UpdateTypeOK, NEW h \in Handlers, NEW value \in HandlerLocal,
         handler' = [handler EXCEPT ![h] = value]
  PROVE  /\ handler' \in [Handlers -> HandlerLocal] /\ handler'[h] = value
         /\ \A g \in Handlers \ {h} : handler'[g] = handler[g]
<1> QED BY DEF UpdateTypeOK, HandlerLocal

(* One handler moves; what is installed and what runs stay apart. *)
LEMMA HandlerMoves ==
  ASSUME UpdateTypeOK, UpdateInv, NEW h \in Handlers, NEW value \in HandlerLocal,
         handler' = [handler EXCEPT ![h] = value],
         value.stage \in {"refresh", "install", "started", "delay"} => value.version # running,
         value.stage \in {"started", "delay"} => staged' # running,
         UNCHANGED <<running, commands>> \/ (UNCHANGED running /\ commands' \in SUBSET Versions),
         staged' = staged \/ (staged' \in Versions /\ staged' # running),
         UNCHANGED restartDue \/ (restartDue' = TRUE /\ staged' # running),
         restartFailed' \in BOOLEAN, ack' \in Acks \cup {NoAck}, unheard' \in BOOLEAN
  PROVE  UpdateTypeOK' /\ UpdateInv'
<1>1. /\ handler' \in [Handlers -> HandlerLocal] /\ handler'[h] = value
      /\ \A g \in Handlers \ {h} : handler'[g] = handler[g]
  BY HandlerGoes
<1>2. UpdateTypeOK'
  <2>1. running' \in Versions /\ staged' \in Versions /\ commands' \in SUBSET Versions
    BY DEF UpdateTypeOK
  <2>2. restartDue' \in BOOLEAN
    BY DEF UpdateTypeOK
  <2> QED BY <1>1, <2>1, <2>2 DEF UpdateTypeOK, HandlerLocal
<1>3. staged # running => staged' # running'
  OBVIOUS
<1>4. NoPointlessRestart'
  BY <1>3 DEF UpdateInv, NoPointlessRestart
<1>5. \A g \in Handlers : NotRunning(g)' /\ Staged(g)'
  <2>1. NotRunning(h)' /\ Staged(h)'
    BY <1>1 DEF NotRunning, Staged
  <2>2. \A g \in Handlers \ {h} : NotRunning(g)' /\ Staged(g)'
    BY <1>1, <1>3 DEF UpdateInv, NotRunning, Staged
  <2> QED BY <2>1, <2>2
<1> QED BY <1>2, <1>4, <1>5 DEF UpdateInv

LEMMA AckTyped ==
  ASSUME UpdateTypeOK, NEW h \in Handlers, NEW result \in {"noop", "started", "error"},
         NEW version \in Pins, NEW current \in BOOLEAN, AckFrom(h, result, version, current),
         version \in Versions \/ result = "error"
  PROVE  /\ \E value \in HandlerLocal : value.stage = result /\ value.version = version
                                        /\ handler' = [handler EXCEPT ![h] = value]
         /\ ack' \in Acks \cup {NoAck} /\ unheard' \in BOOLEAN
<1>1. Running(result, version, current) \in HandlerLocal
  BY DEF Running, HandlerLocal, Pins
<1>2. Running(result, version, current).stage = result /\ Running(result, version, current).version = version
  BY DEF Running
<1>3. ack' \in Acks \cup {NoAck}
  BY DEF AckFrom, UpdateTypeOK, Acks
<1>4. unheard' \in BOOLEAN
  BY DEF AckFrom
<1> QED BY <1>1, <1>2, <1>3, <1>4 DEF AckFrom

LEMMA CommandArrives ==
  ASSUME UpdateTypeOK, UpdateInv, NEW h \in Handlers, NEW version \in Versions, NEW again \in BOOLEAN,
         CommandStarts(h, version, again)
  PROVE  UpdateTypeOK' /\ UpdateInv' /\ UNCHANGED entryVars
<1>1. /\ commands' \in SUBSET Versions
      /\ UNCHANGED <<running, staged, restartDue, restartFailed, entryVars>>
  BY DEF CommandStarts, Delivered, UpdateTypeOK
<1>2. CASE version = running
  <2>1. PICK current \in BOOLEAN : AckFrom(h, "noop", version, current)
    BY <1>2 DEF CommandStarts
  <2>2. PICK value \in HandlerLocal : value.stage = "noop" /\ handler' = [handler EXCEPT ![h] = value]
    BY <2>1, AckTyped DEF Pins
  <2>3. ack' \in Acks \cup {NoAck} /\ unheard' \in BOOLEAN
    BY <2>1, AckTyped DEF Pins
  <2> QED BY <1>1, <2>2, <2>3, HandlerMoves DEF UpdateTypeOK
<1>3. CASE version # running
  <2>1. /\ handler' = [handler EXCEPT ![h] = Running("refresh", version, TRUE)]
        /\ UNCHANGED <<ack, unheard>>
    BY <1>3 DEF CommandStarts
  <2>2. PICK value \in HandlerLocal : /\ value.stage = "refresh" /\ value.version = version
                                      /\ handler' = [handler EXCEPT ![h] = value]
    BY <2>1 DEF Running, HandlerLocal
  <2> QED BY <1>1, <1>3, <2>1, <2>2, HandlerMoves DEF UpdateTypeOK
<1> QED BY <1>1, <1>2, <1>3

LEMMA InvalidArrives ==
  ASSUME UpdateTypeOK, UpdateInv, NEW h \in Handlers, CommandInvalid(h)
  PROVE  UpdateTypeOK' /\ UpdateInv' /\ UNCHANGED <<apiKey, uniqueId>>
<1>1. PICK current \in BOOLEAN : AckFrom(h, "error", Malformed, current)
  BY DEF CommandInvalid
<1>0. Malformed \in Pins
  BY DEF Pins
<1>2. UNCHANGED <<running, staged, commands, restartDue, restartFailed, apiKey, uniqueId>>
  BY DEF CommandInvalid, haVars
<1>3. PICK value \in HandlerLocal : value.stage = "error" /\ handler' = [handler EXCEPT ![h] = value]
  BY <1>0, <1>1, AckTyped
<1>4. ack' \in Acks \cup {NoAck} /\ unheard' \in BOOLEAN
  BY <1>0, <1>1, AckTyped
<1> QED BY <1>2, <1>3, <1>4, HandlerMoves DEF UpdateTypeOK

LEMMA HandlerSteps ==
  ASSUME UpdateTypeOK, UpdateInv, NEW h \in Handlers, HandlerStep(h)
  PROVE  UpdateTypeOK' /\ UpdateInv' /\ UNCHANGED entryVars
<1>0. /\ UNCHANGED <<running, commands, entryVars>> /\ handler[h].stage # "idle"
      /\ restartFailed' \in BOOLEAN
  BY DEF HandlerStep, InstallCalled, InstallFailed, Installed, AckHeartbeat, RestartCalled, RestartRaises,
         haVars, UpdateTypeOK
<1>1. /\ handler[h] \in HandlerLocal \ {Idle} /\ handler[h].version \in Pins
      /\ handler[h].stage # "error" => handler[h].version \in Versions
      /\ handler[h].current \in BOOLEAN /\ NotRunning(h) /\ Staged(h)
  BY <1>0, HandlerTyped DEF UpdateInv
<1>2. PICK hd \in HandlerLocal \ {Idle} : hd = handler[h]
  BY <1>1
<1>a. ASSUME hd.stage # "error", NEW stage \in {"install", "delay"}
      PROVE  /\ [hd EXCEPT !.stage = stage] \in HandlerLocal
             /\ [hd EXCEPT !.stage = stage].stage = stage
             /\ [hd EXCEPT !.stage = stage].version = hd.version
  <2>1. hd \in [stage : {"refresh", "install", "noop", "started", "error", "delay"},
                version : Versions, current : BOOLEAN]
    BY <1>2, <1>a DEF HandlerLocal
  <2> QED BY <2>1 DEF HandlerLocal
<1>3. Idle \in HandlerLocal /\ Idle.stage = "idle"
  BY DEF Idle, HandlerLocal
<1>4. CASE InstallCalled(h)
  <2>1. PICK value \in HandlerLocal : /\ value.stage = "install" /\ value.version = hd.version
                                      /\ handler' = [handler EXCEPT ![h] = value]
    <3>1. hd.stage = "refresh"
      BY <1>2, <1>4 DEF InstallCalled
    <3>2. /\ [hd EXCEPT !.stage = "install"] \in HandlerLocal
          /\ [hd EXCEPT !.stage = "install"].stage = "install"
          /\ [hd EXCEPT !.stage = "install"].version = hd.version
      BY <1>a, <3>1
    <3>3. handler' = [handler EXCEPT ![h] = [hd EXCEPT !.stage = "install"]]
      BY <1>2, <1>4 DEF InstallCalled
    <3> QED BY <3>2, <3>3
  <2>2. hd.version # running /\ UNCHANGED <<staged, ack, unheard, restartDue>>
    BY <1>1, <1>2, <1>4 DEF NotRunning, InstallCalled, haVars
  <2> QED BY <1>0, <2>1, <2>2, HandlerMoves DEF UpdateTypeOK
<1>5. CASE InstallFailed(h)
  <2>1. AckFrom(h, "error", handler[h].version, handler[h].current) /\ UNCHANGED <<staged, restartDue>>
    BY <1>5 DEF InstallFailed, haVars
  <2>2. PICK value \in HandlerLocal : value.stage = "error" /\ handler' = [handler EXCEPT ![h] = value]
    BY <1>1, <2>1, AckTyped
  <2>3. ack' \in Acks \cup {NoAck} /\ unheard' \in BOOLEAN
    BY <1>1, <2>1, AckTyped
  <2> QED BY <1>0, <2>1, <2>2, <2>3, HandlerMoves
<1>6. CASE Installed(h)
  <2>1. /\ AckFrom(h, "started", handler[h].version, handler[h].current)
        /\ staged' = handler[h].version /\ handler[h].version # running /\ UNCHANGED restartDue
        /\ handler[h].version \in Versions
    BY <1>1, <1>6 DEF Installed, NotRunning, haVars
  <2>2. PICK value \in HandlerLocal : /\ value.stage = "started" /\ value.version = handler[h].version
                                      /\ handler' = [handler EXCEPT ![h] = value]
    BY <1>1, <2>1, AckTyped
  <2>3. ack' \in Acks \cup {NoAck} /\ unheard' \in BOOLEAN
    BY <1>1, <2>1, AckTyped
  <2> QED BY <1>0, <1>1, <2>1, <2>2, <2>3, HandlerMoves
<1>7. ASSUME NEW delivered \in BOOLEAN, AckHeartbeat(h, delivered) PROVE UpdateTypeOK' /\ UpdateInv'
  <2>1. unheard' \in BOOLEAN /\ UNCHANGED <<staged, ack, restartDue>>
    BY <1>7 DEF AckHeartbeat, haVars
  <2>2. CASE handler[h].stage = "started"
    <3>1. PICK value \in HandlerLocal : /\ value.stage = "delay" /\ value.version = hd.version
                                        /\ handler' = [handler EXCEPT ![h] = value]
      <4>1. hd.stage # "error"
        BY <1>2, <2>2
      <4>2. /\ [hd EXCEPT !.stage = "delay"] \in HandlerLocal
            /\ [hd EXCEPT !.stage = "delay"].stage = "delay"
            /\ [hd EXCEPT !.stage = "delay"].version = hd.version
        BY <1>a, <4>1
      <4>3. handler' = [handler EXCEPT ![h] = [hd EXCEPT !.stage = "delay"]]
        BY <1>2, <1>7, <2>2 DEF AckHeartbeat, AfterAck
      <4> QED BY <4>2, <4>3
    <3>2. hd.version # running /\ staged # running
      BY <1>1, <1>2, <2>2 DEF NotRunning, Staged
    <3> QED BY <1>0, <2>1, <3>1, <3>2, HandlerMoves DEF UpdateTypeOK
  <2>3. CASE handler[h].stage # "started"
    <3>1. handler' = [handler EXCEPT ![h] = Idle]
      BY <1>7, <2>3 DEF AckHeartbeat, AfterAck
    <3> QED BY <1>0, <1>3, <2>1, <3>1, HandlerMoves DEF UpdateTypeOK
  <2> QED BY <2>2, <2>3
<1>8. CASE RestartCalled(h)
  <2>1. /\ handler' = [handler EXCEPT ![h] = Idle] /\ restartDue' = TRUE /\ staged # running
        /\ UNCHANGED <<staged, ack, unheard>>
    BY <1>1, <1>8 DEF RestartCalled, Staged
  <2> QED BY <1>0, <1>3, <2>1, HandlerMoves DEF UpdateTypeOK
<1>9. CASE RestartRaises(h)
  <2>1. AckFrom(h, "error", handler[h].version, handler[h].current) /\ UNCHANGED <<staged, restartDue>>
    BY <1>9 DEF RestartRaises
  <2>2. PICK value \in HandlerLocal : value.stage = "error" /\ handler' = [handler EXCEPT ![h] = value]
    BY <1>1, <2>1, AckTyped
  <2>3. ack' \in Acks \cup {NoAck} /\ unheard' \in BOOLEAN
    BY <1>1, <2>1, AckTyped
  <2> QED BY <1>0, <2>1, <2>2, <2>3, HandlerMoves
<1> QED BY <1>0, <1>4, <1>5, <1>6, <1>7, <1>8, <1>9 DEF HandlerStep

-----------------------------------------------------------------------------
(***************************************************************************)
(* The config entry.                                                       *)
(***************************************************************************)
LEMMA MeetTyped ==
  ASSUME EntryTypeOK, NEW concern, Meet(concern)
  PROVE  concerns' \in SUBSET Concerns /\ Cardinality(concerns') <= MaxConcerns
<1> QED BY DEF EntryTypeOK, Meet

LEMMA EntryTyped ==
  ASSUME EntryTypeOK, EntryStep
  PROVE  EntryTypeOK'
<1>0. \A key \in Keys : AccountOf[key] \in Accounts
  BY EntryAssumption
<1>1. CASE SetupStarts \/ SetupStep
  <2>1. /\ UNCHANGED <<apiKey, reloadDue, accepted, cloudUp, concerns>>
        /\ entry' \in {"exchange", "connect", "retry", "authFailed", "failed", "loaded"}
        /\ flow' = flow \/ flow' = "form"
        /\ tried' = tried \/ tried' = apiKey
        /\ uniqueId' = uniqueId \/ uniqueId' = AccountOf[tried]
    BY <1>1
    DEF SetupStarts, SetupStep, SetupExchanged, SetupAuthFailed, SetupNotReady, SetupRaised, SetupDone,
        cloudVars
  <2> QED BY <1>0, <2>1 DEF EntryTypeOK
<1>2. ASSUME NEW key \in Keys, Submit(key) \/ Revoke(key) PROVE EntryTypeOK'
  <2>1. concerns' \in SUBSET Concerns /\ Cardinality(concerns') <= MaxConcerns
    BY <1>2, MeetTyped DEF Submit, Revoke
  <2>2. /\ UNCHANGED <<entry, apiKey, tried, uniqueId, reloadDue, cloudUp>>
        /\ flow' = flow \/ flow' = key
        /\ accepted' \subseteq accepted
    BY <1>2 DEF Submit, Revoke, cloudVars
  <2>3. flow' \in {"none", "form"} \cup Keys
    BY <1>2, <2>2 DEF EntryTypeOK
  <2>4. accepted' \in SUBSET Keys
    BY <2>2 DEF EntryTypeOK
  <2> QED BY <2>1, <2>2, <2>3, <2>4 DEF EntryTypeOK
<1>3. CASE FlowStep
  <2>1. /\ UNCHANGED <<tried, accepted, cloudUp, concerns>>
        /\ apiKey' \in Keys
        /\ uniqueId' \in {uniqueId} \cup {AccountOf[key] : key \in Keys}
        /\ entry' = entry \/ entry' = "unloaded"
        /\ flow' \in {"none", "form"}
    BY <1>3
    DEF FlowStep, FlowRefused, UserConfirmed, ReauthConfirmed, ReauthAborted, EntryTypeOK, cloudVars
  <2>2. reloadDue' \in BOOLEAN
    BY <1>3
    DEF FlowStep, FlowRefused, UserConfirmed, ReauthConfirmed, ReauthAborted, EntryTypeOK
  <2> QED BY <1>0, <2>1, <2>2 DEF EntryTypeOK
<1>4. CASE CloudChanges
  BY <1>4 DEF CloudChanges, EntryTypeOK
<1> QED BY <1>1, <1>2, <1>3, <1>4 DEF EntryStep

LEMMA EntryResets ==
  ASSUME EntryTypeOK, Reload \/ Restart
  PROVE  EntryTypeOK'
<1> QED BY DEF Reload, Restart, EntryTypeOK, cloudVars

(* A step that only meets a concern. *)
LEMMA EntryConcerned ==
  ASSUME EntryTypeOK, NEW concern, Meet(concern),
         UNCHANGED <<entry, apiKey, tried, uniqueId, flow, reloadDue, cloudVars>>
  PROVE  EntryTypeOK'
<1> QED BY MeetTyped DEF EntryTypeOK, cloudVars

LEMMA UpdateSteps ==
  ASSUME UpdateTypeOK, UpdateInv, EntryTypeOK, UpdateStep
  PROVE  UpdateTypeOK' /\ UpdateInv' /\ EntryTypeOK'
<1>1. ASSUME NEW version \in Versions, CloudSends(version)
      PROVE  UpdateTypeOK' /\ UpdateInv' /\ EntryTypeOK'
  <2>1. EntryTypeOK'
    BY <1>1, EntryConcerned DEF CloudSends
  <2>2. UpdateTypeOK' /\ UpdateInv'
    BY <1>1 DEF CloudSends, UpdateTypeOK, UpdateInv, NoPointlessRestart, NotRunning, Staged
  <2> QED BY <2>1, <2>2
<1>2. UNCHANGED entryVars => EntryTypeOK'
  BY DEF entryVars, EntryTypeOK
<1>3. ASSUME RestartRefused \/ LoopHeartbeat PROVE UpdateTypeOK' /\ UpdateInv' /\ EntryTypeOK'
  <2>1. /\ UNCHANGED <<running, staged, commands, handler, ack, entryVars>>
        /\ unheard' = FALSE \/ UNCHANGED unheard
        /\ restartFailed' = TRUE \/ UNCHANGED restartFailed
        /\ restartDue' = FALSE \/ UNCHANGED restartDue
    BY <1>3 DEF RestartRefused, LoopHeartbeat, haVars
  <2>2. UpdateTypeOK'
    <3>1. unheard' \in BOOLEAN /\ restartFailed' \in BOOLEAN /\ restartDue' \in BOOLEAN
      BY <2>1 DEF UpdateTypeOK
    <3> QED BY <2>1, <3>1 DEF UpdateTypeOK
  <2>3. UpdateInv'
    BY <2>1 DEF UpdateInv, NoPointlessRestart, NotRunning, Staged
  <2> QED BY <1>2, <2>1, <2>2, <2>3
<1>4. ASSUME NEW h \in Handlers, CommandInvalid(h) PROVE UpdateTypeOK' /\ UpdateInv' /\ EntryTypeOK'
  <2>1. EntryTypeOK'
    BY <1>4, EntryConcerned DEF CommandInvalid
  <2> QED BY <1>4, <2>1, InvalidArrives
<1> QED BY <1>1, <1>2, <1>3, <1>4, CommandArrives, HandlerSteps DEF UpdateStep

(* A reload leaves the commands under way without their coordinator, a      *)
(* restart ends them; only then does what is on disk run.                  *)
LEMMA UpdateResets ==
  ASSUME UpdateTypeOK, UpdateInv, EntryReloads \/ HomeAssistantRestarts
  PROVE  UpdateTypeOK' /\ UpdateInv'
<1>1. CASE EntryReloads
  <2>1. \A r \in HandlerLocal \ {Idle} :
          /\ [r EXCEPT !.current = FALSE] \in HandlerLocal
          /\ [r EXCEPT !.current = FALSE].stage = r.stage
          /\ [r EXCEPT !.current = FALSE].version = r.version
    BY DEF HandlerLocal
  <2>2. /\ \A h \in Handlers : handler'[h] = IF handler[h] = Idle THEN Idle
                                             ELSE [handler[h] EXCEPT !.current = FALSE]
        /\ handler' = [h \in Handlers |-> handler'[h]]
        /\ ack' = NoAck /\ unheard' = FALSE
        /\ UNCHANGED <<running, staged, commands, restartDue, restartFailed>>
    BY <1>1 DEF EntryReloads, haVars
  <2>3. ASSUME NEW h \in Handlers
        PROVE  /\ handler'[h] \in HandlerLocal
               /\ handler'[h].stage = handler[h].stage
               /\ handler[h].stage # "idle" => handler'[h].version = handler[h].version
    <3>1. CASE handler[h] = Idle
      BY <2>2, <3>1 DEF HandlerLocal, Idle
    <3>2. CASE handler[h] # Idle
      <4>1. handler[h] \in HandlerLocal \ {Idle} /\ handler'[h] = [handler[h] EXCEPT !.current = FALSE]
        BY <2>2, <3>2, HandlerTyped
      <4> QED BY <2>1, <4>1
    <3> QED BY <3>1, <3>2
  <2>4. UpdateTypeOK'
    BY <2>2, <2>3 DEF UpdateTypeOK, HandlerLocal
  <2>5. UpdateInv'
    BY <2>2, <2>3 DEF UpdateInv, NoPointlessRestart, NotRunning, Staged
  <2> QED BY <2>4, <2>5
<1>2. CASE HomeAssistantRestarts
  <2>1. /\ \A h \in Handlers : handler'[h] = Idle /\ handler'[h].stage = "idle"
        /\ handler' = [h \in Handlers |-> Idle]
        /\ running' = staged /\ ack' = NoAck /\ unheard' = FALSE
        /\ restartDue' = FALSE /\ restartFailed' = FALSE /\ UNCHANGED <<staged, commands>>
    BY <1>2 DEF HomeAssistantRestarts, Idle
  <2>2. UpdateTypeOK'
    BY <2>1 DEF UpdateTypeOK
  <2>3. UpdateInv'
    BY <2>1 DEF UpdateInv, NoPointlessRestart, NotRunning, Staged
  <2> QED BY <2>2, <2>3
<1> QED BY <1>1, <1>2

-----------------------------------------------------------------------------
(***************************************************************************)
(* The installation.                                                       *)
(***************************************************************************)
DeviceTypeOK ==
  /\ registered \in SUBSET Entities /\ named \in SUBSET registered
  /\ index \in Indexes
  /\ snapshot \in [entityRegistry : SUBSET Entities, classifications : SUBSET Entities]
  /\ Cardinality(snapshot.entityRegistry) <= MaxEntityRegistry
  /\ Cardinality(snapshot.classifications) <= MaxClassifications

LEMMA DeviceSteps ==
  ASSUME DeviceTypeOK, EntryTypeOK, DeviceStep
  PROVE  DeviceTypeOK' /\ EntryTypeOK' /\ UNCHANGED updateVars
<1>1. ASSUME NEW e \in Entities, Register(e) \/ Name(e) \/ Unregister(e)
      PROVE  DeviceTypeOK' /\ EntryTypeOK' /\ UNCHANGED updateVars
  <2>1. EntryTypeOK'
    BY <1>1, EntryConcerned DEF Register, Name, Unregister
  <2>2. DeviceTypeOK' /\ UNCHANGED updateVars
    BY <1>1 DEF Register, Name, Unregister, DeviceTypeOK
  <2> QED BY <2>1, <2>2
<1>2. CASE TakeSnapshot
  <2>1. /\ snapshot' = Snapshot(BuildEntityIndex)
        /\ UNCHANGED <<registered, named, index, updateVars, entryVars>>
    BY <1>2 DEF TakeSnapshot
  <2>2. EntryTypeOK'
    BY <2>1 DEF entryVars, EntryTypeOK
  <2>3. BuildEntityIndex \in Indexes
    BY DEF BuildEntityIndex, Index, Indexes, DeviceTypeOK
  <2>4. PICK idx \in Indexes : idx = BuildEntityIndex
    BY <2>3
  <2>5. EntityRegistry(idx) \in SUBSET Entities /\ EntityClassifications(idx) \in SUBSET Entities
    BY RegistryFits DEF Indexes
  <2>6. /\ snapshot' \in [entityRegistry : SUBSET Entities, classifications : SUBSET Entities]
        /\ Cardinality(snapshot'.entityRegistry) <= MaxEntityRegistry
        /\ Cardinality(snapshot'.classifications) <= MaxClassifications
    BY <2>1, <2>4, <2>5, RegistryFits DEF Snapshot
  <2> QED BY <2>1, <2>2, <2>6 DEF DeviceTypeOK
<1> QED BY <1>1, <1>2 DEF DeviceStep

LEMMA InitSite == SiteInit => SiteInv
<1> SUFFICES ASSUME SiteInit PROVE SiteInv
  OBVIOUS
<1>1. EntryTypeOK
  <2>1. Cardinality({}) = 0
    BY FS_EmptySet
  <2>2. uniqueId \in Accounts \cup {Legacy} /\ apiKey \in Keys /\ tried \in Keys
    BY EntryAssumption DEF SiteInit, EntryInit
  <2>3. concerns \in SUBSET Concerns /\ Cardinality(concerns) <= MaxConcerns
    BY <2>1, EntryAssumption DEF SiteInit, EntryInit
  <2> QED BY <2>2, <2>3 DEF SiteInit, EntryInit, EntryTypeOK
<1>2. UpdateTypeOK
  BY UpdateAssumption DEF SiteInit, UpdateInit, UpdateTypeOK
<1>3. UpdateInv
  BY DEF SiteInit, UpdateInit, UpdateInv, NoPointlessRestart, NotRunning, Staged, Idle
<1>4. DeviceTypeOK
  <2>1. Cardinality({}) = 0
    BY FS_EmptySet
  <2> QED BY <2>1, SiteAssumption DEF SiteInit, DeviceTypeOK, EmptyIndex, Index, Indexes, NoSnapshot
<1> QED BY <1>1, <1>2, <1>3, <1>4 DEF SiteInv, SiteTypeOK, DeviceTypeOK

LEMMA NextSite == SiteInv /\ [SiteNext]_siteVars => SiteInv'
<1> SUFFICES ASSUME SiteInv, [SiteNext]_siteVars PROVE SiteInv'
  OBVIOUS
<1>0. EntryTypeOK /\ UpdateTypeOK /\ UpdateInv /\ DeviceTypeOK
  BY DEF SiteInv, SiteTypeOK, DeviceTypeOK
<1>1. UNCHANGED updateVars => UpdateTypeOK' /\ UpdateInv'
  BY <1>0 DEF updateVars, UpdateTypeOK, UpdateInv, NoPointlessRestart, NotRunning, Staged
<1>2. UNCHANGED entryVars => EntryTypeOK'
  BY <1>0 DEF entryVars, EntryTypeOK
<1>3. UNCHANGED deviceVars => DeviceTypeOK'
  BY <1>0 DEF deviceVars, DeviceTypeOK
<1> SUFFICES EntryTypeOK' /\ UpdateTypeOK' /\ UpdateInv' /\ DeviceTypeOK'
  BY DEF SiteInv, SiteTypeOK, DeviceTypeOK
<1>4. CASE EntryStepHere
  <2>1. UNCHANGED updateVars /\ EntryTypeOK'
    BY <1>0, <1>4, EntryTyped DEF EntryStepHere
  <2>2. BuildEntityIndex \in Indexes
    BY <1>0 DEF BuildEntityIndex, Index, Indexes, DeviceTypeOK
  <2>3. DeviceTypeOK'
    BY <1>0, <1>4, <2>2 DEF EntryStepHere, DeviceTypeOK
  <2> QED BY <1>1, <2>1, <2>3
<1>5. CASE UpdateStepHere
  BY <1>0, <1>3, <1>5, UpdateSteps DEF UpdateStepHere
<1>6. CASE ReloadHere
  BY <1>0, <1>3, <1>6, UpdateResets, EntryResets DEF ReloadHere, EntryReloads
<1>7. CASE RestartHere
  <2>1. DeviceTypeOK'
    BY <1>0, <1>7 DEF RestartHere, DeviceTypeOK
  <2> QED BY <1>0, <1>7, <2>1, UpdateResets, EntryResets DEF RestartHere, HomeAssistantRestarts
<1>8. CASE DeviceStep
  BY <1>0, <1>1, <1>8, DeviceSteps
<1>9. CASE UNCHANGED siteVars
  BY <1>1, <1>2, <1>3, <1>9 DEF siteVars
<1> QED BY <1>4, <1>5, <1>6, <1>7, <1>8, <1>9 DEF SiteNext

LEMMA SiteHolds == SiteSpec => []SiteInv
<1> QED BY InitSite, NextSite, PTL DEF SiteSpec

-----------------------------------------------------------------------------
(* Everything stays of its type: the entry is in a state it has, a handler  *)
(* holds a version it was sent, and no snapshot lists more than the limits  *)
(* allow, whatever the registry holds.                                     *)
THEOREM SiteTypeCorrect == SiteSpec => []SiteTypeOK
<1>1. SiteInv => SiteTypeOK
  BY DEF SiteInv
<1> QED BY <1>1, SiteHolds, PTL

(* A self update asks for a restart only to run another version than the    *)
(* one that runs: of any number of update commands whose handlers overlap,  *)
(* none restarts Home Assistant for the version another has just begun.    *)
THEOREM RestartsHaveAPoint == SiteSpec => []NoPointlessRestart
<1>1. SiteInv => NoPointlessRestart
  BY DEF SiteInv, UpdateInv
<1> QED BY <1>1, SiteHolds, PTL

(* What a step does to the key and the account of an entry. *)
LEMMA EntryKeeps ==
  ASSUME EntryTypeOK, EntryStep, entry # "absent", uniqueId \in Accounts, AccountOf[apiKey] = uniqueId
  PROVE  uniqueId' = uniqueId /\ AccountOf[apiKey'] = uniqueId
<1>0. uniqueId # Legacy
  BY EntryAssumption
<1>1. CASE SetupStarts \/ SetupStep
  BY <1>0, <1>1
  DEF SetupStarts, SetupStep, SetupExchanged, SetupAuthFailed, SetupNotReady, SetupRaised, SetupDone
<1>2. ASSUME NEW key \in Keys, Submit(key) \/ Revoke(key)
      PROVE  uniqueId' = uniqueId /\ AccountOf[apiKey'] = uniqueId
  BY <1>2 DEF Submit, Revoke
<1>3. CASE FlowStep
  BY <1>0, <1>3 DEF FlowStep, FlowRefused, UserConfirmed, ReauthConfirmed, ReauthAborted, SameAccount
<1>4. CASE CloudChanges
  BY <1>4 DEF CloudChanges
<1> QED BY <1>1, <1>2, <1>3, <1>4 DEF EntryStep

(* Once the stored key belongs to the account of the entry, no step of a    *)
(* setup, a flow, a reload or a restart moves either to another account.   *)
THEOREM EntryNotRepointed == SiteSpec => NoRepoint
<1> DEFINE kept == entry # "absent" /\ uniqueId \in Accounts /\ AccountOf[apiKey] = uniqueId
                   => uniqueId' = uniqueId /\ AccountOf[apiKey'] = uniqueId
<1>1. SiteInv /\ [SiteNext]_siteVars => [kept]_entryVars
  <2> SUFFICES ASSUME SiteInv, [SiteNext]_siteVars PROVE [kept]_entryVars
    OBVIOUS
  <2>0. EntryTypeOK
    BY DEF SiteInv, SiteTypeOK
  <2>1. (UNCHANGED <<apiKey, uniqueId>>) => kept
    OBVIOUS
  <2>2. CASE EntryStepHere
    BY <2>0, <2>2, EntryKeeps DEF EntryStepHere
  <2>3. CASE UpdateStepHere
    <3>1. ASSUME NEW version \in Versions, CloudSends(version) PROVE kept
      BY <2>1, <3>1 DEF CloudSends
    <3>2. ASSUME RestartRefused \/ LoopHeartbeat PROVE UNCHANGED entryVars
      BY <3>2 DEF RestartRefused, LoopHeartbeat
    <3>3. ASSUME NEW h \in Handlers, NEW version \in Versions, NEW again \in BOOLEAN,
                 CommandStarts(h, version, again)
          PROVE  UNCHANGED entryVars
      BY <3>3 DEF CommandStarts
    <3>4. ASSUME NEW h \in Handlers, HandlerStep(h) PROVE UNCHANGED entryVars
      BY <3>4
      DEF HandlerStep, InstallCalled, InstallFailed, Installed, AckHeartbeat, RestartCalled, RestartRaises
    <3>5. ASSUME NEW h \in Handlers, CommandInvalid(h) PROVE kept
      BY <2>1, <3>5 DEF CommandInvalid
    <3> QED BY <2>3, <2>1, <3>1, <3>2, <3>3, <3>4, <3>5 DEF UpdateStepHere, UpdateStep, entryVars
  <2>4. CASE ReloadHere \/ RestartHere
    BY <2>1, <2>4 DEF ReloadHere, EntryReloads, Reload, RestartHere, HomeAssistantRestarts, Restart
  <2>5. CASE DeviceStep
    <3>1. ASSUME NEW e \in Entities, Register(e) \/ Name(e) \/ Unregister(e) PROVE kept
      BY <2>1, <3>1 DEF Register, Name, Unregister
    <3>2. CASE TakeSnapshot
      BY <3>2 DEF TakeSnapshot
    <3> QED BY <2>5, <3>1, <3>2 DEF DeviceStep
  <2>6. CASE UNCHANGED siteVars
    BY <2>6 DEF siteVars
  <2> QED BY <2>2, <2>3, <2>4, <2>5, <2>6 DEF SiteNext
<1> QED BY <1>1, SiteHolds, PTL DEF SiteSpec, NoRepoint

(* A snapshot lists every real device and every energy entity that is in    *)
(* the registry when it is taken, as long as they fit, and nothing that is *)
(* gone: for any number of knobs and sensors beside them.                  *)
THEOREM SnapshotFindsAll == SiteSpec => SnapshotFindsDevices
<1> DEFINE found == snapshot' # snapshot =>
             LET devices == {e \in registered : DomainOf[e] \in RealDeviceDomains}
                 energy  == registered \cap EnergyEntities
             IN  /\ Cardinality(devices) <= MaxEntityRegistry =>
                      devices \subseteq snapshot'.entityRegistry
                 /\ Cardinality(energy) <= MaxClassifications =>
                      energy \subseteq snapshot'.classifications
                 /\ snapshot'.entityRegistry \cup snapshot'.classifications
                      \subseteq registered
<1>1. SiteInv /\ [SiteNext]_siteVars => [found]_siteVars
  <2> SUFFICES ASSUME SiteInv, [SiteNext]_siteVars PROVE found
    OBVIOUS
  <2>0. registered \in SUBSET Entities /\ named \in SUBSET registered
    BY DEF SiteInv, SiteTypeOK
  <2>1. (UNCHANGED snapshot) => found
    OBVIOUS
  <2>2. CASE TakeSnapshot
    <3>0. BuildEntityIndex \in Indexes /\ BuildEntityIndex.ids = registered
      BY <2>0 DEF BuildEntityIndex, Index, Indexes
    <3>1. PICK idx \in Indexes : idx = BuildEntityIndex /\ idx.ids = registered
      BY <3>0
    <3>2. /\ snapshot'.entityRegistry = EntityRegistry(idx)
          /\ snapshot'.classifications = EntityClassifications(idx)
      BY <2>2, <3>1 DEF TakeSnapshot, Snapshot
    <3>3. /\ EntityRegistry(idx) \cup EntityClassifications(idx) \subseteq registered
          /\ Cardinality({e \in registered : DomainOf[e] \in RealDeviceDomains}) <= MaxEntityRegistry
               => {e \in registered : DomainOf[e] \in RealDeviceDomains} \subseteq EntityRegistry(idx)
          /\ Cardinality(registered \cap EnergyEntities) <= MaxClassifications
               => registered \cap EnergyEntities \subseteq EntityClassifications(idx)
      BY <3>1, RegistryFits, DevicesFound
    <3> QED BY <3>2, <3>3
  <2>3. CASE EntryStepHere \/ UpdateStepHere \/ ReloadHere \/ RestartHere \/ UNCHANGED siteVars
    BY <2>1, <2>3 DEF EntryStepHere, UpdateStepHere, ReloadHere, RestartHere, deviceVars, siteVars
  <2>4. ASSUME NEW e \in Entities, Register(e) \/ Name(e) \/ Unregister(e) PROVE found
    BY <2>1, <2>4 DEF Register, Name, Unregister
  <2> QED BY <2>2, <2>3, <2>4 DEF SiteNext, DeviceStep
<1> QED BY <1>1, SiteHolds, PTL DEF SiteSpec, SnapshotFindsDevices
=============================================================================
