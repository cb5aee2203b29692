----------------------------- MODULE Coordinator -----------------------------
(***************************************************************************)
(* IemsCoordinator (coordinator.py): Home Assistant state changes are      *)
(* folded into one accumulator per entity and minute, or queued as         *)
(* transition rows; a flush seals the past minutes, gates them by the send *)
(* policy, and hands the surviving rows over chunk by chunk.               *)
(*                                                                         *)
(* Everything runs on one event loop: a handler without an await is one    *)
(* step.  flush() awaits only while a chunk is published, so captures,     *)
(* clock ticks and mode changes interleave between two chunks.             *)
(*                                                                         *)
(* Between stop() and the next setup's listener lie a credential exchange, *)
(* a connect, retries with backoff or a restart of Home Assistant: states  *)
(* change then with nobody listening, and setup asks for no current state. *)
(***************************************************************************)
EXTENDS ShippingGate, Sequences, FiniteSetsExt

CONSTANTS
  Bucket,           \* send policy of each entity's category
  StatesOf,         \* the states Home Assistant can report for an entity
  Attr,             \* attributes["value"] words of inverter.fault entities
  Threshold,        \* *_DELTA_THRESHOLD_* of the threshold categories
  MaxRowsPerEntity, \* _MAX_ROWS_PER_ENTITY: 5 in the code
  ChunkSize,        \* MAX_ENTITIES_PER_BATCH_PUBLISH: 200 in the code
  Messages,         \* set_shipping_mode commands and status answers
  ClockMayStepBack, \* whether the wall clock is ever set back
  MaxMinute, MaxSamples, MaxPending, MaxReloads   \* bounds of the model

Buckets == {"always", "threshold", "latest_only", "fault"}

(* A state string after _coerce_state: a number, a text, or one of the two *)
(* _UNAVAILABLE_STATES (val 0 "unavailable", val 1 "unknown").             *)
State   == [kind : {"num", "text", "off"}, val : Int]
Num(v)  == [kind |-> "num", val |-> v]
NoState == [kind |-> "none", val |-> 0]
NoAttr  == -1

Minute == 0 .. MaxMinute
Never  == -1

ASSUME CoordinatorAssumption ==
  /\ Bucket \in [Entity -> Buckets]
  /\ StatesOf \in [Entity -> SUBSET State]
  /\ Attr \subseteq Nat
  /\ Threshold \in Nat \ {0}
  /\ MaxRowsPerEntity \in Nat \ {0}
  /\ ChunkSize \in Nat \ {0}
  /\ Messages \subseteq Message
  /\ ClockMayStepBack \in BOOLEAN
  /\ MaxMinute \in Nat \ {0}
  /\ MaxSamples \in Nat \ {0}
  /\ MaxPending \in Nat \ {0}
  /\ MaxReloads \in Nat

VARIABLES
  now,           \* wall-clock minute
  ha,            \* Home Assistant's state machine, per entity
  acc,           \* _accumulators: per entity and minute
  lastFinal,     \* _last_finalised_minute
  lastEmitted,   \* _last_emitted_state
  lastFault,     \* _last_emitted_fault_value
  pending,       \* _pending_latest_only_rows
  coldStart,     \* `first` of _batch_loop
  outgoing,      \* rows of the running flush not yet handed to the publisher
  running,       \* the listener is registered and the loops are started
  handed,        \* history: minute rows put in a batch by this coordinator
  reloads        \* config-entry reloads so far

captureVars == <<acc, lastEmitted, lastFault, pending>>
lifeVars == <<running, handed, reloads>>
vars == <<now, ha, acc, lastFinal, lastEmitted, lastFault, pending, coldStart,
          outgoing, running, handed, reloads, gateVars>>

(* order 0: a finalised minute; order i > 0: the i-th pending transition.  *)
(* Attributes of sampled categories are abstracted to NoAttr.              *)
Row == [entity : Entity, ts : Minute, state : State,
        attr : Attr \cup {NoAttr}, order : Nat]

Accumulator == [count : Nat, sum : Int, numeric : BOOLEAN, passthrough : State]

NoSamples == [count |-> 0, sum |-> 0, numeric |-> FALSE,
              passthrough |-> Num(0)]

Open(e) == {m \in Minute : acc[e][m].count > 0}

TypeOK ==
  /\ GateTypeOK
  /\ now \in Minute
  /\ ha \in [Entity -> [state : State, attr : Attr, since : Minute]]
  /\ acc \in [Entity -> [Minute -> Accumulator]]
  /\ lastFinal \in [Entity -> Minute \cup {Never}]
  /\ lastEmitted \in [Entity -> State \cup {NoState}]
  /\ lastFault \in [Entity -> Attr \cup {NoAttr}]
  /\ pending \in Seq(Row)
  /\ coldStart \in BOOLEAN
  /\ outgoing \in SUBSET Row
  /\ running \in BOOLEAN
  /\ handed \in [Entity -> [Minute -> Nat]]
  /\ reloads \in 0 .. MaxReloads

-----------------------------------------------------------------------------
(* What a freshly constructed coordinator remembers: nothing. *)
NoMinutes == [m \in Minute |-> NoSamples]

Fresh ==
  /\ acc = [e \in Entity |-> NoMinutes]
  /\ lastFinal = [e \in Entity |-> Never]
  /\ lastEmitted = [e \in Entity |-> NoState]
  /\ lastFault = [e \in Entity |-> NoAttr]
  /\ pending = << >>
  /\ coldStart = TRUE
  /\ outgoing = {}
  /\ handed = [e \in Entity |-> [m \in Minute |-> 0]]

Init ==
  /\ Fresh
  /\ running = TRUE
  /\ GateInit
  /\ now = 1
  /\ ha \in [Entity -> [state : UNION {StatesOf[e] : e \in Entity},
                        attr : Attr, since : {0}]]
  /\ \A e \in Entity : ha[e].state \in StatesOf[e]
  /\ reloads = 0

-----------------------------------------------------------------------------
(***************************************************************************)
(* capture_state_change.  Home Assistant stamps an event with last_changed,*)
(* which moves only when the state string does (or on a forced update): an *)
(* attribute-only change carries the minute of the last real change.       *)
(***************************************************************************)
Reports(e, s, a, m) ==
  /\ s \in StatesOf[e] /\ a \in Attr
  /\ m = now \/ (m = ha[e].since /\ s = ha[e].state)
  /\ ha' = [ha EXCEPT ![e] = [state |-> s, attr |-> a, since |-> m]]

(* Mutant: the strict comparison the code had before v0.4.5. *)
TooLateStrict(e, m) == m < lastFinal[e]

(* The minute is already finalised for this entity, or a later one is. *)
TooLate(e, m) == m <= lastFinal[e]

EmitTransition(e, s, a, m) ==
  /\ Len(pending) < MaxPending
  /\ pending' = Append(pending, [entity |-> e, ts |-> m, state |-> s, attr |-> a,
                                 order |-> Len(pending) + 1])
  /\ lastEmitted' = [lastEmitted EXCEPT ![e] = s]

DropLate(e, m) == TooLate(e, m) /\ UNCHANGED captureVars

(* A repeated outage returns before the accumulators are dropped. *)
CaptureOutage(e, s, a, m) ==
  /\ ~TooLate(e, m) /\ s.kind = "off"
  /\ IF lastEmitted[e] = s
     THEN UNCHANGED captureVars
     ELSE /\ EmitTransition(e, s, a, m)
          /\ acc' = [acc EXCEPT ![e] = NoMinutes]
          /\ UNCHANGED lastFault

(* Mutant: a re-fire is recognised by its state string alone. *)
SameState(e, s, a) == lastEmitted[e] = s

SameValue(e, s, a) ==
  lastEmitted[e] = s /\ (Bucket[e] = "fault" => lastFault[e] = a)

CaptureTransition(e, s, a, m) ==
  /\ ~TooLate(e, m) /\ s.kind # "off"
  /\ Bucket[e] \in {"latest_only", "fault"}
  /\ IF SameValue(e, s, a)
     THEN UNCHANGED captureVars
     ELSE /\ EmitTransition(e, s, a, m)
          /\ lastFault' = IF Bucket[e] = "fault"
                          THEN [lastFault EXCEPT ![e] = a] ELSE lastFault
          /\ UNCHANGED acc

Fold(a, s) ==
  IF s.kind = "num"
  THEN [a EXCEPT !.count = @ + 1, !.sum = @ + s.val, !.numeric = TRUE]
  ELSE [a EXCEPT !.count = @ + 1, !.passthrough = s]

CaptureSample(e, s, m) ==
  /\ ~TooLate(e, m) /\ s.kind # "off"
  /\ Bucket[e] \in {"always", "threshold"}
  /\ acc[e][m].count < MaxSamples
  /\ acc' = [acc EXCEPT ![e][m] = Fold(@, s)]
  /\ UNCHANGED <<lastEmitted, lastFault, pending>>

StateChanged(e, s, a, m) ==
  /\ running
  /\ Reports(e, s, a, m)
  /\ \/ DropLate(e, m)
     \/ CaptureOutage(e, s, a, m)
     \/ CaptureTransition(e, s, a, m)
     \/ CaptureSample(e, s, m)
  /\ UNCHANGED <<now, lastFinal, coldStart, outgoing, lifeVars, gateVars>>

-----------------------------------------------------------------------------
(***************************************************************************)
(* flush and _drain_finalised_rows.                                        *)
(***************************************************************************)
(* The first flush pivots one minute ahead: it seals the running minute.   *)
Pivot == IF coldStart THEN now + 1 ELSE now

Sealed(e) == {m \in Open(e) : m < Pivot}

(* Integer division: the models pick values whose means are whole. *)
Finalise(a) == IF a.numeric THEN Num(a.sum \div a.count) ELSE a.passthrough

Distance(x, y) == IF x < y THEN y - x ELSE x - y

(* The threshold gate; the first row after start or after an outage passes. *)
PassesGate(e, a, baseline) ==
  Bucket[e] = "threshold" /\ a.numeric /\ baseline.kind = "num"
    => Distance(Finalise(a).val, baseline.val) >= Threshold

(* _last_emitted_state as it evolves: the newest numeric row among the     *)
(* minutes `em` already emitted by this drain, else the stored one.        *)
Baseline(e, em) ==
  LET numeric == {m \in em : acc[e][m].numeric}
  IN  IF numeric = {} THEN lastEmitted[e] ELSE Finalise(acc[e][Max(numeric)])

(* em is what the gate lets through, minute after minute in order. *)
Gated(e, em) ==
  /\ em \subseteq Sealed(e)
  /\ \A m \in Sealed(e) :
       m \in em <=> PassesGate(e, acc[e][m], Baseline(e, {n \in em : n < m}))

(* Mutant: the cap keeps the oldest rows. *)
CappedOldest(em) == {m \in em : Cardinality({n \in em : n < m}) < MaxRowsPerEntity}

(* The newest MaxRowsPerEntity rows of an entity survive. *)
Capped(em) == {m \in em : Cardinality({n \in em : n > m}) < MaxRowsPerEntity}

MinuteRow(e, m) == [entity |-> e, ts |-> m, state |-> Finalise(acc[e][m]),
                    attr |-> NoAttr, order |-> 0]

MinuteRows(emitted) ==
  {MinuteRow(x[1], x[2]) : x \in {y \in Entity \X Minute : y[2] \in Capped(emitted[y[1]])}}

(* Mutant: the outage row always rides along, behind the value rows. *)
NeverSuperseded(row, rows) == FALSE

(* An outage row gives way to a value of the same batch, as new or newer. *)
Superseded(row, rows) ==
  /\ row.state.kind = "off"
  /\ \E q \in rows : /\ q.entity = row.entity /\ q.ts >= row.ts
                     /\ q.state.kind = "num"

Drained(emitted) ==
  LET rows == MinuteRows(emitted)
  IN  rows \cup {r \in {pending[i] : i \in DOMAIN pending} : ~Superseded(r, rows)}

(* Suppressed modes discard what was drained; otherwise the whitelist filters. *)
Admitted(rows) ==
  IF PublishingEnabled THEN {r \in rows : r.entity \in whitelist} ELSE {}

BeginFlush(emitted) ==
  /\ running /\ outgoing = {}
  /\ \A e \in Entity : Gated(e, emitted[e])
  /\ outgoing' = Admitted(Drained(emitted))
  /\ lastFinal' = [e \in Entity |-> Max(Sealed(e) \cup {lastFinal[e]})]
  /\ lastEmitted' = [e \in Entity |-> Baseline(e, emitted[e])]
  /\ acc' = [e \in Entity |-> [m \in Minute |->
               IF m < Pivot THEN NoSamples ELSE acc[e][m]]]
  /\ pending' = << >>
  /\ coldStart' = FALSE
  /\ handed' = [e \in Entity |-> [m \in Minute |->
       handed[e][m] + Cardinality({r \in Admitted(MinuteRows(emitted)) :
                                     r.entity = e /\ r.ts = m})]]
  /\ UNCHANGED <<now, ha, lastFault, running, reloads, gateVars>>

(* Minutes of an entity ascend, transitions follow in capture order. *)
Precedes(r, q) ==
  \/ r.order < q.order
  \/ r.order = 0 /\ q.order = 0 /\ r.entity = q.entity /\ r.ts < q.ts

(* The next slice of the row list.  Entities come in the order their first *)
(* accumulator was opened, which the model leaves open.                    *)
NextChunk(chunk) ==
  /\ chunk # {}
  /\ Cardinality(chunk) = Min({ChunkSize, Cardinality(outgoing)})
  /\ \A r \in outgoing \ chunk, q \in chunk : ~Precedes(r, q)

(* The chunk is behind us: publish_telemetry returned, with the batch on    *)
(* the wire or in its queue, or build_batch rejected it (flush_rejects).    *)
ChunkDone(chunk) ==
  /\ chunk \subseteq outgoing /\ NextChunk(chunk)
  /\ outgoing' = outgoing \ chunk
  /\ UNCHANGED <<now, ha, captureVars, lastFinal, coldStart, lifeVars, gateVars>>

(* publish_telemetry raised: the flush ends, the remaining chunks are lost. *)
FlushAborted ==
  /\ outgoing # {}
  /\ outgoing' = {}
  /\ UNCHANGED <<now, ha, captureVars, lastFinal, coldStart, lifeVars, gateVars>>

-----------------------------------------------------------------------------
ChangeGate ==
  /\ running
  /\ \E msg \in Messages : SetShippingMode(msg) \/ ReconcileFromStatus(msg)
  /\ UNCHANGED <<now, ha, captureVars, lastFinal, coldStart, outgoing, lifeVars>>

(* The config entry is unloaded, or Home Assistant goes down: stop()       *)
(* cancels both loops and the listener, and all that was remembered goes   *)
(* with the coordinator.                                                   *)
Stop ==
  /\ running /\ reloads < MaxReloads
  /\ running' = FALSE
  /\ reloads' = reloads + 1
  /\ acc' = [e \in Entity |-> NoMinutes]
  /\ lastFinal' = [e \in Entity |-> Never]
  /\ lastEmitted' = [e \in Entity |-> NoState]
  /\ lastFault' = [e \in Entity |-> NoAttr]
  /\ pending' = << >>
  /\ coldStart' = TRUE
  /\ outgoing' = {}
  /\ handed' = [e \in Entity |-> [m \in Minute |-> 0]]
  /\ shippingMode' = DefaultMode
  /\ whitelist' = Entity
  /\ whitelistVersion' = -1
  /\ UNCHANGED <<now, ha>>

(* No coordinator listens: the change reaches Home Assistant only. *)
Unheard(e, s, a, m) ==
  /\ ~running
  /\ Reports(e, s, a, m)
  /\ UNCHANGED <<now, captureVars, lastFinal, coldStart, outgoing, lifeVars, gateVars>>

(* The next setup registers its listener and starts the loops of a new     *)
(* coordinator.  The current states are not captured.                      *)
Start ==
  /\ ~running /\ running' = TRUE
  /\ UNCHANGED <<now, ha, captureVars, lastFinal, coldStart, outgoing, handed, reloads,
                 gateVars>>

Tick ==
  /\ \/ now < MaxMinute /\ now' = now + 1
     \/ ClockMayStepBack /\ now > 0 /\ now' = now - 1
  /\ UNCHANGED <<ha, captureVars, lastFinal, coldStart, outgoing, lifeVars, gateVars>>

Next ==
  \/ \E e \in Entity : \E s \in StatesOf[e], a \in Attr, m \in {now, ha[e].since} :
        StateChanged(e, s, a, m) \/ Unheard(e, s, a, m)
  \/ \E emitted \in [Entity -> SUBSET Minute] : BeginFlush(emitted)
  \/ \E chunk \in SUBSET outgoing : ChunkDone(chunk)
  \/ FlushAborted
  \/ ChangeGate
  \/ Stop
  \/ Start
  \/ Tick

Spec == Init /\ [][Next]_vars

-----------------------------------------------------------------------------
(***************************************************************************)
(* Properties.                                                             *)
(***************************************************************************)
(* What makes sealing safe: a minute that still collects is newer than     *)
(* every finalised one, and what was shipped is finalised, so that no late *)
(* event reopens a minute whose row left (coordinator.py:512-533).         *)
OpenIsNotFinal == \A e \in Entity : \A m \in Open(e) : m > lastFinal[e]
HandedIsFinal  == \A e \in Entity, m \in Minute : handed[e][m] > 0 => m <= lastFinal[e]
SealedStaysSealed == OpenIsNotFinal /\ HandedIsFinal

(* A sealed minute is never shipped twice: between two reloads the flushes  *)
(* batch at most one row for an entity and minute, force-sealed first flush,*)
(* late events and a clock that is set back included (coordinator.py:513).  *)
NoDoubleShip == \A e \in Entity, m \in Minute : handed[e][m] <= 1

(* The minute rows of an entity leave in ascending order of their minute,   *)
(* across all the flushes of a coordinator: a chart never goes back.        *)
ChronologicalRows ==
  [][\A e \in Entity, m, n \in Minute :
       handed[e][m] > 0 /\ handed'[e][n] > handed[e][n] => n > m]_vars
=============================================================================
