---------------------------- MODULE RecoveryProofs ----------------------------
(***************************************************************************)
(* What holds of Recovery for any set of windows, recoveries and           *)
(* heartbeats, any depth of the queue and any number of chunks: types, that *)
(* no batch is in two hands, that an acknowledgement is honest, that        *)
(* nothing is dropped while it would fit, and that the publisher with its   *)
(* recoveries implements BatchChannel.                                     *)
(***************************************************************************)
EXTENDS Recovery, PublisherProofs

(***************************************************************************)
(* The inductive invariant.                                                *)
(***************************************************************************)
Honest(ack, set) ==
  /\ ack.result = "recovered" => ack.chunks # {} /\ ack.chunks \subseteq set
  /\ ack.result = "partial" => ack.chunks \cap set # {}

(* While a recovery publishes, its counts say what became of the chunks     *)
(* behind it: without a failure they have all arrived, and a chunk counted *)
(* as published has.  Outside of that it has nothing in hand.              *)
Tally(r) ==
  /\ stage[r] # "publishing" =>
       sending[r] = << >> /\ chunks[r] = {} /\ published[r] = 0 /\ failures[r] = 0
  /\ stage[r] = "publishing" =>
       /\ sending[r] # << >> /\ Elements(sending[r]) \subseteq chunks[r]
       /\ Len(sending[r]) + published[r] + failures[r] <= MaxChunks
       /\ failures[r] = 0 => chunks[r] \ Elements(sending[r]) \subseteq arrived
       /\ published[r] > 0 => chunks[r] \cap arrived # {}

Locals ==
  /\ stage \in [Recoveries -> {"idle", "querying", "publishing"}]
  /\ window \in [Recoveries -> Windows]
  /\ chunks \in [Recoveries -> SUBSET Batch]
  /\ published \in [Recoveries -> 0 .. MaxChunks]
  /\ failures \in [Recoveries -> 0 .. MaxChunks]
Acks ==
  /\ lastRecovery \in Ack \cup {NoAck} /\ Honest(lastRecovery, arrived)
  /\ beat \in [Heartbeats -> Ack \cup {NoAck, NoBeat}]
  /\ \A h \in Heartbeats : Honest(beat[h], arrived)

RecRest ==
  /\ Locals /\ Acks /\ commands \in 0 .. MaxCommands
  /\ \A r \in Recoveries : Tally(r)

RecInv == PubInv /\ RecRest

LEMMA SaysWhatItSays ==
  RecInv => RecoveryTypeOK /\ AckIsHonest
<1> SUFFICES ASSUME RecInv PROVE RecoveryTypeOK /\ AckIsHonest
  OBVIOUS
<1>1. RecoveryTypeOK
  BY DEF RecInv, RecRest, PubInv, Locals, Acks, RecoveryTypeOK
<1>2. AckIsHonest
  BY DEF RecInv, RecRest, Acks, Honest, AckIsHonest
<1> QED BY <1>1, <1>2

-----------------------------------------------------------------------------
(***************************************************************************)
(* The parts of a step.                                                    *)
(***************************************************************************)
(* What has arrived stays so: an honest acknowledgement remains honest. *)
LEMMA HonestGrows ==
  ASSUME NEW ack, NEW set, NEW larger, set \subseteq larger, Honest(ack, set)
  PROVE  Honest(ack, larger)
<1> QED BY DEF Honest

LEMMA ArrivedGrows ==
  ASSUME PubInv, PubStep \/ UNCHANGED pubVars
  PROVE  arrived \subseteq arrived'
<1> QED BY StepMoves DEF Settles, Builds, pubVars

LEMMA AcksKept ==
  ASSUME Acks, arrived \subseteq arrived', lastRecovery' = lastRecovery,
         beat' = beat \/ \E h \in Heartbeats : \E b \in {lastRecovery, NoBeat} : beat' = [beat EXCEPT ![h] = b]
  PROVE  Acks'
<1>0. Honest(NoBeat, arrived')
  BY DEF Honest, NoBeat
<1>1. Honest(lastRecovery, arrived') /\ \A h \in Heartbeats : Honest(beat[h], arrived')
  BY HonestGrows DEF Acks
<1> QED BY <1>0, <1>1 DEF Acks

(* An acknowledgement that is honest takes the slot and its heartbeat. *)
LEMMA FinishAcks ==
  ASSUME Locals, Acks, arrived \subseteq arrived', NEW r \in Recoveries,
         NEW result \in Results, NEW mine \in SUBSET Batch, Finish(r, result, mine),
         Honest([window |-> window[r], result |-> result, chunks |-> mine], arrived')
  PROVE  Acks'
<1>1. PICK ack \in Ack : /\ ack = [window |-> window[r], result |-> result, chunks |-> mine]
                         /\ lastRecovery' = ack /\ Honest(ack, arrived')
  BY DEF Finish, Ack, Locals
<1>2. beat' = [beat EXCEPT ![CommandBeat[r]] = ack] /\ CommandBeat[r] \in Heartbeats
  BY <1>1, RecoveryAssumption DEF Finish
<1>3. \A h \in Heartbeats : Honest(beat[h], arrived')
  BY HonestGrows DEF Acks
<1> QED BY <1>1, <1>2, <1>3 DEF Acks

LEMMA TallyKept ==
  ASSUME NEW r \in Recoveries, Tally(r), arrived \subseteq arrived', sending'[r] = sending[r],
         stage'[r] = stage[r], chunks'[r] = chunks[r], published'[r] = published[r],
         failures'[r] = failures[r]
  PROVE  Tally(r)'
<1>1. Elements(sending[r])' = Elements(sending[r])
  BY DEF Elements
<1> QED BY <1>1 DEF Tally

(* Only its own steps touch what a recovery has in hand. *)
LEMMA HandsOfOthers ==
  ASSUME PubInv, NEW r \in Recoveries
  PROVE  /\ UNCHANGED pubVars => sending'[r] = sending[r]
         /\ \A h \in Heartbeats : DrainStep(h) \/ DrainQueue(h) => sending'[r] = sending[r]
         /\ \A s \in Senders \ {r} :
              SendStep(s) \/ (\E n \in 1 .. MaxChunks : Send(s, n)) => sending'[r] = sending[r]
         /\ LinkChanges => sending'[r] = sending[r]
<1> USE DEF PubInv, PublisherTypeOK, Recoveries
<1>1. \A s \in Senders \ {r} : \A hand : sending' = [sending EXCEPT ![s] = hand] => sending'[r] = sending[r]
  OBVIOUS
<1>2. \A s \in Senders \ {r} :
        SendStep(s) \/ (\E n \in 1 .. MaxChunks : Send(s, n)) => sending'[r] = sending[r]
  BY <1>1 DEF SendStep, Sent, SendFailed, SendRaised, Send
<1>3. \A h \in Heartbeats : DrainStep(h) \/ DrainQueue(h) => sending'[r] = sending[r]
  BY DEF DrainStep, DrainSent, DrainFailed, DrainRaised, DrainQueue
<1> QED BY <1>2, <1>3 DEF pubVars, LinkChanges

(* A recovery counts in its own slots; the tallies of the others stay. *)
LEMMA OthersTally ==
  ASSUME PubInv, Locals, NEW r \in Recoveries, \A u \in Recoveries : Tally(u),
         arrived \subseteq arrived', \A u \in Recoveries \ {r} : sending'[u] = sending[u],
         NEW s, NEW c, NEW p, NEW f,
         stage' = [stage EXCEPT ![r] = s] \/ stage' = stage,
         chunks' = [chunks EXCEPT ![r] = c] \/ chunks' = chunks,
         published' = [published EXCEPT ![r] = p] \/ published' = published,
         failures' = [failures EXCEPT ![r] = f] \/ failures' = failures
  PROVE  \A u \in Recoveries \ {r} : Tally(u)'
<1> SUFFICES ASSUME NEW u \in Recoveries \ {r} PROVE Tally(u)'
  OBVIOUS
<1>1. stage'[u] = stage[u] /\ chunks'[u] = chunks[u]
  BY DEF Locals
<1>2. published'[u] = published[u] /\ failures'[u] = failures[u]
  BY DEF Locals
<1> QED BY <1>1, <1>2, TallyKept

(* A chunk is behind its recovery: it arrived, or it is a failure.  With    *)
(* the last one the result says what became of all of them.                *)
LEMMA ChunkCounted ==
  ASSUME PubInv, RecRest, NEW r \in Recoveries, sending[r] # << >>,
         NEW ok \in 0 .. 1, NEW failed \in 0 .. 1, ok + failed = 1, Count(r, ok, failed),
         sending' = [sending EXCEPT ![r] = Tail(@)], UNCHANGED window,
         arrived \subseteq arrived', ok = 1 => Head(sending[r]) \in arrived'
  PROVE  Locals' /\ Acks' /\ \A u \in Recoveries : Tally(u)'
<1>1. PICK head, rest : /\ head = Head(sending[r]) /\ rest = Tail(sending[r])
                        /\ rest \in Seq(Batch) /\ Len(rest) = Len(sending[r]) - 1
                        /\ Elements(sending[r]) = {head} \cup Elements(rest)
  <2>1. sending[r] \in Seq(Batch)
    BY DEF PubInv, PublisherTypeOK, Recoveries
  <2>2. /\ Tail(sending[r]) \in Seq(Batch) /\ Len(Tail(sending[r])) = Len(sending[r]) - 1
        /\ Elements(sending[r]) = {Head(sending[r])} \cup Elements(Tail(sending[r]))
    BY <2>1, OfTail
  <2> QED BY <2>2
<1>2. /\ stage[r] = "publishing" /\ Locals /\ Acks /\ MaxChunks \in Nat
      /\ published[r] \in 0 .. MaxChunks /\ failures[r] \in 0 .. MaxChunks
      /\ chunks[r] \in SUBSET Batch /\ {head} \cup Elements(rest) \subseteq chunks[r]
      /\ Len(rest) + 1 + published[r] + failures[r] <= MaxChunks
      /\ failures[r] = 0 => chunks[r] \ ({head} \cup Elements(rest)) \subseteq arrived
      /\ published[r] > 0 => chunks[r] \cap arrived # {}
  BY <1>1, PublisherAssumption DEF RecRest, Tally, Locals
<1>3. sending'[r] = rest /\ \A u \in Recoveries \ {r} : sending'[u] = sending[u]
  BY <1>1 DEF PubInv, PublisherTypeOK, Recoveries
<1>4. PICK p, f : p = published[r] + ok /\ f = failures[r] + failed
  OBVIOUS
<1>5. /\ p \in 0 .. MaxChunks /\ f \in 0 .. MaxChunks /\ Len(rest) + p + f <= MaxChunks
      /\ Len(rest) \in Nat
      /\ f = 0 => ok = 1 /\ failures[r] = 0
      /\ p > 0 => ok = 1 \/ published[r] > 0
      /\ p = 0 => f > 0
  <2>1. PICK length \in Nat : length = Len(rest)
    BY <1>1
  <2>2. /\ published[r] \in Nat /\ failures[r] \in Nat /\ MaxChunks \in Nat
        /\ length + 1 + published[r] + failures[r] <= MaxChunks
    BY <1>2, <2>1
  <2>3. (ok = 1 /\ failed = 0) \/ (ok = 0 /\ failed = 1)
    OBVIOUS
  <2>4. /\ p \in 0 .. MaxChunks /\ f \in 0 .. MaxChunks /\ length + p + f <= MaxChunks
        /\ f = 0 => ok = 1 /\ failures[r] = 0
        /\ p > 0 => ok = 1 \/ published[r] > 0
        /\ p = 0 => f > 0
    <3>1. CASE ok = 1 /\ failed = 0
      BY <1>4, <2>2, <3>1
    <3>2. CASE ok = 0 /\ failed = 1
      BY <1>4, <2>2, <3>2
    <3> QED BY <2>3, <3>1, <3>2
  <2> QED BY <2>1, <2>4
<1>6. /\ f = 0 => chunks[r] \ Elements(rest) \subseteq arrived'
      /\ p > 0 => chunks[r] \cap arrived' # {}
  BY <1>1, <1>2, <1>5
<1>7. CASE rest = << >>
  <2>1. /\ Finish(r, ResultOf(p, f), chunks[r])
        /\ chunks' = [chunks EXCEPT ![r] = {}]
        /\ published' = [published EXCEPT ![r] = 0]
        /\ failures' = [failures EXCEPT ![r] = 0]
        /\ stage' = [stage EXCEPT ![r] = "idle"]
    BY <1>3, <1>4, <1>7 DEF Count, Finish
  <2>2. Elements(rest) = {}
    BY <1>7 DEF Elements
  <2>3. /\ ResultOf(p, f) \in Results
        /\ ResultOf(p, f) = "recovered" => f = 0 /\ p > 0
        /\ ResultOf(p, f) = "partial" => p > 0
    BY <1>5 DEF ResultOf, Results
  <2>4. Honest([window |-> window[r], result |-> ResultOf(p, f), chunks |-> chunks[r]], arrived')
    BY <1>2, <1>6, <2>2, <2>3 DEF Honest
  <2>5. Acks'
    BY <1>2, <2>1, <2>3, <2>4, FinishAcks
  <2>6. Locals'
    BY <1>2, <2>1 DEF Locals
  <2>7. Tally(r)'
    BY <1>2, <1>3, <1>7, <2>1 DEF Tally, Locals
  <2>8. \A u \in Recoveries \ {r} : Tally(u)'
    BY <1>2, <1>3, <2>1, OthersTally DEF RecRest
  <2> QED BY <2>5, <2>6, <2>7, <2>8
<1>8. CASE rest # << >>
  <2>1. /\ published' = [published EXCEPT ![r] = p] /\ failures' = [failures EXCEPT ![r] = f]
        /\ UNCHANGED <<stage, chunks, lastRecovery, beat>>
    BY <1>2, <1>3, <1>4, <1>8 DEF Count, Locals
  <2>2. Acks'
    BY <1>2, <2>1, AcksKept
  <2>3. Locals'
    BY <1>2, <1>5, <2>1 DEF Locals
  <2>4. Tally(r)'
    <3>1. Elements(sending[r])' = Elements(rest)
      BY <1>3 DEF Elements
    <3>2. published'[r] = p /\ failures'[r] = f /\ chunks'[r] = chunks[r] /\ stage'[r] = stage[r]
      BY <1>2, <2>1 DEF Locals
    <3> QED BY <1>2, <1>3, <1>5, <1>6, <1>8, <3>1, <3>2 DEF Tally
  <2>5. \A u \in Recoveries \ {r} : Tally(u)'
    BY <1>2, <1>3, <2>1, OthersTally DEF RecRest
  <2> QED BY <2>2, <2>3, <2>4, <2>5
<1> QED BY <1>7, <1>8

-----------------------------------------------------------------------------
(***************************************************************************)
(* The steps.                                                              *)
(***************************************************************************)
(* To the publisher a step of Recovery is one of its own, or nothing. *)
LEMMA StepOfPublisher ==
  ASSUME RecoveryNext
  PROVE  PubStep \/ UNCHANGED pubVars
<1>1. \A s \in Senders : (\E n \in 1 .. MaxChunks : Send(s, n)) => PubStep
  BY PublisherAssumption DEF PubStep
<1>2. \A s \in Senders : SendStep(s) => PubStep
  BY DEF PubStep
<1>3. \A h \in Heartbeats : DrainStep(h) \/ DrainQueue(h) => PubStep
  BY DEF PubStep
<1>4. LinkChanges => PubStep
  BY DEF PubStep
<1>5. ASSUME NEW r \in Recoveries, RecoveryStep(r) PROVE PubStep \/ UNCHANGED pubVars
  BY <1>5, <1>1, <1>2
  DEF RecoveryStep, NothingToPublish, PublishChunks, ChunkSent, ChunkFailed, SendStep, Recoveries
<1>6. ASSUME NEW r \in Recoveries, NEW w \in Windows, RecoverWindow(r, w) PROVE UNCHANGED pubVars
  BY <1>6 DEF RecoverWindow
<1>7. ASSUME NEW h \in Heartbeats, HeartbeatPublished(h) \/ HeartbeatRaised(h)
      PROVE  PubStep \/ UNCHANGED pubVars
  BY <1>7, <1>3 DEF HeartbeatPublished, HeartbeatRaised
<1>8. ASSUME OtherStep PROVE PubStep
  BY <1>8, <1>1, <1>2, <1>3, <1>4, PublisherAssumption DEF OtherStep
<1> QED BY <1>5, <1>6, <1>7, <1>8 DEF RecoveryNext, HeartbeatBuilt

(* The command starts, the recorder answers, the chunks go out one by one. *)
LEMMA RecoveryStepRests ==
  ASSUME PubInv, RecRest, arrived \subseteq arrived', NEW r \in Recoveries,
         RecoveryStep(r) \/ \E w \in Windows : RecoverWindow(r, w)
  PROVE  RecRest'
<1>0. /\ Locals /\ Acks /\ commands \in 0 .. MaxCommands /\ \A u \in Recoveries : Tally(u)
      /\ MaxCommands \in Nat /\ MaxChunks \in Nat /\ r \in Senders /\ r # BatchLoop
  BY RecoveryAssumption, PublisherAssumption DEF RecRest, Recoveries
<1>1. ASSUME NEW w \in Windows, RecoverWindow(r, w) PROVE RecRest'
  <2>1. /\ stage[r] = "idle" /\ stage' = [stage EXCEPT ![r] = "querying"]
        /\ window' = [window EXCEPT ![r] = w]
        /\ UNCHANGED <<sending, arrived, chunks, published, failures, lastRecovery, beat>>
        /\ commands' \in 0 .. MaxCommands
    BY <1>0, <1>1 DEF RecoverWindow, pubVars, tally
  <2>2. Locals' /\ Acks'
    BY <1>0, <2>1, AcksKept DEF Locals
  <2>3. \A u \in Recoveries \ {r} : Tally(u)'
    BY <1>0, <2>1, OthersTally
  <2>4. Tally(r)'
    BY <1>0, <2>1 DEF Tally, Locals
  <2> QED BY <2>1, <2>2, <2>3, <2>4 DEF RecRest
<1>2. CASE NothingToPublish(r)
  <2>1. PICK result \in {"error", "no_data"} : Finish(r, result, {})
    BY <1>2 DEF NothingToPublish
  <2>2. /\ stage[r] = "querying" /\ stage' = [stage EXCEPT ![r] = "idle"]
        /\ UNCHANGED <<sending, arrived, chunks, published, failures, window, commands>>
    BY <1>2, <2>1 DEF NothingToPublish, Finish, pubVars, tally
  <2>3. result \in Results /\ result # "recovered" /\ result # "partial"
    BY DEF Results
  <2>4. Acks'
    <3>1. Honest([window |-> window[r], result |-> result, chunks |-> {}], arrived')
      BY <2>3 DEF Honest
    <3> QED BY <1>0, <2>1, <2>3, <3>1, FinishAcks
  <2>5. Locals'
    BY <1>0, <2>2 DEF Locals
  <2>6. \A u \in Recoveries \ {r} : Tally(u)'
    BY <1>0, <2>2, OthersTally
  <2>7. Tally(r)'
    BY <1>0, <2>2 DEF Tally, Locals
  <2> QED BY <1>0, <2>2, <2>4, <2>5, <2>6, <2>7 DEF RecRest
<1>3. ASSUME NEW n \in 1 .. MaxChunks, NEW rejected \in 0 .. MaxChunks,
             PublishChunks(r, n, rejected)
      PROVE  RecRest'
  <2>1. PICK hand : /\ hand = [i \in 1 .. n |-> produced + i]
                    /\ sending' = [sending EXCEPT ![r] = hand]
    BY <1>3 DEF PublishChunks, Send
  <2>2. PICK mine : /\ mine = produced + 1 .. produced + n
                    /\ chunks' = [chunks EXCEPT ![r] = mine]
    BY <1>3 DEF PublishChunks
  <2>3. /\ stage[r] = "querying" /\ stage' = [stage EXCEPT ![r] = "publishing"]
        /\ failures' = [failures EXCEPT ![r] = rejected]
        /\ UNCHANGED <<published, lastRecovery, window, beat, commands>>
        /\ produced \in Nat /\ produced + n <= MaxBatches /\ n + rejected <= MaxChunks
    BY <1>3 DEF PublishChunks, Send, PubInv, PublisherTypeOK
  <2>4. /\ hand # << >> /\ Len(hand) = n /\ mine \in SUBSET Batch
        /\ Elements(hand) = mine
    <3>1. Send(r, n) /\ n \in Nat \ {0}
      BY <1>3 DEF PublishChunks
    <3>2. Builds(r, n)
      BY <1>0, <3>1, SendBuilds
    <3>3. HandOf(r)' = hand
      BY <1>0, <2>1 DEF HandOf, PubInv, PublisherTypeOK
    <3>4. Elements(HandOf(r))' = Elements(hand)
      BY <3>3 DEF Elements
    <3>5. DOMAIN hand = 1 .. n /\ hand \in Seq(Nat)
      BY <2>1, <2>3
    <3>6. mine \in SUBSET Batch
      BY <2>2, <2>3, PublisherAssumption DEF Batch
    <3> QED BY <2>2, <3>1, <3>2, <3>4, <3>5, <3>6 DEF Builds
  <2>5. Locals' /\ Acks'
    BY <1>0, <2>2, <2>3, <2>4, AcksKept DEF Locals
  <2>6. /\ sending'[r] = hand /\ \A u \in Recoveries \ {r} : sending'[u] = sending[u]
    BY <1>0, <2>1 DEF PubInv, PublisherTypeOK, Recoveries
  <2>7. \A u \in Recoveries \ {r} : Tally(u)'
    BY <1>0, <2>2, <2>3, <2>6, OthersTally
  <2>8. Tally(r)'
    <3>1. /\ stage'[r] = "publishing" /\ chunks'[r] = mine /\ published'[r] = 0
          /\ failures'[r] = rejected
      BY <1>0, <2>2, <2>3 DEF Locals, Tally
    <3>2. Elements(sending[r])' = mine
      BY <2>4, <2>6 DEF Elements
    <3> QED BY <2>3, <2>4, <2>6, <3>1, <3>2 DEF Tally
  <2> QED BY <1>0, <2>3, <2>5, <2>7, <2>8 DEF RecRest
<1>4. CASE ChunkSent(r)
  <2>1. /\ sending[r] # << >> /\ sending' = [sending EXCEPT ![r] = Tail(@)]
        /\ Head(sending[r]) \in arrived' /\ UNCHANGED <<window, commands>> /\ Count(r, 1, 0)
    BY <1>4 DEF ChunkSent, Sent
  <2>2. Locals' /\ Acks' /\ \A u \in Recoveries : Tally(u)'
    <3>1. 1 \in 0 .. 1 /\ 0 \in 0 .. 1 /\ 1 + 0 = 1
      OBVIOUS
    <3> QED BY <2>1, <3>1, ChunkCounted
  <2> QED BY <1>0, <2>1, <2>2 DEF RecRest
<1>5. CASE ChunkFailed(r)
  <2>1. /\ sending[r] # << >> /\ sending' = [sending EXCEPT ![r] = Tail(@)]
        /\ UNCHANGED <<window, commands>> /\ Count(r, 0, 1)
    BY <1>0, <1>5 DEF ChunkFailed, SendFailed, SendRaised
  <2>2. Locals' /\ Acks' /\ \A u \in Recoveries : Tally(u)'
    <3>1. 0 \in 0 .. 1 /\ 1 \in 0 .. 1 /\ 0 + 1 = 1 /\ 0 # 1
      OBVIOUS
    <3> QED BY <2>1, <3>1, ChunkCounted
  <2> QED BY <1>0, <2>1, <2>2 DEF RecRest
<1> QED BY <1>1, <1>2, <1>3, <1>4, <1>5 DEF RecoveryStep

(* Of the rest, heartbeats change what they carry and nothing else. *)
LEMMA BeatStepRests ==
  ASSUME PubInv, RecRest, arrived \subseteq arrived',
         \/ HeartbeatBuilt
         \/ \E h \in Heartbeats : HeartbeatPublished(h) \/ HeartbeatRaised(h)
         \/ OtherStep
  PROVE  RecRest'
<1>1. /\ UNCHANGED <<stage, window, tally, lastRecovery, commands>>
      /\ beat' = beat \/ \E h \in Heartbeats : \E b \in {lastRecovery, NoBeat} : beat' = [beat EXCEPT ![h] = b]
  BY PublisherAssumption DEF HeartbeatBuilt, HeartbeatPublished, HeartbeatRaised, OtherStep
<1>2. \A r \in Recoveries : sending'[r] = sending[r]
  BY HandsOfOthers, PublisherAssumption
  DEF HeartbeatBuilt, HeartbeatPublished, HeartbeatRaised, OtherStep, Recoveries
<1>3. Acks' /\ Locals'
  BY <1>1, AcksKept DEF RecRest, Locals, tally
<1>4. \A r \in Recoveries : Tally(r)'
  BY <1>1, <1>2, TallyKept DEF RecRest, tally
<1> QED BY <1>1, <1>3, <1>4 DEF RecRest

LEMMA InitRecovery == RecoveryInit => RecInv
<1> SUFFICES ASSUME RecoveryInit PROVE RecInv
  OBVIOUS
<1>1. PubInv
  BY InitPublisher DEF RecoveryInit
<1>2. Locals /\ commands \in 0 .. MaxCommands
  BY PublisherAssumption, RecoveryAssumption DEF RecoveryInit, Locals
<1>3. Acks
  BY DEF RecoveryInit, Acks, Honest, NoAck, NoBeat
<1>4. \A r \in Recoveries : Tally(r)
  BY DEF RecoveryInit, PublisherInit, Tally, Recoveries
<1> QED BY <1>1, <1>2, <1>3, <1>4 DEF RecInv, RecRest

LEMMA NextRecovery == RecInv /\ [RecoveryNext]_recVars => RecInv'
<1> SUFFICES ASSUME RecInv, [RecoveryNext]_recVars PROVE RecInv'
  OBVIOUS
<1>1. CASE RecoveryNext
  <2>1. PubInv /\ RecRest /\ (PubStep \/ UNCHANGED pubVars)
    BY <1>1, StepOfPublisher DEF RecInv
  <2>2. PubInv' /\ arrived \subseteq arrived'
    BY <2>1, StepPublisher, StillPublisher, ArrivedGrows
  <2>3. RecRest'
    BY <1>1, <2>1, <2>2, RecoveryStepRests, BeatStepRests DEF RecoveryNext
  <2> QED BY <2>2, <2>3 DEF RecInv
<1>2. CASE UNCHANGED recVars
  <2>1. /\ UNCHANGED <<sending, arrived, stage, window, chunks, published, failures,
                       lastRecovery, beat, commands>>
        /\ UNCHANGED pubVars
    BY <1>2 DEF recVars, pubVars, tally
  <2>2. PubInv'
    BY <2>1, StillPublisher DEF RecInv
  <2>3. Locals' /\ Acks'
    BY <2>1, AcksKept DEF RecInv, RecRest, Locals
  <2>4. \A r \in Recoveries : Tally(r)'
    BY <2>1, TallyKept DEF RecInv, RecRest
  <2> QED BY <2>1, <2>2, <2>3, <2>4 DEF RecInv, RecRest
<1> QED BY <1>1, <1>2

LEMMA RecoveryHolds == RecoverySpec => []RecInv
<1> QED BY InitRecovery, NextRecovery, PTL DEF RecoverySpec

-----------------------------------------------------------------------------
(* Every variable of a recovery keeps its type, and the queue its bound, *)
(* whatever the recorder and the broker answer.                          *)
THEOREM RecoveryTypeCorrect == RecoverySpec => []RecoveryTypeOK
<1> QED BY RecoveryHolds, SaysWhatItSays, PTL

(* A recovery never claims more than is so (recovery.py:559-586): each     *)
(* chunk of a "recovered" window has reached the broker, and one at least *)
(* of a "partial" one, in the slot and in every heartbeat under way.      *)
THEOREM RecoveryAckIsHonest == RecoverySpec => []AckIsHonest
<1> QED BY RecoveryHolds, SaysWhatItSays, PTL

(* No batch is twice in the queue and the tasks together, however flushes, *)
(* recoveries and draining heartbeats overlap (publisher.py:177-193).      *)
THEOREM BatchInOneHand == RecoverySpec => []InOneHand
<1>1. RecInv => InOneHand
  BY DEF RecInv, PubInv
<1> QED BY <1>1, RecoveryHolds, PTL

(* As long as all the batches ever built would fit the queue, putting one  *)
(* in, or putting a failed drain back, loses none (publisher.py:160-193).  *)
THEOREM QueueDropsNothing == RecoverySpec => NothingDroppedBelowCapacity
<1>1. RecInv /\ [RecoveryNext]_recVars
        => [produced <= MaxQueueDepth /\ queue' # queue => lost' = lost]_pubVars
  <2> SUFFICES ASSUME RecInv, [RecoveryNext]_recVars, produced <= MaxQueueDepth, queue' # queue
               PROVE  lost' = lost
    BY DEF pubVars
  <2>1. RecoveryNext
    BY DEF recVars, pubVars
  <2>2. PubInv /\ PubStep
    BY <2>1, StepOfPublisher DEF RecInv, pubVars
  <2> QED BY <2>2, StepDropsNothing
<1> QED BY <1>1, RecoveryHolds, PTL DEF RecoverySpec, NothingDroppedBelowCapacity

(* The publisher with its recoveries implements BatchChannel: a batch       *)
(* leaves the queue and the tasks only as arrived or as lost.              *)
THEOREM RecoveryImplementsChannel == RecoverySpec => ImplementsChannel
<1>1. RecoveryInit => Channel!ChanInit
  <2> SUFFICES ASSUME RecoveryInit PROVE Channel!ChanInit
    OBVIOUS
  <2>1. Known /\ produced = 0 /\ arrived = {} /\ lost = {}
    BY InitRecovery DEF RecInv, PubInv, RecoveryInit, PublisherInit
  <2> QED BY <2>1 DEF Known, Channel!ChanInit
<1>2. RecInv /\ [RecoveryNext]_recVars => [Channel!Build \/ Channel!Settle]_Channel!chanVars
  <2> SUFFICES ASSUME RecInv, [RecoveryNext]_recVars PROVE [Channel!Build \/ Channel!Settle]_Channel!chanVars
    OBVIOUS
  <2>1. PubInv /\ (PubStep \/ UNCHANGED pubVars)
    BY StepOfPublisher DEF RecInv, recVars
  <2>2. CASE PubStep
    BY <2>1, <2>2, StepOnChannel
  <2>3. CASE UNCHANGED pubVars
    BY <2>1, <2>3, StillPublisher DEF Channel!chanVars, pubVars
  <2> QED BY <2>1, <2>2, <2>3
<1> QED BY <1>1, <1>2, RecoveryHolds, PTL DEF RecoverySpec, ImplementsChannel, Channel!ChanSpec
=============================================================================
