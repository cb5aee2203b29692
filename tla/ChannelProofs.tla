---------------------------- MODULE ChannelProofs ----------------------------
(***************************************************************************)
(* What holds of CommandChannel for any set of entities, lists and task    *)
(* slots, however many commands, drops, rebuilds and reloads there are:    *)
(* its type invariant, that no whitelist rides under another's version,    *)
(* that the held version never goes back, that the channel implements      *)
(* VersionedRegister, and that the gate holds the newest list once quiet.  *)
(***************************************************************************)
EXTENDS CommandChannel, SequenceTheorems, TLAPS

(***************************************************************************)
(* The inductive invariant.                                                *)
(***************************************************************************)
(* A message carries a list exactly as the cloud numbered it. *)
Genuine(msg) ==
  msg.hasList => msg.version \in DOMAIN cloudLists /\ msg.list = cloudLists[msg.version]

OnItsWay ==
  /\ \A i \in DOMAIN inbox : Genuine(inbox[i])
  /\ \A t \in Tasks : Answered(t) => Genuine(task[t])

(* What the gate holds is what the cloud numbered so. *)
HeldIsGenuine ==
  whitelistVersion # -1 =>
    whitelistVersion \in DOMAIN cloudLists /\ whitelist = cloudLists[whitelistVersion]

(* Untroubled since the last full pull, the client has its callback or is   *)
(* about to subscribe; the broker has the session, or the link is down, or *)
(* a task is about to subscribe.                                           *)
Wired ==
  /\ callback => recorded
  /\ trouble = {} => callback \/ \E t \in Tasks : At(t, "subscribe")
  /\ trouble = {} => session \/ ~connected
                       \/ \E t \in Tasks : At(t, "subscribe") \/ At(t, "resubscribe")

Newest == Len(cloudLists)
IsNewest(msg) == msg.hasList /\ msg.version = Newest

(* The newest list is in the gate, or somewhere on its way. *)
Carries(t) == \/ At(t, "subscribe") \/ At(t, "resubscribe") \/ At(t, "pull")
              \/ Answered(t) /\ IsNewest(task[t])
Comes ==
  \/ whitelistVersion = Newest
  \/ ~connected
  \/ \E t \in Tasks : Carries(t)
  \/ callback /\ \E i \in DOMAIN inbox : IsNewest(inbox[i])
NewestComes == trouble = {} /\ cloudLists # << >> => Comes

ChannelInv == ChannelTypeOK /\ OnItsWay /\ HeldIsGenuine /\ Wired /\ NewestComes

-----------------------------------------------------------------------------
(***************************************************************************)
(* The gate, and what a task slot may hold.                                *)
(***************************************************************************)
(* An answer is no step: the two are told apart by their fields. *)
LEMMA AnswerIsNoStep ==
  /\ \A msg \in Message : "mode" \in DOMAIN msg /\ \A step \in Steps : msg # [at |-> step]
  /\ \A r \in [at : Steps] : "mode" \notin DOMAIN r
<1>1. ASSUME NEW msg \in Message PROVE "mode" \in DOMAIN msg
  BY DEF Message
<1>2. ASSUME NEW r \in [at : Steps] PROVE "mode" \notin DOMAIN r
  OBVIOUS
<1>3. \A step \in Steps : [at |-> step] \in [at : Steps]
  OBVIOUS
<1> QED BY <1>1, <1>2, <1>3

(* A genuine list is taken exactly when it is newer than the held one. *)
LEMMA TakesNewer ==
  ASSUME ChannelTypeOK, NEW msg \in Message, Genuine(msg), TakeList(msg)
  PROVE  \/ /\ UNCHANGED <<whitelist, whitelistVersion>>
            /\ msg.hasList => msg.version <= whitelistVersion
         \/ /\ msg.hasList /\ msg.version > whitelistVersion
            /\ whitelist' = msg.list /\ whitelistVersion' = msg.version
<1>1. CASE ~msg.hasList
  BY <1>1 DEF TakeList
<1>2. CASE msg.hasList
  <2>1. msg.version \in Nat /\ whitelistVersion \in Nat \cup {-1} /\ msg.version # NoVersion
    BY <1>2 DEF Genuine, ChannelTypeOK, GateTypeOK, Message, NoVersion
  <2> QED BY <1>2, <2>1 DEF TakeList, SetWhitelist, Stale
<1>3. msg.hasList \in BOOLEAN
  BY DEF Message
<1> QED BY <1>1, <1>2, <1>3

(* What a step does to the lists and the gate: nothing, one more list of the *)
(* cloud, a newer list for the gate, or a new gate.                        *)
Writes == /\ \E list \in CloudLists : cloudLists' = Append(cloudLists, list)
          /\ UNCHANGED <<whitelist, whitelistVersion, reloads>>
Adopts == /\ \E n \in DOMAIN cloudLists :
               n > whitelistVersion /\ whitelistVersion' = n /\ whitelist' = cloudLists[n]
          /\ UNCHANGED <<cloudLists, reloads>>
Stays  == UNCHANGED <<cloudLists, whitelist, whitelistVersion, reloads>>
Anew   == /\ whitelist' = Entity /\ whitelistVersion' = -1 /\ UNCHANGED cloudLists
          /\ reloads' = reloads + 1

LEMMA TakingIsAdopting ==
  ASSUME ChannelTypeOK, NEW msg \in Message, Genuine(msg), TakeList(msg),
         UNCHANGED <<cloudLists, reloads>>
  PROVE  /\ Adopts \/ Stays
         /\ IsNewest(msg) => whitelistVersion' >= Newest
<1>1. CASE UNCHANGED <<whitelist, whitelistVersion>> /\ (msg.hasList => msg.version <= whitelistVersion)
  BY <1>1 DEF Stays, IsNewest, Newest
<1>2. CASE /\ msg.hasList /\ msg.version > whitelistVersion
           /\ whitelist' = msg.list /\ whitelistVersion' = msg.version
  <2>1. msg.version \in DOMAIN cloudLists /\ msg.list = cloudLists[msg.version]
    BY <1>2 DEF Genuine
  <2>2. Newest \in Nat
    BY DEF ChannelTypeOK, Newest
  <2> QED BY <1>2, <2>1, <2>2 DEF Adopts, IsNewest
<1> QED BY <1>1, <1>2, TakesNewer

(* The messages that are taken are those of OnItsWay. *)
LEMMA HeadIsGenuine ==
  ASSUME ChannelTypeOK, OnItsWay, inbox # << >>
  PROVE  Head(inbox) \in Message /\ Genuine(Head(inbox))
<1>1. 1 \in DOMAIN inbox /\ Head(inbox) = inbox[1] /\ inbox[1] \in Message
  BY DEF ChannelTypeOK
<1> QED BY <1>1 DEF OnItsWay

LEMMA AnswerIsGenuine ==
  ASSUME ChannelTypeOK, OnItsWay, NEW t \in Tasks, Answered(t)
  PROVE  task[t] \in Message /\ Genuine(task[t])
<1>1. task[t] \in Message
  BY AnswerIsNoStep DEF ChannelTypeOK, Answered
<1> QED BY <1>1 DEF OnItsWay

LEMMA StepOnRegister ==
  ASSUME ChannelTypeOK, OnItsWay, ChannelNext
  PROVE  Writes \/ Adopts \/ Stays \/ Anew
<1>1. ASSUME NEW mode \in CloudModes, NEW list \in CloudLists, NEW hasList \in BOOLEAN,
             CloudCommands(mode, list, hasList)
      PROVE  Writes \/ Stays
  BY <1>1 DEF CloudCommands, Writes, Stays, gateVars
<1>2. ASSUME Deliver \/ DeliverUnacked PROVE Adopts \/ Stays
  <2>1. UNCHANGED <<cloudLists, reloads>> /\ inbox # << >>
    BY <1>2 DEF Deliver, DeliverUnacked, cloud
  <2>2. SetShippingMode(Head(inbox)) \/ UNCHANGED gateVars
    BY <1>2 DEF Deliver, DeliverUnacked
  <2> QED BY <2>1, <2>2, HeadIsGenuine, TakingIsAdopting DEF SetShippingMode, Stays, gateVars
<1>3. ASSUME LinkDrops \/ SessionExpires PROVE Stays
  BY <1>3 DEF LinkDrops, SessionExpires, Stays, cloud, gateVars
<1>4. ASSUME NEW t \in Tasks, AutoResume(t) \/ PublishReconnect(t) PROVE Stays
  BY <1>4 DEF AutoResume, PublishReconnect, Stays, cloud, gateVars
<1>5. ASSUME NEW t \in Tasks, TaskStep(t) PROVE Adopts \/ Stays
  <2>1. CASE StatusApplied(t)
    <3>1. UNCHANGED <<cloudLists, reloads>> /\ TakeList(task[t]) /\ Answered(t)
      BY <2>1 DEF StatusApplied, ReconcileFromStatus, cloud
    <3> QED BY <3>1, AnswerIsGenuine, TakingIsAdopting
  <2>2. CASE \/ \E failure \in Failures : Resubscribe(t, failure) \/ Subscribe(t, failure)
             \/ StatusRead(t) \/ StatusFailed(t)
    BY <2>2 DEF Resubscribe, Subscribe, StatusRead, StatusFailed, Stays, cloud, gateVars
  <2> QED BY <1>5, <2>1, <2>2 DEF TaskStep
<1>6. ASSUME NEW t \in Tasks, ReloadEntry(t) PROVE Anew
  BY <1>6 DEF ReloadEntry, Anew, cloud
<1> QED BY <1>1, <1>2, <1>3, <1>4, <1>5, <1>6 DEF ChannelNext

-----------------------------------------------------------------------------
(***************************************************************************)
(* Types.                                                                  *)
(***************************************************************************)
(* The slots, the broker's and the client's bits. *)
SlotType == task \in [Tasks -> Message \cup [at : Steps]]
BitType  == {session, connected, recorded, callback} \subseteq BOOLEAN /\ trouble \subseteq Troubles

LEMMA StepSlots ==
  ASSUME ChannelTypeOK, ChannelNext
  PROVE  SlotType' /\ BitType'
<1> USE DEF SlotType, BitType
<1>0. SlotType /\ BitType
  BY DEF ChannelTypeOK
<1>1. ASSUME NEW t \in Tasks, NEW step \in Steps, Go(t, step) PROVE SlotType'
  BY <1>0, <1>1 DEF Go
<1>2. {"idle", "subscribe", "resubscribe", "reregister", "pull"} = Steps
  BY DEF Steps
<1>3. ASSUME NEW mode \in CloudModes, NEW list \in CloudLists, NEW hasList \in BOOLEAN,
             CloudCommands(mode, list, hasList)
      PROVE  SlotType' /\ BitType'
  BY <1>0, <1>3 DEF CloudCommands
<1>4. ASSUME Deliver \/ DeliverUnacked \/ LinkDrops \/ SessionExpires PROVE SlotType' /\ BitType'
  BY <1>0, <1>4 DEF Deliver, DeliverUnacked, LinkDrops, SessionExpires
<1>5. ASSUME NEW t \in Tasks, AutoResume(t) \/ PublishReconnect(t) PROVE SlotType' /\ BitType'
  BY <1>0, <1>1, <1>2, <1>5 DEF AutoResume, PublishReconnect, Troubles
<1>6. ASSUME NEW t \in Tasks, NEW failure \in Failures, Resubscribe(t, failure)
      PROVE  SlotType' /\ BitType'
  BY <1>0, <1>1, <1>2, <1>6 DEF Resubscribe, TroubleIf, Subscribed, Troubles
<1>7. ASSUME NEW t \in Tasks, NEW failure \in Failures, Subscribe(t, failure)
      PROVE  SlotType' /\ BitType'
  BY <1>0, <1>1, <1>2, <1>7 DEF Subscribe, TroubleIf, Subscribed, Troubles
<1>8. ASSUME NEW t \in Tasks, StatusRead(t) PROVE SlotType' /\ BitType'
  <2> DEFINE answer == [mode |-> cloudMode, hasList |-> cloudLists # << >>,
                        list |-> IF cloudLists = << >> THEN {} ELSE Last(cloudLists),
                        version |-> IF cloudLists = << >> THEN NoVersion ELSE Len(cloudLists)]
  <2>1. cloudLists # << >> => Last(cloudLists) \in SUBSET Entity
    BY ChannelAssumption DEF ChannelTypeOK, Last
  <2>2. answer \in Message
    BY <2>1 DEF Message, ChannelTypeOK
  <2>3. task' = [task EXCEPT ![t] = answer] /\ UNCHANGED linkVars /\ trouble' \in {{}, trouble}
    BY <1>8 DEF StatusRead
  <2> HIDE DEF answer
  <2> QED BY <1>0, <2>2, <2>3 DEF linkVars
<1>9. ASSUME NEW t \in Tasks, StatusApplied(t) \/ StatusFailed(t) PROVE SlotType' /\ BitType'
  BY <1>0, <1>1, <1>2, <1>9 DEF StatusApplied, StatusFailed, linkVars, Troubles
<1>10. ASSUME NEW t \in Tasks, ReloadEntry(t) PROVE SlotType' /\ BitType'
  BY <1>0, <1>2, <1>10 DEF ReloadEntry, StartUp
<1> QED
  BY <1>3, <1>4, <1>5, <1>6, <1>7, <1>8, <1>9, <1>10 DEF ChannelNext, TaskStep

(* A command carries a list under the number it has just been given. *)
LEMMA CommandIsGenuine ==
  ASSUME ChannelTypeOK, NEW mode \in CloudModes, NEW list \in CloudLists, NEW hasList \in BOOLEAN,
         CloudCommands(mode, list, hasList)
  PROVE  \/ inbox' = inbox
         \/ \E msg \in Message : /\ inbox' = Append(inbox, msg) /\ msg.hasList = hasList
                                 /\ msg.list = list
                                 /\ hasList => msg.version = Newest'
<1> DEFINE msg == [mode |-> mode, hasList |-> hasList, list |-> list,
                   version |-> IF hasList THEN Len(cloudLists') ELSE NoVersion]
<1>1. Len(cloudLists') \in Nat
  BY DEF CloudCommands, ChannelTypeOK
<1>2. msg \in Message
  BY <1>1, ChannelAssumption DEF Message
<1>3. inbox' = inbox \/ inbox' = Append(inbox, msg)
  BY DEF CloudCommands
<1>4. /\ msg.hasList = hasList /\ msg.list = list
      /\ hasList => msg.version = Newest'
  BY DEF Newest
<1> HIDE DEF msg
<1> QED BY <1>2, <1>3, <1>4

LEMMA StepType ==
  ASSUME ChannelTypeOK, OnItsWay, ChannelNext
  PROVE  ChannelTypeOK'
<1>1. SlotType' /\ BitType'
  BY StepSlots
<1>2. cloudLists' \in Seq(CloudLists) /\ whitelist' \in SUBSET Entity
      /\ whitelistVersion' \in Nat \cup {-1}
  <2>1. \A n \in DOMAIN cloudLists : n \in Nat /\ cloudLists[n] \in SUBSET Entity
    BY ChannelAssumption DEF ChannelTypeOK
  <2>2. CASE Writes
    BY <2>2 DEF Writes, ChannelTypeOK, GateTypeOK
  <2>3. CASE Adopts
    BY <2>1, <2>3 DEF Adopts, ChannelTypeOK, GateTypeOK
  <2>4. CASE Stays \/ Anew
    BY <2>4 DEF Stays, Anew, ChannelTypeOK, GateTypeOK
  <2> QED BY <2>2, <2>3, <2>4, StepOnRegister
<1>3. shippingMode' \in ValidModes
  <2>1. ASSUME Deliver \/ DeliverUnacked PROVE shippingMode' \in ValidModes
    BY <2>1 DEF Deliver, DeliverUnacked, SetShippingMode, ChannelTypeOK, GateTypeOK, gateVars
  <2>2. ASSUME NEW t \in Tasks, TaskStep(t) PROVE shippingMode' \in ValidModes
    BY <2>2 DEF TaskStep, Resubscribe, Subscribe, StatusRead, StatusApplied, StatusFailed,
                ReconcileFromStatus, ChannelTypeOK, GateTypeOK, gateVars
  <2>3. ASSUME NEW t \in Tasks, ReloadEntry(t) PROVE shippingMode' \in ValidModes
    BY <2>3 DEF ReloadEntry, DefaultMode, ValidModes
  <2> QED
    BY <2>1, <2>2, <2>3
    DEF ChannelNext, CloudCommands, LinkDrops, SessionExpires, AutoResume, PublishReconnect,
        ChannelTypeOK, GateTypeOK, gateVars
<1>4. inbox' \in Seq(Message)
  <2>1. ASSUME NEW mode \in CloudModes, NEW list \in CloudLists, NEW hasList \in BOOLEAN,
               CloudCommands(mode, list, hasList)
        PROVE  inbox' \in Seq(Message)
    BY <2>1, CommandIsGenuine DEF ChannelTypeOK
  <2>2. ASSUME Deliver \/ SessionExpires PROVE inbox' \in Seq(Message)
    <3>1. inbox # << >> => Tail(inbox) \in Seq(Message)
      BY DEF ChannelTypeOK
    <3>2. << >> \in Seq(Message)
      OBVIOUS
    <3> QED BY <2>2, <3>1, <3>2 DEF Deliver, SessionExpires
  <2>3. CASE UNCHANGED inbox
    BY <2>3 DEF ChannelTypeOK
  <2> QED
    BY <2>1, <2>2, <2>3
    DEF ChannelNext, DeliverUnacked, LinkDrops, AutoResume, PublishReconnect, TaskStep,
        Resubscribe, Subscribe, StatusRead, StatusApplied, StatusFailed, ReloadEntry, linkVars
<1>5. cloudMode' \in ValidModes /\ commands' \in 0 .. MaxCommands /\ reloads' \in 0 .. MaxReloads
  <2>1. ASSUME NEW mode \in CloudModes, NEW list \in CloudLists, NEW hasList \in BOOLEAN,
               CloudCommands(mode, list, hasList)
        PROVE  cloudMode' \in ValidModes /\ commands' \in 0 .. MaxCommands /\ reloads' = reloads
    BY <2>1, ChannelAssumption DEF CloudCommands, ChannelTypeOK
  <2>2. ASSUME NEW t \in Tasks, ReloadEntry(t)
        PROVE  cloudMode' = cloudMode /\ commands' = commands /\ reloads' \in 0 .. MaxReloads
    BY <2>2, ChannelAssumption DEF ReloadEntry, ChannelTypeOK, cloud
  <2>3. CASE UNCHANGED <<cloudMode, commands, reloads>>
    BY <2>3 DEF ChannelTypeOK
  <2> QED
    BY <2>1, <2>2, <2>3
    DEF ChannelNext, Deliver, DeliverUnacked, LinkDrops, SessionExpires, AutoResume,
        PublishReconnect, TaskStep, Resubscribe, Subscribe, StatusRead, StatusApplied,
        StatusFailed, cloud, ChannelTypeOK
<1> QED
  BY <1>1, <1>2, <1>3, <1>4, <1>5 DEF ChannelTypeOK, GateTypeOK, SlotType, BitType

-----------------------------------------------------------------------------
(***************************************************************************)
(* Lists keep their numbers.                                               *)
(***************************************************************************)
LEMMA ListsGrow ==
  ASSUME ChannelTypeOK, Writes \/ Adopts \/ Stays \/ Anew
  PROVE  /\ cloudLists' # cloudLists => Newest' = Newest + 1 /\ Writes
         /\ \A n \in DOMAIN cloudLists : n \in DOMAIN cloudLists' /\ cloudLists'[n] = cloudLists[n]
<1>1. ASSUME NEW list \in CloudLists, cloudLists' = Append(cloudLists, list)
      PROVE  /\ Newest' = Newest + 1
             /\ \A n \in DOMAIN cloudLists : n \in DOMAIN cloudLists' /\ cloudLists'[n] = cloudLists[n]
  BY <1>1 DEF ChannelTypeOK, Newest
<1> QED BY <1>1 DEF Writes, Adopts, Stays, Anew

LEMMA StepGenuine ==
  ASSUME ChannelTypeOK, ChannelTypeOK', OnItsWay, HeldIsGenuine, ChannelNext
  PROVE  OnItsWay' /\ HeldIsGenuine'
<1>1. Writes \/ Adopts \/ Stays \/ Anew
  BY StepOnRegister
<1>2. \A n \in DOMAIN cloudLists : n \in DOMAIN cloudLists' /\ cloudLists'[n] = cloudLists[n]
  BY <1>1, ListsGrow
<1>3. ASSUME NEW msg \in Message, Genuine(msg) PROVE Genuine(msg)'
  BY <1>2, <1>3 DEF Genuine
<1>4. HeldIsGenuine'
  <2>1. CASE UNCHANGED <<whitelist, whitelistVersion>>
    BY <2>1, <1>2 DEF HeldIsGenuine
  <2>2. CASE Adopts
    BY <2>2, <1>2 DEF Adopts, HeldIsGenuine
  <2>3. CASE Anew
    BY <2>3 DEF Anew, HeldIsGenuine
  <2> QED BY <1>1, <2>1, <2>2, <2>3 DEF Writes, Stays
<1>5. ASSUME NEW i \in DOMAIN inbox' PROVE Genuine(inbox[i])'
  <2>1. CASE \E j \in DOMAIN inbox : inbox'[i] = inbox[j]
    <3>1. PICK j \in DOMAIN inbox : inbox'[i] = inbox[j]
      BY <2>1
    <3>2. inbox[j] \in Message /\ Genuine(inbox[j])
      BY DEF ChannelTypeOK, OnItsWay
    <3> QED BY <3>1, <3>2, <1>3 DEF Genuine
  <2>2. ASSUME NEW mode \in CloudModes, NEW list \in CloudLists, NEW hasList \in BOOLEAN,
               CloudCommands(mode, list, hasList), inbox' # inbox
        PROVE  Genuine(inbox[i])'
    <3>1. PICK msg \in Message : /\ inbox' = Append(inbox, msg) /\ msg.hasList = hasList
                                 /\ msg.list = list
                                 /\ hasList => msg.version = Newest'
      BY <2>2, CommandIsGenuine
    <3>2. CASE i \in DOMAIN inbox
      <4>1. inbox'[i] = inbox[i]
        BY <3>1, <3>2 DEF ChannelTypeOK
      <4> QED BY <4>1, <3>2, <2>1
    <3>3. CASE i \notin DOMAIN inbox
      <4>1. inbox'[i] = msg
        BY <3>1, <3>3 DEF ChannelTypeOK
      <4>2. hasList => Newest' \in DOMAIN cloudLists' /\ cloudLists'[Newest'] = list
        BY <2>2 DEF CloudCommands, ChannelTypeOK, Newest
      <4> QED BY <4>1, <4>2, <3>1 DEF Genuine
    <3> QED BY <3>2, <3>3
  <2>3. CASE inbox # << >> /\ inbox' = Tail(inbox)
    <3>1. i + 1 \in DOMAIN inbox /\ inbox'[i] = inbox[i + 1]
      BY <2>3 DEF ChannelTypeOK
    <3> QED BY <3>1, <2>1
  <2>4. CASE inbox' = inbox
    BY <2>1, <2>4
  <2>5. CASE inbox' = << >>
    BY <2>5
  <2> QED
    BY <2>2, <2>3, <2>4, <2>5
    DEF ChannelNext, Deliver, DeliverUnacked, LinkDrops, SessionExpires, AutoResume,
        PublishReconnect, TaskStep, Resubscribe, Subscribe, StatusRead, StatusApplied,
        StatusFailed, ReloadEntry, linkVars
<1>6. ASSUME NEW t \in Tasks, Answered(t)' PROVE Genuine(task[t])'
  <2>1. CASE task'[t] = task[t]
    BY <2>1, <1>3, <1>6, AnswerIsGenuine DEF Answered, Genuine
  <2>2. ASSUME StatusRead(t) PROVE Genuine(task[t])'
    <3> DEFINE some == cloudLists # << >>
    <3>1. task'[t] = [mode |-> cloudMode, hasList |-> some,
                      list |-> IF cloudLists = << >> THEN {} ELSE Last(cloudLists),
                      version |-> IF cloudLists = << >> THEN NoVersion ELSE Len(cloudLists)]
      BY <2>2 DEF StatusRead, ChannelTypeOK
    <3>2. cloudLists # << >> => Len(cloudLists) \in DOMAIN cloudLists
      BY DEF ChannelTypeOK
    <3>3. cloudLists' = cloudLists
      BY <2>2 DEF StatusRead, cloud
    <3>4. CASE cloudLists = << >>
      <4> HIDE DEF some
      <4>1. task'[t].hasList = some
        BY <3>1
      <4>2. ~ some
        BY <3>4 DEF some
      <4> QED BY <4>1, <4>2 DEF Genuine
    <3>5. CASE cloudLists # << >>
      <4>1. task'[t].list = cloudLists[Len(cloudLists)] /\ task'[t].version = Len(cloudLists)
        BY <3>1, <3>5 DEF Last
      <4> QED BY <4>1, <3>2, <3>3, <3>5 DEF Genuine
    <3> QED BY <3>4, <3>5
  <2>3. ASSUME task'[t] \in [at : Steps] PROVE FALSE
    BY <2>3, <1>6, AnswerIsNoStep DEF Answered
  <2>4. ASSUME NEW u \in Tasks, NEW step \in Steps, Go(u, step)
        PROVE  task'[t] = task[t] \/ task'[t] \in [at : Steps]
    BY <2>4 DEF Go, ChannelTypeOK
  <2>5. {"idle", "subscribe", "resubscribe", "reregister", "pull"} = Steps
    BY DEF Steps
  <2>6. CASE UNCHANGED task
    BY <2>1, <2>6
  <2>7. ASSUME NEW u \in Tasks, TaskStep(u) PROVE Genuine(task[t])'
    <3>1. CASE StatusRead(u)
      <4>1. u # t => task'[t] = task[t]
        BY <3>1 DEF StatusRead, ChannelTypeOK
      <4> QED BY <3>1, <4>1, <2>1, <2>2
    <3>2. ASSUME \/ \E failure \in Failures : Resubscribe(u, failure) \/ Subscribe(u, failure)
                 \/ StatusApplied(u) \/ StatusFailed(u)
          PROVE  \E step \in Steps : Go(u, step)
      BY <3>2, <2>5 DEF Resubscribe, Subscribe, StatusApplied, StatusFailed
    <3> QED BY <2>7, <3>1, <3>2, <2>1, <2>3, <2>4 DEF TaskStep
  <2>8. ASSUME NEW u \in Tasks, AutoResume(u) \/ PublishReconnect(u) PROVE Genuine(task[t])'
    BY <2>8, <2>1, <2>3, <2>4, <2>5 DEF AutoResume, PublishReconnect
  <2>9. ASSUME NEW u \in Tasks, ReloadEntry(u) PROVE Genuine(task[t])'
    BY <2>9, <2>3, <2>5 DEF ReloadEntry, StartUp
  <2> QED
    BY <2>6, <2>7, <2>8, <2>9
    DEF ChannelNext, CloudCommands, Deliver, DeliverUnacked, LinkDrops, SessionExpires
<1> QED BY <1>4, <1>5, <1>6 DEF OnItsWay

-----------------------------------------------------------------------------
(***************************************************************************)
(* The subscription, and the newest list on its way.                       *)
(***************************************************************************)
(* A task that goes on is where it goes; the others stay where they are. *)
LEMMA Goes ==
  ASSUME ChannelTypeOK, NEW t \in Tasks, NEW value, task' = [task EXCEPT ![t] = value]
  PROVE  /\ task'[t] = value
         /\ \A u \in Tasks \ {t} : task'[u] = task[u]
         /\ \A u \in Tasks : \A step : ~ At(t, step) /\ At(u, step) => At(u, step)'
<1>1. task'[t] = value /\ \A u \in Tasks \ {t} : task'[u] = task[u]
  BY DEF ChannelTypeOK
<1> QED BY <1>1 DEF At

LEMMA StepsDiffer ==
  ASSUME NEW t \in Tasks, NEW step \in Steps, At(t, step)
  PROVE  ~ Answered(t) /\ \A other \in Steps \ {step} : ~ At(t, other)
<1>1. task[t] = [at |-> step]
  BY DEF At
<1>2. task[t].at = step /\ "mode" \notin DOMAIN task[t]
  BY <1>1
<1> QED BY <1>2 DEF At, Answered

LEMMA StepWired ==
  ASSUME ChannelTypeOK, Wired, ChannelNext
  PROVE  Wired'
<1> USE DEF Wired
<1>0. {"idle", "subscribe", "resubscribe", "reregister", "pull"} = Steps
  BY DEF Steps
<1>1. CASE /\ UNCHANGED <<callback, recorded, trouble, session, task>>
           /\ connected' = connected \/ connected' = FALSE
  <2>1. CASE connected' = connected
    BY <1>1, <2>1, Zenon DEF At
  <2>2. CASE connected' = FALSE
    <3>1. ~ connected'
      BY <2>2
    <3> QED BY <1>1, <3>1, Zenon DEF At
  <2> QED BY <1>1, <2>1, <2>2
<1>2. CASE SessionExpires
  BY <1>2 DEF SessionExpires, At
<1>3. ASSUME NEW t \in Tasks, AutoResume(t) PROVE Wired'
  <2>1. ~ At(t, "subscribe") /\ Go(t, "resubscribe")
    BY <1>3, <1>0, StepsDiffer DEF AutoResume
  <2>2. task' = [task EXCEPT ![t] = [at |-> "resubscribe"]]
    BY <2>1 DEF Go
  <2>3. task'[t] = [at |-> "resubscribe"]
    BY <2>2, Goes
  <2>4. At(t, "resubscribe")'
    BY <2>3 DEF At
  <2>5. \A u \in Tasks : At(u, "subscribe") => At(u, "subscribe")'
    BY <2>1, <2>2, Goes
  <2> QED BY <1>3, <2>4, <2>5 DEF AutoResume
<1>4. ASSUME NEW t \in Tasks, PublishReconnect(t) PROVE Wired'
  BY <1>4 DEF PublishReconnect
<1>5. ASSUME NEW t \in Tasks, NEW failure \in Failures, Resubscribe(t, failure) PROVE Wired'
  <2>1. CASE failure # "none"
    BY <2>1, <1>5 DEF Resubscribe, TroubleIf
  <2>2. CASE failure = "none" /\ recorded
    BY <2>2, <1>5 DEF Resubscribe, Subscribed
  <2>3. CASE failure = "none" /\ ~ recorded
    <3>1. At(t, "resubscribe") \/ At(t, "reregister")
      BY <1>5 DEF Resubscribe
    <3>2. ~ At(t, "subscribe")
      BY <3>1, <1>0, StepsDiffer
    <3>3. \A u \in Tasks : At(u, "subscribe") => At(u, "subscribe")'
      BY <3>2, <1>5, Goes DEF Resubscribe, Go
    <3> QED BY <2>3, <3>3, <1>5 DEF Resubscribe, TroubleIf
  <2> QED BY <2>1, <2>2, <2>3
<1>6. ASSUME NEW t \in Tasks, NEW failure \in Failures, Subscribe(t, failure) PROVE Wired'
  BY <1>6 DEF Subscribe, TroubleIf, Subscribed
<1>7. ASSUME NEW t \in Tasks, StatusRead(t) \/ StatusApplied(t) PROVE Wired'
  <2>1. ~ At(t, "subscribe") /\ ~ At(t, "resubscribe")
    BY <1>7, <1>0, StepsDiffer DEF StatusRead, StatusApplied
  <2>2. \A u \in Tasks, step \in {"subscribe", "resubscribe"} : At(u, step) => At(u, step)'
    BY <2>1, <1>7, Goes DEF StatusRead, StatusApplied, Go
  <2> QED BY <2>2, <1>7 DEF StatusRead, StatusApplied, linkVars
<1>8. ASSUME NEW t \in Tasks, StatusFailed(t) PROVE Wired'
  BY <1>8 DEF StatusFailed, linkVars
<1>9. ASSUME NEW t \in Tasks, ReloadEntry(t) PROVE Wired'
  BY <1>9 DEF ReloadEntry, StartUp, At
<1> QED
  BY <1>1, <1>2, <1>3, <1>4, <1>5, <1>6, <1>7, <1>8, <1>9
  DEF ChannelNext, TaskStep, CloudCommands, Deliver, DeliverUnacked, LinkDrops

(* A task other than the one that goes on carries what it carried. *)
LEMMA OthersCarry ==
  ASSUME ChannelTypeOK, NEW t \in Tasks, NEW value, task' = [task EXCEPT ![t] = value],
         UNCHANGED cloudLists
  PROVE  \A u \in Tasks \ {t} : Carries(u) => Carries(u)'
<1>1. \A u \in Tasks \ {t} : task'[u] = task[u]
  BY Goes
<1> QED BY <1>1 DEF Carries, At, Answered, IsNewest, Newest

(* A held version that is the newest stays so while no list is added. *)
LEMMA NewestStays ==
  ASSUME ChannelTypeOK, Adopts \/ Stays, whitelistVersion = Newest
  PROVE  whitelistVersion' = Newest'
<1>1. \A n \in DOMAIN cloudLists : n \in Nat /\ n <= Newest /\ Newest \in Nat
  BY DEF ChannelTypeOK, Newest
<1> QED BY <1>1 DEF Adopts, Stays, Newest

(* A new list is sent to a client that hears it, or that will pull it. *)
LEMMA CommandComes ==
  ASSUME ChannelTypeOK, Wired, NewestComes,
         NEW mode \in CloudModes, NEW list \in CloudLists, NEW hasList \in BOOLEAN,
         CloudCommands(mode, list, hasList), trouble' = {}, cloudLists' # << >>
  PROVE  Comes'
<1>0. /\ trouble = {} /\ UNCHANGED <<task, connected, callback, session, whitelistVersion>>
      /\ \A i \in DOMAIN inbox : i \in DOMAIN inbox' /\ inbox'[i] = inbox[i]
  BY DEF CloudCommands, gateVars, ChannelTypeOK
<1>1. CASE hasList
  <2>1. CASE \E t \in Tasks : At(t, "subscribe") \/ At(t, "resubscribe")
    BY <1>0, <2>1 DEF Comes, Carries, At
  <2>2. CASE ~ connected
    BY <1>0, <2>2, Zenon DEF Comes
  <2>3. CASE callback /\ session
    <3>1. PICK msg \in Message : inbox' = Append(inbox, msg) /\ IsNewest(msg)'
      <4> DEFINE msg == [mode |-> mode, hasList |-> hasList, list |-> list,
                         version |-> Len(cloudLists')]
      <4>1. Len(cloudLists') \in Nat
        BY DEF CloudCommands, ChannelTypeOK
      <4>2. msg \in Message /\ msg.hasList = hasList /\ msg.version = Newest'
        BY <4>1, ChannelAssumption DEF Message, Newest
      <4>3. inbox' = Append(inbox, msg)
        BY <1>1, <2>3 DEF CloudCommands
      <4> HIDE DEF msg
      <4> QED BY <1>1, <4>2, <4>3 DEF IsNewest
    <3>2. Len(inbox') \in DOMAIN inbox' /\ inbox'[Len(inbox')] = msg
      BY <3>1 DEF ChannelTypeOK
    <3>3. IsNewest(inbox[Len(inbox)])'
      BY <3>1, <3>2 DEF IsNewest
    <3>4. callback'
      BY <1>0, <2>3
    <3> QED BY <3>2, <3>3, <3>4 DEF Comes
  <2> QED BY <1>0, <2>1, <2>2, <2>3 DEF Wired
<1>2. CASE ~ hasList
  <2>1. UNCHANGED cloudLists
    BY <1>2 DEF CloudCommands
  <2>2. Comes /\ (\E t \in Tasks : Carries(t)) => \E t \in Tasks : Carries(t)'
    BY <1>0, <2>1 DEF Carries, At, Answered, IsNewest, Newest
  <2>3. Comes
    BY <1>0, <2>1 DEF NewestComes
  <2>4. (\E i \in DOMAIN inbox : IsNewest(inbox[i])) => \E i \in DOMAIN inbox' : IsNewest(inbox[i])'
    BY <1>0, <2>1 DEF IsNewest, Newest
  <2>5. (callback => callback') /\ (~connected => ~connected')
        /\ (whitelistVersion = Newest => whitelistVersion' = Newest')
    BY <1>0, <2>1 DEF Newest
  <2> QED BY <2>2, <2>3, <2>4, <2>5, Zenon DEF Comes
<1> QED BY <1>1, <1>2

LEMMA StepNewest ==
  ASSUME ChannelInv, ChannelTypeOK', HeldIsGenuine', ChannelNext
  PROVE  NewestComes'
<1> SUFFICES ASSUME trouble' = {}, cloudLists' # << >> PROVE Comes'
  BY DEF NewestComes
<1>0. ChannelTypeOK /\ OnItsWay /\ HeldIsGenuine /\ Wired /\ NewestComes
  BY DEF ChannelInv
<1>a. {"idle", "subscribe", "resubscribe", "reregister", "pull"} = Steps
  BY DEF Steps
<1>b. ASSUME ~ connected' PROVE Comes'
  BY <1>b DEF Comes
<1>c. ASSUME NEW t \in Tasks, Carries(t)' PROVE Comes'
  BY <1>c DEF Comes
<1>d. ASSUME trouble = {}, UNCHANGED cloudLists PROVE Comes
  BY <1>0, <1>d DEF NewestComes
<1>e. ASSUME whitelistVersion' >= Newest, UNCHANGED cloudLists PROVE Comes'
  <2>1. Newest \in Nat /\ Newest > 0 /\ Newest' = Newest
    BY <1>0, <1>e DEF Newest, ChannelTypeOK
  <2>2. whitelistVersion' \in Nat /\ whitelistVersion' \in DOMAIN cloudLists'
    BY <1>0, <1>e, <2>1 DEF ChannelTypeOK, GateTypeOK, HeldIsGenuine
  <2>3. whitelistVersion' <= Newest
    BY <1>0, <1>e, <2>2 DEF Newest, ChannelTypeOK
  <2> QED BY <1>e, <2>1, <2>2, <2>3 DEF Comes
<1>f. ASSUME NEW t \in Tasks, NEW value, task' = [task EXCEPT ![t] = value],
             ~ Carries(t), connected, trouble = {}, callback => callback',
             UNCHANGED <<cloudLists, whitelistVersion, inbox>>
      PROVE  Comes'
  <2>1. (\E u \in Tasks : Carries(u)) => \E u \in Tasks : Carries(u)'
    BY <1>0, <1>f, OthersCarry
  <2>2. (\E i \in DOMAIN inbox : IsNewest(inbox[i]))
          => \E i \in DOMAIN inbox' : IsNewest(inbox[i])'
    BY <1>f DEF IsNewest, Newest
  <2>3. whitelistVersion = Newest => whitelistVersion' = Newest'
    BY <1>f DEF Newest
  <2> QED BY <1>d, <1>f, <2>1, <2>2, <2>3, Zenon DEF Comes
<1>1. ASSUME NEW mode \in CloudModes, NEW list \in CloudLists, NEW hasList \in BOOLEAN,
             CloudCommands(mode, list, hasList)
      PROVE  Comes'
  BY <1>0, <1>1, CommandComes
<1>2. ASSUME Deliver PROVE Comes'
  <2>0. /\ UNCHANGED <<cloudLists, connected, task, callback>> /\ trouble = {}
        /\ inbox # << >> /\ inbox' = Tail(inbox)
        /\ callback => SetShippingMode(Head(inbox))
        /\ (Adopts \/ Stays)
    <3>1. reloads' = reloads /\ UNCHANGED cloudLists
      BY <1>2 DEF Deliver, cloud
    <3>2. Adopts \/ Stays
      BY <1>0, <1>2, <3>1, StepOnRegister DEF Writes, Anew, Stays, ChannelTypeOK
    <3> QED BY <1>2, <3>1, <3>2 DEF Deliver
  <2>1. CASE whitelistVersion = Newest
    BY <2>0, <2>1, <1>0, NewestStays DEF Comes
  <2>2. CASE ~ connected
    BY <2>0, <2>2, <1>b
  <2>3. CASE \E t \in Tasks : Carries(t)
    BY <2>0, <2>3, <1>c DEF Carries, At, Answered, IsNewest, Newest
  <2>4. CASE callback /\ \E i \in DOMAIN inbox : IsNewest(inbox[i])
    <3>1. PICK i \in DOMAIN inbox : IsNewest(inbox[i])
      BY <2>4
    <3>2. CASE i = 1
      <4>1. Head(inbox) = inbox[1]
        BY <2>0, <1>0 DEF ChannelTypeOK
      <4>2. whitelistVersion' >= Newest
        BY <4>1, <3>1, <3>2, <2>0, <2>4, <1>0, <1>2, HeadIsGenuine, TakingIsAdopting
        DEF SetShippingMode, Deliver, cloud
      <4> QED BY <4>2, <2>0, <1>e
    <3>3. CASE i # 1
      <4>1. i - 1 \in DOMAIN inbox' /\ inbox'[i - 1] = inbox[i]
        BY <2>0, <3>3, <1>0 DEF ChannelTypeOK
      <4>2. \E j \in DOMAIN inbox' : IsNewest(inbox[j])'
        BY <4>1, <3>1, <2>0 DEF IsNewest, Newest
      <4> QED BY <4>2, <2>0, <2>4 DEF Comes
    <3> QED BY <3>2, <3>3
  <2> QED BY <2>0, <2>1, <2>2, <2>3, <2>4, <1>d DEF Comes
<1>3. ASSUME DeliverUnacked \/ LinkDrops \/ SessionExpires PROVE Comes'
  BY <1>3, <1>b DEF DeliverUnacked, LinkDrops, SessionExpires
<1>4. ASSUME NEW t \in Tasks, AutoResume(t) PROVE Comes'
  <2>1. At(t, "resubscribe")'
    BY <1>0, <1>4, Goes DEF AutoResume, Go, At
  <2> QED BY <2>1, <1>c DEF Carries
<1>5. ASSUME NEW t \in Tasks, PublishReconnect(t) PROVE FALSE
  BY <1>5 DEF PublishReconnect
<1>6. ASSUME NEW t \in Tasks, NEW failure \in Failures, Resubscribe(t, failure) PROVE Comes'
  <2>0. failure = "none" /\ trouble = {}
    BY <1>6 DEF Resubscribe, TroubleIf
  <2>1. CASE At(t, "reregister")
    <3>1. ~ Carries(t)
      BY <2>1, <1>a, StepsDiffer DEF Carries
    <3>2. connected
      BY <1>6, <1>a, <2>0, <2>1, StepsDiffer DEF Resubscribe
    <3>3. (callback => callback') /\ UNCHANGED <<cloudLists, whitelistVersion, inbox>>
          /\ Go(t, "idle")
      BY <1>6, <2>1 DEF Resubscribe, Subscribed, cloud, gateVars
    <3> QED BY <3>1, <3>2, <3>3, <2>0, <1>f DEF Go
  <2>2. CASE ~ At(t, "reregister")
    <3>1. Go(t, "pull")
      BY <1>6, <2>0, <2>2 DEF Resubscribe
    <3>2. At(t, "pull")'
      BY <3>1, <1>0, Goes DEF Go, At
    <3> QED BY <3>2, <1>c DEF Carries
  <2> QED BY <2>1, <2>2
<1>7. ASSUME NEW t \in Tasks, NEW failure \in Failures, Subscribe(t, failure) PROVE Comes'
  <2>1. Go(t, "pull")
    BY <1>7 DEF Subscribe, TroubleIf
  <2>2. At(t, "pull")'
    BY <2>1, <1>0, Goes DEF Go, At
  <2> QED BY <2>2, <1>c DEF Carries
<1>8. ASSUME NEW t \in Tasks, StatusRead(t) PROVE Comes'
  <2> DEFINE some == cloudLists # << >>
  <2>1. cloudLists' = cloudLists /\ some
    BY <1>8 DEF StatusRead, cloud
  <2> HIDE DEF some
  <2>2. task'[t] = [mode |-> cloudMode, hasList |-> some,
                    list |-> IF cloudLists = << >> THEN {} ELSE Last(cloudLists),
                    version |-> IF cloudLists = << >> THEN NoVersion ELSE Len(cloudLists)]
    BY <1>0, <1>8, Goes DEF StatusRead, some
  <2>3. "mode" \in DOMAIN task'[t] /\ task'[t].hasList = some /\ task'[t].version = Newest'
    BY <2>1, <2>2 DEF Newest, some
  <2> QED BY <2>1, <2>3, <1>c DEF Carries, Answered, IsNewest
<1>9. ASSUME NEW t \in Tasks, StatusApplied(t) PROVE Comes'
  <2>0. /\ UNCHANGED <<cloudLists, reloads, inbox, connected, callback>> /\ trouble = {}
        /\ Answered(t) /\ TakeList(task[t]) /\ Go(t, "idle")
    BY <1>9 DEF StatusApplied, ReconcileFromStatus, cloud, linkVars
  <2>1. task[t] \in Message /\ Genuine(task[t])
    BY <1>0, <2>0, AnswerIsGenuine
  <2>2. (Adopts \/ Stays) /\ (IsNewest(task[t]) => whitelistVersion' >= Newest)
    BY <1>0, <2>0, <2>1, TakingIsAdopting
  <2>3. CASE whitelistVersion = Newest
    BY <2>2, <2>3, <1>0, NewestStays DEF Comes
  <2>4. CASE ~ connected
    BY <2>0, <2>4, <1>b
  <2>5. ASSUME NEW u \in Tasks, Carries(u) PROVE Comes'
    <3>1. CASE u = t
      <4>1. IsNewest(task[t])
        BY <2>0, <2>5, <3>1, <1>a, StepsDiffer DEF Carries
      <4> QED BY <4>1, <2>0, <2>2, <1>e
    <3>2. CASE u # t
      BY <3>2, <2>0, <2>5, <1>0, <1>c, OthersCarry DEF Go
    <3> QED BY <3>1, <3>2
  <2>6. CASE callback /\ \E i \in DOMAIN inbox : IsNewest(inbox[i])
    BY <2>0, <2>6 DEF Comes, IsNewest, Newest
  <2> QED BY <2>0, <2>3, <2>4, <2>5, <2>6, <1>d DEF Comes
<1>10. ASSUME NEW t \in Tasks, StatusFailed(t) PROVE FALSE
  BY <1>10 DEF StatusFailed
<1>11. ASSUME NEW t \in Tasks, ReloadEntry(t) PROVE Comes'
  <2>1. At(t, "subscribe")'
    BY <1>11 DEF ReloadEntry, StartUp, At
  <2> QED BY <2>1, <1>c DEF Carries
<1> QED
  BY <1>1, <1>2, <1>3, <1>4, <1>5, <1>6, <1>7, <1>8, <1>9, <1>10, <1>11
  DEF ChannelNext, TaskStep

-----------------------------------------------------------------------------
(***************************************************************************)
(* The theorems.                                                           *)
(***************************************************************************)
LEMMA InitChannel == ChannelInit => ChannelInv
<1> SUFFICES ASSUME ChannelInit PROVE ChannelInv
  OBVIOUS
<1>1. PICK t \in Tasks : task = StartUp(t)
  BY DEF ChannelInit
<1>2. At(t, "subscribe") /\ \A u \in Tasks : task[u] \in [at : Steps]
  BY <1>1 DEF StartUp, At, Steps
<1>3. DefaultMode \in ValidModes
  BY DEF DefaultMode, ValidModes
<1>4. task \in [Tasks -> Message \cup [at : Steps]]
  BY <1>1 DEF StartUp, Steps
<1>5. << >> \in Seq(CloudLists) /\ << >> \in Seq(Message)
  OBVIOUS
<1>6. ChannelTypeOK
  <2>1. GateTypeOK /\ cloudMode \in ValidModes /\ cloudLists \in Seq(CloudLists) /\ inbox \in Seq(Message)
    BY <1>3, <1>5 DEF ChannelInit, GateInit, GateTypeOK
  <2>2. BitType
    BY DEF ChannelInit, BitType
  <2>3. commands \in 0 .. MaxCommands /\ reloads \in 0 .. MaxReloads
    BY ChannelAssumption DEF ChannelInit
  <2> QED BY <1>4, <2>1, <2>2, <2>3 DEF ChannelTypeOK, BitType
<1>7. OnItsWay /\ HeldIsGenuine
  <2>1. \A u \in Tasks : ~ Answered(u)
    BY <1>2, AnswerIsNoStep DEF Answered
  <2> QED BY <2>1 DEF ChannelInit, GateInit, OnItsWay, HeldIsGenuine
<1>8. Wired /\ NewestComes
  BY <1>2 DEF ChannelInit, Wired, NewestComes
<1> QED BY <1>6, <1>7, <1>8 DEF ChannelInv

LEMMA NextChannel == ChannelInv /\ [ChannelNext]_channelVars => ChannelInv'
<1> SUFFICES ASSUME ChannelInv, [ChannelNext]_channelVars PROVE ChannelInv'
  OBVIOUS
<1>1. CASE ChannelNext
  <2>1. ChannelTypeOK'
    BY <1>1, StepType DEF ChannelInv
  <2>2. OnItsWay' /\ HeldIsGenuine'
    BY <1>1, <2>1, StepGenuine DEF ChannelInv
  <2>3. Wired'
    BY <1>1, StepWired DEF ChannelInv
  <2>4. NewestComes'
    BY <1>1, <2>1, <2>2, StepNewest
  <2> QED BY <2>1, <2>2, <2>3, <2>4 DEF ChannelInv
<1>2. CASE UNCHANGED channelVars
  <2> USE <1>2 DEF channelVars, gateVars, ChannelInv
  <2>1. ChannelTypeOK'
    BY DEF ChannelTypeOK, GateTypeOK
  <2>2. OnItsWay' /\ HeldIsGenuine'
    BY DEF OnItsWay, HeldIsGenuine, Genuine, Answered
  <2>3. Wired'
    BY DEF Wired, At
  <2>4. NewestComes'
    BY DEF NewestComes, Comes, Carries, At, Answered, IsNewest, Newest
  <2> QED BY <2>1, <2>2, <2>3, <2>4
<1> QED BY <1>1, <1>2

LEMMA ChannelHolds == ChannelSpec => []ChannelInv
<1> QED BY InitChannel, NextChannel, PTL DEF ChannelSpec

(* Whatever is sent, lost or late, each variable of the channel and of the *)
(* gate keeps its type: no message with an unknown mode gets in.           *)
THEOREM ChannelTypeCorrect == ChannelSpec => []ChannelTypeOK
<1>1. ChannelInv => ChannelTypeOK
  BY DEF ChannelInv
<1> QED BY <1>1, ChannelHolds, PTL

(* No whitelist is ever in force under the version of another, through      *)
(* redeliveries, pulls that overlap commands, and reloads.                 *)
THEOREM WhitelistIsGenuine == ChannelSpec => []VersionedListIsGenuine
<1>1. ChannelInv => VersionedListIsGenuine
  BY DEF ChannelInv, HeldIsGenuine, VersionedListIsGenuine, ChannelTypeOK, GateTypeOK
<1> QED BY <1>1, ChannelHolds, PTL

(* Once all is quiet and no trouble came after the last full pull, the gate *)
(* holds the cloud's newest list, however the steps interleaved.           *)
THEOREM WhitelistConvergence == ChannelSpec => []WhitelistConverges
<1>1. ChannelInv => WhitelistConverges
  <2> SUFFICES ASSUME ChannelInv, Quiet, trouble = {}, cloudLists # << >>
               PROVE  whitelist = Last(cloudLists)
    BY DEF WhitelistConverges
  <2>1. \A t \in Tasks : ~ Carries(t)
    BY StepsDiffer DEF Quiet, Carries, Steps
  <2>2. whitelistVersion = Newest
    BY <2>1 DEF ChannelInv, NewestComes, Comes, Quiet
  <2>3. Newest # -1
    BY DEF ChannelInv, ChannelTypeOK, Newest
  <2> QED BY <2>2, <2>3 DEF ChannelInv, HeldIsGenuine, Newest, Last
<1> QED BY <1>1, ChannelHolds, PTL

(* No step but a reload makes the held version smaller. *)
THEOREM VersionNeverGoesBack == ChannelSpec => WhitelistNeverRegresses
<1>1. ChannelInv /\ [ChannelNext]_channelVars
        => [reloads' = reloads => whitelistVersion' >= whitelistVersion]_channelVars
  <2> SUFFICES ASSUME ChannelInv, ChannelNext, reloads' = reloads
               PROVE  whitelistVersion' >= whitelistVersion
    OBVIOUS
  <2>1. Writes \/ Adopts \/ Stays
    BY StepOnRegister DEF ChannelInv, Anew, ChannelTypeOK
  <2>2. whitelistVersion \in Int /\ \A n \in DOMAIN cloudLists : n \in Int
    BY DEF ChannelInv, ChannelTypeOK, GateTypeOK
  <2> QED BY <2>1, <2>2 DEF Writes, Adopts, Stays
<1> QED BY <1>1, ChannelHolds, PTL DEF ChannelSpec, WhitelistNeverRegresses

(* The channel, with its broker, pulls and drops, implements the numbered   *)
(* register: every step is a write, an adoption, a new start or a stutter. *)
THEOREM ChannelImplementsRegister == ChannelSpec => ImplementsRegister
<1>1. ChannelInit => Register!RegInit
  BY DEF ChannelInit, GateInit, Register!RegInit
<1>2. ChannelInv /\ [ChannelNext]_channelVars
        => [Register!Write \/ Register!Adopt \/ Register!BeginAnew]_(Register!regVars)
  <2> SUFFICES ASSUME ChannelInv, [ChannelNext]_channelVars
               PROVE  \/ Register!Write \/ Register!Adopt \/ Register!BeginAnew
                      \/ UNCHANGED Register!regVars
    OBVIOUS
  <2>1. CASE UNCHANGED channelVars
    BY <2>1 DEF channelVars, gateVars, Register!regVars
  <2>2. CASE ChannelNext
    <3>1. Writes \/ Adopts \/ Stays \/ Anew
      BY <2>2, StepOnRegister DEF ChannelInv
    <3> QED
      BY <3>1
      DEF Writes, Adopts, Stays, Anew, Register!Write, Register!Adopt, Register!BeginAnew,
          Register!regVars
  <2> QED BY <2>1, <2>2
<1> QED BY <1>1, <1>2, ChannelHolds, PTL DEF ChannelSpec, ImplementsRegister, Register!RegSpec
=============================================================================
