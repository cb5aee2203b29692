--------------------------- MODULE CommandChannel ---------------------------
(***************************************************************************)
(* How the publish gate follows the cloud: set_shipping_mode commands on   *)
(* the MQTT command topic (iot_core.py, command_handler.py), and           *)
(* /hacs/status pulls at startup and after a broker resume (__init__.py).  *)
(* The cloud and the broker are external: the cloud declares modes and     *)
(* whitelists with ascending versions; the broker keeps the commands of a  *)
(* persistent session until they are delivered, or until it expires.       *)
(***************************************************************************)
EXTENDS ShippingGate, Sequences, SequencesExt

CONSTANTS
  CloudModes, CloudLists,   \* what the cloud may declare
  Tasks,                    \* slots for the startup task and the resume hooks
  MaxCommands, MaxReloads   \* bounds of the model

ASSUME ChannelAssumption ==
  /\ CloudModes \subseteq ValidModes
  /\ CloudLists \subseteq SUBSET Entity
  /\ MaxCommands \in Nat /\ MaxReloads \in Nat

VARIABLES
  cloudMode, cloudLists,    \* the cloud's truth; a list's version is its index
  session,                  \* the broker holds the subscription of this client
  inbox,                    \* commands the broker still has to deliver
  connected,                \* _connected
  recorded,                 \* the command topic is in _subscriptions
  callback,                 \* this connection object has a callback for it
  task,                     \* where each task is; an answer on its way back
  trouble,                  \* history: the troubles since the last full pull
  commands, reloads         \* counters for the bounds

channelVars == <<cloudMode, cloudLists, session, inbox, connected, recorded,
                 callback, task, trouble, commands, reloads, gateVars>>
linkVars == <<session, inbox, connected, recorded, callback>>
cloud    == <<cloudMode, cloudLists, commands>>

Troubles == {"subscribe", "pull", "rebuild"}
Steps == {"idle", "subscribe", "resubscribe", "reregister", "pull"}

ChannelTypeOK ==
  /\ GateTypeOK
  /\ cloudMode \in ValidModes /\ cloudLists \in Seq(CloudLists)
  /\ inbox \in Seq(Message)
  /\ {session, connected, recorded, callback} \subseteq BOOLEAN
  /\ task \in [Tasks -> Message \cup [at : Steps]]
  /\ trouble \subseteq Troubles
  /\ commands \in 0 .. MaxCommands /\ reloads \in 0 .. MaxReloads

At(t, step)  == task[t] = [at |-> step]
Go(t, step)  == task' = [task EXCEPT ![t] = [at |-> step]]
Answered(t)  == "mode" \in DOMAIN task[t]

(* A coordinator is set up: the link is up, its wiring task is scheduled.  *)
StartUp(t) == [u \in Tasks |-> [at |-> IF u = t THEN "subscribe" ELSE "idle"]]

ChannelInit ==
  /\ GateInit
  /\ cloudMode = DefaultMode /\ cloudLists = << >>
  /\ session = FALSE /\ inbox = << >>
  /\ connected = TRUE /\ recorded = FALSE /\ callback = FALSE
  /\ \E t \in Tasks : task = StartUp(t)
  /\ trouble = {}
  /\ commands = 0 /\ reloads = 0

-----------------------------------------------------------------------------
(* The cloud declares a mode, with a new list or without one, and sends it. *)
CloudCommands(mode, list, hasList) ==
  /\ commands < MaxCommands /\ commands' = commands + 1
  /\ cloudMode' = mode
  /\ cloudLists' = IF hasList THEN Append(cloudLists, list) ELSE cloudLists
  /\ inbox' = IF session
              THEN Append(inbox, [mode |-> mode, hasList |-> hasList, list |-> list,
                                  version |-> IF hasList THEN Len(cloudLists')
                                              ELSE NoVersion])
              ELSE inbox
  /\ UNCHANGED <<session, connected, recorded, callback, task, trouble, reloads, gateVars>>

(* A delivered command runs set_shipping_mode; without a callback awscrt   *)
(* drops it.                                                               *)
Deliver ==
  /\ connected /\ inbox # << >>
  /\ IF callback THEN SetShippingMode(Head(inbox)) ELSE UNCHANGED gateVars
  /\ inbox' = Tail(inbox)
  /\ UNCHANGED <<cloud, session, connected, recorded, callback, task, trouble, reloads>>

(* QoS 1: the link drops before the PUBACK, the broker will send it again. *)
DeliverUnacked ==
  /\ connected /\ inbox # << >> /\ callback
  /\ SetShippingMode(Head(inbox))
  /\ connected' = FALSE
  /\ UNCHANGED <<cloud, session, inbox, recorded, callback, task, trouble, reloads>>

LinkDrops ==
  /\ connected /\ connected' = FALSE
  /\ UNCHANGED <<cloud, session, inbox, recorded, callback, task, trouble, reloads, gateVars>>

SessionExpires ==
  /\ ~connected /\ session
  /\ session' = FALSE /\ inbox' = << >>
  /\ UNCHANGED <<cloud, connected, recorded, callback, task, trouble, reloads, gateVars>>

-----------------------------------------------------------------------------
(* awscrt reconnects by itself, with the same connection object, and the   *)
(* resume hook is scheduled.                                               *)
AutoResume(t) ==
  /\ ~connected /\ At(t, "idle")
  /\ connected' = TRUE
  /\ Go(t, "resubscribe")
  /\ UNCHANGED <<cloud, session, inbox, recorded, callback, trouble, reloads, gateVars>>

(* publish() rebuilds the connection: a new object, no callback, no hook.  *)
PublishReconnect(t) ==
  /\ ~connected /\ At(t, "idle")
  /\ connected' = TRUE /\ callback' = FALSE
  /\ trouble' = trouble \cup {"rebuild"}
  /\ Go(t, "reregister")
  /\ UNCHANGED <<cloud, session, inbox, recorded, reloads, gateVars>>

(* The SUBACK is in: the broker's session and the local callback are set.  *)
Subscribed == connected' = TRUE /\ session' = TRUE /\ callback' = TRUE

Failures == {"none", "timeout", "raised"}
TroubleIf(failure) ==
  trouble' = trouble \cup (IF failure = "none" THEN {} ELSE {"subscribe"})

(* Mutant: the pull does not wait for the subscription. *)
PullFirst(t, failure) ==
  /\ failure = "none" /\ TroubleIf(failure)
  /\ \/ At(t, "resubscribe") /\ Go(t, "pull") /\ UNCHANGED <<session, connected, callback>>
     \/ At(t, "reregister") /\ Go(t, "idle") /\ recorded /\ Subscribed
  /\ UNCHANGED <<cloud, inbox, recorded, reloads, gateVars>>

(* resubscribe_all of the hook, _reregister_subscriptions of a rebuild:    *)
(* nothing to do when no subscription was recorded.  The hook reconnects   *)
(* when the link is down, the rebuild does not.  A timeout is logged;      *)
(* any other exception ends the hook before its pull.                      *)
Resubscribe(t, failure) ==
  /\ At(t, "resubscribe") \/ (At(t, "reregister") /\ (connected \/ failure # "none"))
  /\ TroubleIf(failure)
  /\ IF recorded /\ failure = "none"
     THEN Subscribed ELSE UNCHANGED <<session, connected, callback>>
  /\ Go(t, IF At(t, "reregister") \/ (recorded /\ failure = "raised")
           THEN "idle" ELSE "pull")
  /\ UNCHANGED <<cloud, inbox, recorded, reloads, gateVars>>

(* subscribe() of the startup task.  It reconnects when the link is down,  *)
(* and records the topic before it issues the subscription.                *)
Subscribe(t, failure) ==
  /\ At(t, "subscribe") /\ TroubleIf(failure)
  /\ IF failure = "none" THEN recorded' = TRUE /\ Subscribed
     ELSE /\ recorded' = (recorded \/ connected)
          /\ UNCHANGED <<session, connected, callback>>
  /\ Go(t, IF failure = "raised" THEN "idle" ELSE "pull")
  /\ UNCHANGED <<cloud, inbox, reloads, gateVars>>

(* /hacs/status reads the truth; the answer is applied when it is back.    *)
StatusRead(t) ==
  /\ At(t, "pull")
  /\ task' = [task EXCEPT ![t] =
       [mode |-> cloudMode, hasList |-> cloudLists # << >>,
        list |-> IF cloudLists = << >> THEN {} ELSE Last(cloudLists),
        version |-> IF cloudLists = << >> THEN NoVersion ELSE Len(cloudLists)]]
  /\ trouble' = IF callback /\ session THEN {} ELSE trouble
  /\ UNCHANGED <<cloud, linkVars, reloads, gateVars>>

StatusApplied(t) ==
  /\ Answered(t)
  /\ ReconcileFromStatus(task[t])
  /\ Go(t, "idle")
  /\ UNCHANGED <<cloud, linkVars, trouble, reloads>>

(* fetch_status returns None. *)
StatusFailed(t) ==
  /\ At(t, "pull") \/ Answered(t)
  /\ trouble' = trouble \cup {"pull"}
  /\ Go(t, "idle")
  /\ UNCHANGED <<cloud, linkVars, reloads, gateVars>>

(* The config entry is reloaded: new coordinator, new connection object,   *)
(* same client id, so the broker's session stays.                          *)
ReloadEntry(t) ==
  /\ reloads < MaxReloads /\ reloads' = reloads + 1
  /\ shippingMode' = DefaultMode /\ whitelist' = Entity /\ whitelistVersion' = -1
  /\ connected' = TRUE /\ recorded' = FALSE /\ callback' = FALSE
  /\ task' = StartUp(t)
  /\ trouble' = {}
  /\ UNCHANGED <<cloud, session, inbox>>

TaskStep(t) ==
  \/ \E failure \in Failures : Resubscribe(t, failure) \/ Subscribe(t, failure)
  \/ StatusRead(t) \/ StatusApplied(t) \/ StatusFailed(t)

ChannelNext ==
  \/ \E mode \in CloudModes, list \in CloudLists, hasList \in BOOLEAN :
        CloudCommands(mode, list, hasList)
  \/ Deliver \/ DeliverUnacked \/ LinkDrops \/ SessionExpires
  \/ \E t \in Tasks : AutoResume(t) \/ PublishReconnect(t) \/ TaskStep(t) \/ ReloadEntry(t)

ChannelSpec == ChannelInit /\ [][ChannelNext]_channelVars

-----------------------------------------------------------------------------
(***************************************************************************)
(* Properties.                                                             *)
(***************************************************************************)
(* Nothing is under way: what the gate holds now is what it settles on.    *)
Quiet == connected /\ inbox = << >> /\ \A t \in Tasks : At(t, "idle")

(* The whitelist in force is the list the cloud gave that version, whatever *)
(* was lost, repeated or late: no list ever rides under another's version   *)
(* (coordinator.py:977-993).                                               *)
VersionedListIsGenuine ==
  whitelistVersion > 0 => whitelist = cloudLists[whitelistVersion]

(* A held whitelist version never goes back while a coordinator lives, so   *)
(* a stale command or answer cannot widen the whitelist again.             *)
WhitelistNeverRegresses ==
  [][reloads' = reloads => whitelistVersion' >= whitelistVersion]_channelVars

(* The channel implements VersionedRegister: drops, rebuilds, redeliveries  *)
(* and answers that overtake each other show in the whitelist only as a     *)
(* step to a newer version, taken whole, or as a reload of the entry.       *)
Register == INSTANCE VersionedRegister
  WITH Value <- CloudLists, Unset <- Entity, log <- cloudLists,
       value <- whitelist, version <- whitelistVersion
ImplementsRegister == Register!RegSpec

(* Once all is quiet the gate holds the cloud's newest whitelist: through   *)
(* link drops, lost sessions, redeliveries, reloads and answers that        *)
(* overlap commands.  A failed pull or subscribe, and a connection that a   *)
(* publish rebuilt (no pull follows it), are healed by the next resume that *)
(* subscribes and pulls.                                                   *)
WhitelistConverges ==
  Quiet /\ trouble = {} /\ cloudLists # << >> => whitelist = Last(cloudLists)

(* "adopts the cloud-declared mode + whitelist unconditionally - the cloud  *)
(* is authoritative" (coordinator.py:1005-1006): once all is quiet, the     *)
(* gate holds the cloud's mode.                                            *)
ModeConverges == Quiet /\ trouble = {} => shippingMode = cloudMode
=============================================================================
