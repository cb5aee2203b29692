----------------------------- MODULE Connection -----------------------------
(***************************************************************************)
(* IotCorePublisher.publish (iot_core.py) and the connection objects under *)
(* it: rebuilding a dropped connection, the retry loop, and the refresh of *)
(* expired credentials (auth.py).  Several tasks publish at once on the    *)
(* event loop; awscrt's threads post to it that some connection object was *)
(* interrupted or resumed, without saying which.  The broker lets one      *)
(* connection per client id live: a new one drops the others.  An object   *)
(* nobody refers to is destroyed.                                          *)
(***************************************************************************)
EXTENDS Integers, Sequences, FiniteSets

CONSTANTS
  Tasks,          \* tasks that publish, or reconnect to subscribe
  Objects,        \* number of awscrt connection objects, reused once they are gone
  Attempts,       \* MQTT_PUBLISH_RETRY_ATTEMPTS
  MaxExchanges, MaxPosted   \* bounds of the model

None == 0

Object == 1 .. Objects

ASSUME ConnectionAssumption ==
  /\ None \notin Tasks /\ Objects \in Nat \ {0}
  /\ Attempts \in Nat \ {0}
  /\ MaxExchanges \in Nat \ {0} /\ MaxPosted \in Nat

VARIABLES
  connection,  \* _connection: an object, or None
  connected,   \* _connected
  lock,        \* _connect_lock: the task that holds it, or None
  task,        \* per task: where publish() is, and its locals
  state,       \* per object: its link
  creds,       \* per object: the credentials it was built with, by number
  cached,      \* the auth provider's _cached; 0 when there are no fresh ones
  exchanges,   \* number of credential exchanges
  posted,      \* what awscrt's threads have posted to the event loop
  unloaded     \* the entry was unloaded: disconnect() was called

connVars == <<connection, connected, lock, task, state, creds, cached, exchanges, posted,
              unloaded>>

Steps == {"idle", "lock", "credentials", "connecting", "accepted", "register",
          "publish", "sleep", "teardown"}

Idle == [at |-> "idle", object |-> None, attempt |-> 1, expired |-> 0]

At(t, step)   == task[t].at = step
Go(t, local)  == task' = [task EXCEPT ![t] = local]
Step(t, step) == Go(t, [task[t] EXCEPT !.at = step])
Return(t)     == Go(t, Idle)

ConnTypeOK ==
  /\ connection \in Object \cup {None} /\ connected \in BOOLEAN
  /\ lock \in Tasks \cup {None}
  /\ task \in [Tasks -> [at : Steps, object : Object \cup {None},
                         attempt : 1 .. Attempts, expired : 0 .. MaxExchanges]]
  /\ state \in [Object -> {"gone", "new", "up", "down"}]
  /\ creds \in [Object -> 0 .. MaxExchanges]
  /\ cached \in 0 .. MaxExchanges /\ exchanges \in 0 .. MaxExchanges
  /\ posted \in Seq({"interrupted", "resumed"}) /\ unloaded \in BOOLEAN

(* After setup: one object, built with the credentials of one exchange. *)
ConnInit ==
  /\ connection = 1 /\ connected = TRUE /\ lock = None
  /\ task = [t \in Tasks |-> Idle]
  /\ state = [o \in Object |-> IF o = connection THEN "up" ELSE "gone"]
  /\ creds = [o \in Object |-> IF o = connection THEN 1 ELSE 0]
  /\ cached = 1 /\ exchanges = 1
  /\ posted = << >> /\ unloaded = FALSE

authVars == <<cached, exchanges>>

-----------------------------------------------------------------------------
(* _publish_once: on whatever _connection is now.  When it is None, that   *)
(* is an AttributeError, which nothing retries.                            *)
Attempt(t, n) ==
  IF connection = None THEN Return(t)
  ELSE Go(t, [at |-> "publish", object |-> connection, attempt |-> n, expired |-> 0])

(* publish(): connect() first when the flag is down.  What a command begins *)
(* to publish after the unload is left out, the same steps once more.      *)
Publish(t) ==
  /\ At(t, "idle") /\ ~unloaded
  /\ IF connected /\ connection # None THEN Attempt(t, 1) ELSE Step(t, "lock")
  /\ UNCHANGED <<connection, connected, lock, state, authVars, posted>>

(* connect(), when somebody else has connected in the meantime. *)
AlreadyConnected(t) ==
  /\ At(t, "lock") /\ lock = None
  /\ task[t].expired = 0 /\ connected
  /\ Attempt(t, 1)
  /\ UNCHANGED <<connection, connected, lock, state, authVars, posted>>

(* The connect lock for a build; a refresh does not look at the flag. *)
AcquireLock(t) ==
  /\ At(t, "lock") /\ lock = None
  /\ task[t].expired # 0 \/ ~connected
  /\ lock' = t
  /\ Step(t, "credentials")
  /\ UNCHANGED <<connection, connected, state, authVars, posted>>

-----------------------------------------------------------------------------
(* _build_and_connect: get_credentials gives the cached ones while they are *)
(* fresh, else it exchanges; then the object is built, in the first free   *)
(* place.                                                                  *)
Free == {o \in Object : state[o] = "gone" /\ \A t \in Tasks : task[t].object # o}

(* The credentials an object is built with go with it. *)
CredentialsOfObjects ==
  creds' = [o \in Object |-> IF o \in Free' THEN 0
                            ELSE IF o \in Free THEN cached' ELSE creds[o]]

GetCredentials(t) ==
  /\ At(t, "credentials")
  /\ IF cached # 0 THEN UNCHANGED <<cached, exchanges>>
     ELSE /\ exchanges < MaxExchanges
          /\ exchanges' = exchanges + 1 /\ cached' = exchanges'
  /\ \E o \in Free :
       /\ \A p \in Free : o <= p
       /\ state' = [state EXCEPT ![o] = "new"]
       /\ Go(t, [task[t] EXCEPT !.at = "connecting", !.object = o])
  /\ UNCHANGED <<connection, connected, lock, posted>>

(* Object o is up: the broker drops the other, whose thread posts that. *)
Takeover(o, news) ==
  LET others == {p \in Object \ {o} : state[p] = "up"}
  IN  /\ state' = [p \in Object |-> IF p = o THEN "up"
                                    ELSE IF p \in others THEN "down" ELSE state[p]]
      /\ posted' = posted \o (IF others = {} THEN << >> ELSE <<"interrupted">>) \o news

Accepted(t) ==
  /\ At(t, "connecting")
  /\ Takeover(task[t].object, << >>)
  /\ Step(t, "accepted")
  /\ UNCHANGED <<connection, connected, lock, authVars>>

(* The task sees it, and the object that _connection held before is        *)
(* released.                                                               *)
Connected(t) ==
  /\ At(t, "accepted")
  /\ connection' = task[t].object /\ connected' = TRUE
  /\ state' = IF connection = None THEN state ELSE [state EXCEPT ![connection] = "gone"]
  /\ Go(t, [task[t] EXCEPT !.at = "register", !.object = None])
  /\ UNCHANGED <<lock, authVars, posted>>

(* _reregister_subscriptions has awaited its answer; publish() goes on, or, *)
(* after a refresh, raises the expiry to its caller, who queues the batch.  *)
Registered(t) ==
  /\ At(t, "register")
  /\ lock' = None
  /\ IF task[t].expired = 0 THEN Attempt(t, 1) ELSE Return(t)
  /\ UNCHANGED <<connection, connected, state, authVars, posted>>

(* The exchange or the connect failed or timed out; the caller gets it. *)
BuildFails(t) ==
  /\ At(t, "credentials") \/ At(t, "connecting") \/ At(t, "accepted")
  /\ state' = [o \in Object |-> IF o = task[t].object THEN "gone" ELSE state[o]]
  /\ lock' = None
  /\ Return(t)
  /\ UNCHANGED <<connection, connected, authVars, posted>>

-----------------------------------------------------------------------------
PublishAcked(t) ==
  /\ At(t, "publish") /\ state[task[t].object] = "up"
  /\ Return(t)
  /\ UNCHANGED <<connection, connected, lock, state, authVars, posted>>

(* Timed out, or failed in a way that is not retried. *)
PublishFails(t) ==
  /\ At(t, "publish")
  /\ Return(t)
  /\ UNCHANGED <<connection, connected, lock, state, authVars, posted>>

(* Mutant: transient errors are retried without end. *)
PublishRetriedAlways(t) ==
  /\ At(t, "publish") /\ state[task[t].object] # "up"
  /\ Go(t, [task[t] EXCEPT !.at = "sleep", !.object = None, !.attempt = task[t].attempt + 1])
  /\ UNCHANGED <<connection, connected, lock, state, authVars, posted>>

(* Mutant: the attempts are not counted. *)
PublishRetriedForever(t) ==
  /\ At(t, "publish") /\ state[task[t].object] # "up"
  /\ Go(t, [task[t] EXCEPT !.at = "sleep", !.object = None])
  /\ UNCHANGED <<connection, connected, lock, state, authVars, posted>>

(* A transient awscrt error: the connection was not up all along. *)
PublishRetried(t) ==
  /\ At(t, "publish") /\ state[task[t].object] # "up"
  /\ task[t].attempt < Attempts
  /\ Go(t, [task[t] EXCEPT !.at = "sleep", !.object = None, !.attempt = task[t].attempt + 1])
  /\ UNCHANGED <<connection, connected, lock, state, authVars, posted>>

RetryWakes(t) ==
  /\ At(t, "sleep")
  /\ Attempt(t, task[t].attempt)
  /\ UNCHANGED <<connection, connected, lock, state, authVars, posted>>

(* Mutant: _connection keeps the object that is torn down. *)
ExpiredKept(t) ==
  /\ At(t, "publish")
  /\ connected' = FALSE
  /\ Go(t, [at |-> "teardown", object |-> connection, attempt |-> 1,
            expired |-> creds[task[t].object]])
  /\ UNCHANGED <<connection, lock, state, authVars, posted>>

(* ExpiredToken: _reconnect_with_fresh_creds takes the present connection   *)
(* down, which need not be the one this publish was made on.               *)
Expired(t) ==
  /\ At(t, "publish")
  /\ connected' = FALSE /\ connection' = None
  /\ Go(t, [at |-> "teardown", object |-> connection, attempt |-> 1,
            expired |-> creds[task[t].object]])
  /\ UNCHANGED <<lock, state, authVars, posted>>

(* Mutant: the provider keeps its cached credentials. *)
TornDownCached(t) ==
  /\ At(t, "teardown")
  /\ state' = [o \in Object |-> IF o = task[t].object THEN "gone" ELSE state[o]]
  /\ Go(t, [task[t] EXCEPT !.at = "lock", !.object = None])
  /\ UNCHANGED <<connection, connected, lock, authVars, posted>>

(* The old object is disconnected and the credentials are forgotten. *)
TornDown(t) ==
  /\ At(t, "teardown")
  /\ state' = [o \in Object |-> IF o = task[t].object THEN "gone" ELSE state[o]]
  /\ cached' = 0
  /\ Go(t, [task[t] EXCEPT !.at = "lock", !.object = None])
  /\ UNCHANGED <<connection, connected, lock, exchanges, posted>>

-----------------------------------------------------------------------------
(* Any object that lives may lose its link, and awscrt reconnects it.      *)
Interrupted(o) ==
  /\ state[o] = "up" /\ Len(posted) < MaxPosted
  /\ state' = [state EXCEPT ![o] = "down"]
  /\ posted' = Append(posted, "interrupted")
  /\ UNCHANGED <<connection, connected, lock, task, authVars>>

Resumed(o) ==
  /\ state[o] = "down" /\ Len(posted) < MaxPosted
  /\ Takeover(o, <<"resumed">>)
  /\ UNCHANGED <<connection, connected, lock, task, authVars>>

(* _mark_connected or _mark_disconnected, on the event loop. *)
Mark ==
  /\ posted # << >>
  /\ connected' = (Head(posted) = "resumed")
  /\ posted' = Tail(posted)
  /\ UNCHANGED <<connection, lock, task, state, authVars>>

(* Fewer than CREDENTIAL_REFRESH_LEAD_SECONDS are left. *)
CredentialsAge ==
  /\ cached # 0 /\ cached' = 0
  /\ UNCHANGED <<connection, connected, lock, task, state, exchanges, posted>>

(* async_unload_entry: disconnect() and close().  It waits for no task: the *)
(* publish or the build of a command or a resume hook goes on, and may      *)
(* connect this adapter again, next to that of the new setup.              *)
Unload ==
  /\ ~unloaded /\ unloaded' = TRUE
  /\ connected' = FALSE /\ connection' = None
  /\ state' = [o \in Object |-> IF o = connection THEN "gone" ELSE state[o]]
  /\ cached' = 0
  /\ UNCHANGED <<lock, task, exchanges, posted>>

(* What a task awaits with a timeout, or runs without an await. *)
Bounded(t) ==
  \/ GetCredentials(t) \/ Accepted(t) \/ Connected(t) \/ Registered(t) \/ BuildFails(t)
  \/ PublishAcked(t) \/ PublishFails(t) \/ PublishRetried(t) \/ RetryWakes(t)
  \/ Expired(t)

TaskStep(t) == Bounded(t) \/ TornDown(t)

Locking(t) == AlreadyConnected(t) \/ AcquireLock(t)

ConnStep ==
  \/ \E t \in Tasks : Publish(t) \/ Locking(t) \/ TaskStep(t)
  \/ \E o \in Object : Interrupted(o) \/ Resumed(o)
  \/ Mark \/ CredentialsAge

(* After the unload all ends, unless what goes on has connected again. *)
Ended ==
  /\ unloaded /\ lock = None /\ posted = << >>
  /\ \A t \in Tasks : At(t, "idle")
  /\ UNCHANGED connVars

ConnNext ==
  \/ ConnStep /\ UNCHANGED unloaded /\ CredentialsOfObjects
  \/ Unload /\ CredentialsOfObjects
  \/ Ended

(* Exchanges, connects, subscribes and publishes have a timeout; asyncio's *)
(* lock is granted in the order of waiting.  The disconnect of a refresh   *)
(* has no timeout (iot_core.py:716, unlike :236-239): nothing makes        *)
(* TornDown happen.                                                        *)
ConnSpec ==
  /\ ConnInit /\ [][ConnNext]_connVars
  /\ \A t \in Tasks : WF_task(Bounded(t)) /\ SF_task(Locking(t))

-----------------------------------------------------------------------------
(***************************************************************************)
(* Properties.                                                             *)
(***************************************************************************)
(* _connection is never an object that was disconnected or released,        *)
(* however many publishes notice the expiry at once and rebuild it under    *)
(* each other (iot_core.py:708-722).                                       *)
CurrentIsLive == connection # None => state[connection] \in {"up", "down"}

(* "Force a fresh credential exchange on next connect" (iot_core.py:719):   *)
(* the connection that ends a refresh has newer credentials than the one    *)
(* whose expiry began it, whoever else connects and exchanges in between.  *)
RefreshGetsNewCredentials ==
  \A t \in Tasks : At(t, "connecting") /\ task[t].expired # 0
                     => creds[task[t].object] > task[t].expired

(* A publish() that never returns or raises waits for a disconnect that     *)
(* never answers: failed builds, refreshes that wait for each other,        *)
(* retries, and another task's disconnect that hangs, never leave a task    *)
(* waiting for the lock or going round for ever.                           *)
OnlyTeardownHangs == \A t \in Tasks : []<>At(t, "idle") \/ <>[]At(t, "teardown")

(* "transparently re-establish before publishing.  This replaces the old    *)
(* 'raise RuntimeError' path which dropped every batch between a drop and   *)
(* the next explicit connect() call" (iot_core.py:261-264): when no other   *)
(* task is at work and the entry is loaded, connect() does not return       *)
(* without a connection.  A late "resumed" before a build that fails leaves *)
(* the flag up with none.                                                  *)
PublishReestablishes ==
  [][\A t \in Tasks :
       AlreadyConnected(t) /\ ~unloaded /\ (\A u \in Tasks \ {t} : At(u, "idle"))
         => connection # None]_connVars
=============================================================================
