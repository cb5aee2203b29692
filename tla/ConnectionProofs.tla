--------------------------- MODULE ConnectionProofs ---------------------------
(***************************************************************************)
(* What holds of Connection for any number of tasks, connection objects,   *)
(* attempts and exchanges: its type invariant, that _connection is never a *)
(* released object, and that a refresh ends with newer credentials.        *)
(***************************************************************************)
EXTENDS Connection, SequenceTheorems, TLAPS

(***************************************************************************)
(* The inductive invariant.                                                *)
(***************************************************************************)
Building(t) == task[t].at \in {"credentials", "connecting", "accepted", "register"}
HasBuilt(t) == task[t].at \in {"connecting", "accepted"}

(* The connect lock excludes: only its holder is inside a build. *)
LockExcludes == \A t \in Tasks : Building(t) <=> lock = t

(* Where a task has no object in hand yet, and where it has one. *)
ObjectsInHand ==
  \A t \in Tasks :
    /\ task[t].at \in {"idle", "lock", "credentials"} => task[t].object = None
    /\ HasBuilt(t) \/ At(t, "publish") => task[t].object \in Object

(* What is being built belongs to its builder alone; what is being torn    *)
(* down is no longer the current connection.                               *)
BuiltIsOwn ==
  \A t \in Tasks :
    /\ HasBuilt(t) => /\ task[t].object # connection
                      /\ task[t].object \in Object => state[task[t].object] # "gone"
    /\ At(t, "accepted") => state[task[t].object] \in {"up", "down"}
    /\ At(t, "teardown") =>
         /\ task[t].object = None \/ task[t].object # connection
         /\ \A u \in Tasks : HasBuilt(u) => task[t].object # task[u].object

(* Credentials are numbered in the order of their exchanges; an object that *)
(* is in use has some, and those cached since a refresh began are newer.   *)
Numbered ==
  /\ cached <= exchanges
  /\ \A o \in Object : creds[o] <= exchanges /\ (o \notin Free => creds[o] > 0)
  /\ \A t \in Tasks : task[t].expired <= exchanges
IdleIsClean == \A t \in Tasks : task[t].at = "idle" => task[t].expired = 0
CacheIsNewer ==
  \A t \in Tasks : task[t].at \in {"lock", "credentials"} /\ task[t].expired # 0
                     => cached = 0 \/ cached > task[t].expired

ConnInv ==
  /\ ConnTypeOK /\ LockExcludes /\ ObjectsInHand /\ BuiltIsOwn /\ CurrentIsLive
  /\ Numbered /\ IdleIsClean /\ CacheIsNewer /\ RefreshGetsNewCredentials

-----------------------------------------------------------------------------
(***************************************************************************)
(* Types.                                                                  *)
(***************************************************************************)
Local == [at : Steps, object : Object \cup {None}, attempt : 1 .. Attempts,
          expired : 0 .. MaxExchanges]
News  == Seq({"interrupted", "resumed"})

(* The ways a step changes the locals of its task. *)
LEMMA LocalsTyped ==
  ASSUME task \in [Tasks -> Local], connection \in Object \cup {None}, NEW t \in Tasks
  PROVE  /\ \A r \in Local : Go(t, r) => task' \in [Tasks -> Local]
         /\ Return(t) => task' \in [Tasks -> Local]
         /\ \A step \in Steps : Step(t, step) => task' \in [Tasks -> Local]
         /\ \A n \in 1 .. Attempts : Attempt(t, n) => task' \in [Tasks -> Local]
<1>1. \A r \in Local : Go(t, r) => task' \in [Tasks -> Local]
  BY DEF Go
<1>2. Idle \in Local
  BY ConnectionAssumption DEF Idle, Local, Steps
<1>3. ASSUME NEW step \in Steps PROVE [task[t] EXCEPT !.at = step] \in Local
  BY DEF Local
<1>4. ASSUME NEW n \in 1 .. Attempts, connection # None
      PROVE  [at |-> "publish", object |-> connection, attempt |-> n, expired |-> 0] \in Local
  BY <1>4, ConnectionAssumption DEF Local, Steps
<1>5. Return(t) => task' \in [Tasks -> Local]
  BY <1>1, <1>2 DEF Return
<1>6. \A step \in Steps : Step(t, step) => task' \in [Tasks -> Local]
  BY <1>1, <1>3 DEF Step
<1>7. \A n \in 1 .. Attempts : Attempt(t, n) => task' \in [Tasks -> Local]
  BY <1>1, <1>4, <1>5 DEF Attempt
<1> QED BY <1>1, <1>5, <1>6, <1>7

LEMMA TakeoverTyped ==
  ASSUME ConnTypeOK, NEW o \in Object, NEW news \in News, Takeover(o, news)
  PROVE  state' \in [Object -> {"gone", "new", "up", "down"}] /\ posted' \in News
<1>1. << >> \in News /\ <<"interrupted">> \in News
  BY DEF News
<1>2. state' \in [Object -> {"gone", "new", "up", "down"}]
  BY DEF Takeover, ConnTypeOK
<1>3. \A s \in News : (posted \o s) \o news \in News
  BY ConcatProperties DEF ConnTypeOK, News
<1> QED BY <1>1, <1>2, <1>3 DEF Takeover

(* The type invariant without the credentials of objects, which no action   *)
(* sets by itself.                                                         *)
Typed ==
  /\ connection \in Object \cup {None} /\ connected \in BOOLEAN
  /\ lock \in Tasks \cup {None}
  /\ task \in [Tasks -> Local]
  /\ state \in [Object -> {"gone", "new", "up", "down"}]
  /\ cached \in 0 .. MaxExchanges /\ exchanges \in 0 .. MaxExchanges
  /\ posted \in News

LEMMA StepType ==
  ASSUME ConnTypeOK, ObjectsInHand, ConnStep \/ Unload
  PROVE  Typed'
<1> USE DEF Typed
<1>0. Typed /\ creds \in [Object -> 0 .. MaxExchanges]
  BY DEF ConnTypeOK, Local, News
<1>a. /\ {"idle", "lock", "credentials", "connecting", "accepted", "register",
          "publish", "sleep", "teardown"} \subseteq Steps
      /\ 1 \in 1 .. Attempts /\ 0 \in 0 .. MaxExchanges
      /\ << >> \in News /\ <<"resumed">> \in News
  BY ConnectionAssumption DEF Steps, News
<1>1. ASSUME NEW t \in Tasks, Publish(t) PROVE Typed'
  BY <1>1, <1>0, <1>a, LocalsTyped DEF Publish, authVars
<1>2. ASSUME NEW t \in Tasks, AlreadyConnected(t) PROVE Typed'
  BY <1>2, <1>0, <1>a, LocalsTyped DEF AlreadyConnected, authVars
<1>3. ASSUME NEW t \in Tasks, AcquireLock(t) PROVE Typed'
  BY <1>3, <1>0, <1>a, LocalsTyped DEF AcquireLock, authVars
<1>4. ASSUME NEW t \in Tasks, GetCredentials(t) PROVE Typed'
  <2>1. PICK o \in Object : Go(t, [task[t] EXCEPT !.at = "connecting", !.object = o])
    BY <1>4 DEF GetCredentials, Free
  <2>2. [task[t] EXCEPT !.at = "connecting", !.object = o] \in Local
    BY <1>0, <1>a DEF Local
  <2> QED BY <1>4, <1>0, <2>1, <2>2, LocalsTyped, ConnectionAssumption DEF GetCredentials, Free
<1>5. ASSUME NEW t \in Tasks, Accepted(t) PROVE Typed'
  <2>1. task[t].object \in Object
    BY <1>5 DEF Accepted, ObjectsInHand, HasBuilt, At
  <2> QED BY <1>5, <1>0, <1>a, <2>1, LocalsTyped, TakeoverTyped DEF Accepted, authVars
<1>6. ASSUME NEW t \in Tasks, Connected(t) PROVE Typed'
  <2>1. [task[t] EXCEPT !.at = "register", !.object = None] \in Local
    BY <1>0, <1>a DEF Local
  <2>2. task[t].object \in Object
    BY <1>6 DEF Connected, ObjectsInHand, HasBuilt, At
  <2> QED BY <1>6, <1>0, <2>1, <2>2, LocalsTyped DEF Connected, authVars
<1>7. ASSUME NEW t \in Tasks, Registered(t) PROVE Typed'
  BY <1>7, <1>0, <1>a, LocalsTyped DEF Registered, authVars
<1>8. ASSUME NEW t \in Tasks, BuildFails(t) PROVE Typed'
  BY <1>8, <1>0, <1>a, LocalsTyped DEF BuildFails, authVars
<1>9. ASSUME NEW t \in Tasks, PublishAcked(t) \/ PublishFails(t) PROVE Typed'
  BY <1>9, <1>0, <1>a, LocalsTyped DEF PublishAcked, PublishFails, authVars
<1>10. ASSUME NEW t \in Tasks, PublishRetried(t) PROVE Typed'
  <2>1. task[t].attempt + 1 \in 1 .. Attempts
    BY <1>10, <1>0, ConnectionAssumption DEF PublishRetried, Local
  <2>2. [task[t] EXCEPT !.at = "sleep", !.object = None, !.attempt = task[t].attempt + 1] \in Local
    BY <1>0, <1>a, <2>1 DEF Local
  <2> QED BY <1>10, <1>0, <2>2, LocalsTyped DEF PublishRetried, authVars
<1>11. ASSUME NEW t \in Tasks, RetryWakes(t) PROVE Typed'
  <2>1. task[t].attempt \in 1 .. Attempts
    BY <1>0 DEF Local
  <2> QED BY <1>11, <1>0, <1>a, <2>1, LocalsTyped DEF RetryWakes, authVars
<1>12. ASSUME NEW t \in Tasks, Expired(t) PROVE Typed'
  <2>1. task[t].object \in Object
    BY <1>12 DEF Expired, ObjectsInHand, At
  <2>2. [at |-> "teardown", object |-> connection, attempt |-> 1,
         expired |-> creds[task[t].object]] \in Local
    BY <1>0, <1>a, <2>1 DEF Local
  <2> QED BY <1>12, <1>0, <1>a, <2>2, LocalsTyped DEF Expired, authVars
<1>13. ASSUME NEW t \in Tasks, TornDown(t) PROVE Typed'
  <2>1. [task[t] EXCEPT !.at = "lock", !.object = None] \in Local
    BY <1>0, <1>a DEF Local
  <2>2. state' \in [Object -> {"gone", "new", "up", "down"}]
    BY <1>13, <1>0 DEF TornDown
  <2> QED BY <1>13, <1>0, <1>a, <2>1, <2>2, LocalsTyped DEF TornDown
<1>14. ASSUME NEW o \in Object, Interrupted(o) \/ Resumed(o) PROVE Typed'
  <2>1. CASE Interrupted(o)
    BY <2>1, <1>0 DEF Interrupted, authVars, News
  <2>2. CASE Resumed(o)
    BY <2>2, <1>0, <1>a, TakeoverTyped DEF Resumed, authVars
  <2> QED BY <1>14, <2>1, <2>2
<1>15. ASSUME Mark \/ CredentialsAge PROVE Typed'
  <2>1. CASE Mark
    BY <2>1, <1>0 DEF Mark, authVars, News
  <2>2. CASE CredentialsAge
    BY <2>2, <1>0, <1>a DEF CredentialsAge
  <2> QED BY <1>15, <2>1, <2>2
<1>16. ASSUME Unload PROVE Typed'
  <2>1. state' \in [Object -> {"gone", "new", "up", "down"}]
    BY <1>16, <1>0 DEF Unload
  <2> QED BY <1>16, <1>0, <1>a, <2>1 DEF Unload
<1> QED
  BY <1>1, <1>2, <1>3, <1>4, <1>5, <1>6, <1>7, <1>8, <1>9, <1>10, <1>11, <1>12, <1>13,
     <1>14, <1>15, <1>16
  DEF ConnStep, Locking, TaskStep, Bounded

-----------------------------------------------------------------------------
(***************************************************************************)
(* The lock, and who has which object.                                     *)
(***************************************************************************)
Handled == LockExcludes /\ ObjectsInHand /\ BuiltIsOwn /\ CurrentIsLive

LEMMA StepHandled ==
  ASSUME ConnTypeOK, Handled, ConnStep \/ Unload
  PROVE  Handled'
<1> USE ConnectionAssumption
    DEF Handled, LockExcludes, ObjectsInHand, BuiltIsOwn, CurrentIsLive,
        Building, HasBuilt, At, Go, Step, Return, Idle, Local
<1>0. /\ task \in [Tasks -> Local] /\ state \in [Object -> {"gone", "new", "up", "down"}]
      /\ connection \in Object \cup {None} /\ None \notin Object
  BY DEF ConnTypeOK, Object, None
<1>1. ASSUME NEW t \in Tasks, Publish(t) PROVE Handled'
  BY <1>1, <1>0 DEF Publish, Attempt
<1>2. ASSUME NEW t \in Tasks, AlreadyConnected(t) PROVE Handled'
  BY <1>2, <1>0 DEF AlreadyConnected, Attempt
<1>3. ASSUME NEW t \in Tasks, AcquireLock(t) PROVE Handled'
  BY <1>3, <1>0 DEF AcquireLock
<1>4. ASSUME NEW t \in Tasks, GetCredentials(t) PROVE Handled'
  BY <1>4, <1>0 DEF GetCredentials, Free
<1>5. ASSUME NEW t \in Tasks, Accepted(t) PROVE Handled'
  BY <1>5, <1>0 DEF Accepted, Takeover
<1>6. ASSUME NEW t \in Tasks, Connected(t) PROVE Handled'
  BY <1>6, <1>0 DEF Connected
<1>7. ASSUME NEW t \in Tasks, Registered(t) PROVE Handled'
  BY <1>7, <1>0 DEF Registered, Attempt
<1>8. ASSUME NEW t \in Tasks, BuildFails(t) PROVE Handled'
  BY <1>8, <1>0 DEF BuildFails
<1>9. ASSUME NEW t \in Tasks, PublishAcked(t) PROVE Handled'
  BY <1>9, <1>0 DEF PublishAcked
<1>10. ASSUME NEW t \in Tasks, PublishFails(t) PROVE Handled'
  BY <1>10, <1>0 DEF PublishFails
<1>11. ASSUME NEW t \in Tasks, PublishRetried(t) PROVE Handled'
  BY <1>11, <1>0 DEF PublishRetried
<1>12. ASSUME NEW t \in Tasks, RetryWakes(t) PROVE Handled'
  BY <1>12, <1>0 DEF RetryWakes, Attempt
<1>13. ASSUME NEW t \in Tasks, Expired(t) PROVE Handled'
  BY <1>13, <1>0 DEF Expired
<1>14. ASSUME NEW t \in Tasks, TornDown(t) PROVE Handled'
  BY <1>14, <1>0 DEF TornDown
<1>15. ASSUME NEW o \in Object, Interrupted(o) PROVE Handled'
  BY <1>15, <1>0 DEF Interrupted
<1>16. ASSUME NEW o \in Object, Resumed(o) PROVE Handled'
  BY <1>16, <1>0 DEF Resumed, Takeover
<1>17. ASSUME Mark PROVE Handled'
  BY <1>17, <1>0 DEF Mark
<1>18. ASSUME CredentialsAge PROVE Handled'
  BY <1>18, <1>0 DEF CredentialsAge
<1>19. ASSUME Unload PROVE Handled'
  BY <1>19, <1>0 DEF Unload
<1> QED
  BY <1>1, <1>2, <1>3, <1>4, <1>5, <1>6, <1>7, <1>8, <1>9, <1>10, <1>11, <1>12, <1>13,
     <1>14, <1>15, <1>16, <1>17, <1>18, <1>19
  DEF ConnStep, Locking, TaskStep, Bounded

-----------------------------------------------------------------------------
(***************************************************************************)
(* The numbers of credentials.                                             *)
(***************************************************************************)
(* An object comes into use only by being built. *)
LEMMA OnlyBuildTakesFree ==
  ASSUME ConnTypeOK, Handled, ConnStep \/ Unload, NEW o \in Object, o \in Free, o \notin Free'
  PROVE  \E t \in Tasks : GetCredentials(t)
<1> USE ConnectionAssumption
    DEF Handled, ObjectsInHand, CurrentIsLive, BuiltIsOwn, HasBuilt, At, Go, Step, Return, Idle, Local, Free
<1>0. /\ task \in [Tasks -> Local] /\ state \in [Object -> {"gone", "new", "up", "down"}]
      /\ connection \in Object \cup {None} /\ None \notin Object
  BY DEF ConnTypeOK, Object, None
<1>1. ASSUME NEW t \in Tasks, Publish(t) \/ AlreadyConnected(t) \/ Registered(t) \/ RetryWakes(t)
      PROVE  FALSE
  BY <1>1, <1>0 DEF Publish, AlreadyConnected, Registered, RetryWakes, Attempt
<1>2. ASSUME NEW t \in Tasks, AcquireLock(t) \/ BuildFails(t) \/ PublishAcked(t) \/ PublishFails(t)
      PROVE  FALSE
  BY <1>2, <1>0 DEF AcquireLock, BuildFails, PublishAcked, PublishFails
<1>3. ASSUME NEW t \in Tasks, PublishRetried(t) \/ Expired(t) \/ TornDown(t) \/ Connected(t)
      PROVE  FALSE
  <2>1. CASE PublishRetried(t)
    <3>1. \A u \in Tasks : task'[u].object \in {task[u].object, None}
      BY <2>1, <1>0 DEF PublishRetried
    <3> QED BY <2>1, <3>1, <1>0 DEF PublishRetried
  <2>4. CASE TornDown(t)
    BY <2>4, <1>0 DEF TornDown
  <2>2. CASE Expired(t)
    BY <2>2, <1>0 DEF Expired
  <2>3. CASE Connected(t)
    BY <2>3, <1>0 DEF Connected
  <2> QED BY <1>3, <2>1, <2>2, <2>3, <2>4
<1>4. ASSUME NEW t \in Tasks, Accepted(t) PROVE FALSE
  BY <1>4, <1>0 DEF Accepted, Takeover
<1>5. ASSUME NEW p \in Object, Interrupted(p) \/ Resumed(p) PROVE FALSE
  BY <1>5, <1>0 DEF Interrupted, Resumed, Takeover
<1>6. ASSUME Mark \/ CredentialsAge \/ Unload PROVE FALSE
  BY <1>6, <1>0 DEF Mark, CredentialsAge, Unload
<1> QED
  BY <1>1, <1>2, <1>3, <1>4, <1>5, <1>6 DEF ConnStep, Locking, TaskStep, Bounded

(* The cache is emptied, or is filled by an exchange of a new number.      *)
LEMMA CacheSteps ==
  ASSUME ConnTypeOK, ConnStep \/ Unload
  PROVE  \/ cached' \in {0, cached} /\ exchanges' = exchanges
         \/ cached' = exchanges + 1 /\ exchanges' = exchanges + 1
<1> QED
  BY DEF ConnStep, Locking, TaskStep, Bounded, authVars, Publish, AlreadyConnected, AcquireLock,
     GetCredentials, Accepted, Connected, Registered, BuildFails, PublishAcked, PublishFails,
     PublishRetried, RetryWakes, Expired, TornDown, Interrupted, Resumed, Mark,
     CredentialsAge, Unload

(* How the locals of a task move, as far as expiries go. *)
ExpiryMoves(t) ==
  /\ \/ task'[t].expired \in {0, task[t].expired}
     \/ At(t, "publish") /\ task'[t].expired = creds[task[t].object]
  /\ task'[t].at = "idle" => task'[t].expired = 0
  /\ task'[t].at \in {"lock", "credentials"} /\ task'[t].expired # 0 =>
       /\ task'[t].expired = task[t].expired
       /\ task[t].at \in {"lock", "credentials"} \/ cached' = 0
  /\ task'[t].at = "connecting" => task'[t] = task[t] \/ GetCredentials(t)

LEMMA TaskMoves ==
  ASSUME ConnTypeOK, IdleIsClean, ConnStep \/ Unload, NEW u \in Tasks
  PROVE  ExpiryMoves(u)
<1> USE DEF ExpiryMoves, At, Go, Step, Return, Idle
<1>0. task \in [Tasks -> Local] /\ \A t \in Tasks : task[t].at = "idle" => task[t].expired = 0
  BY DEF ConnTypeOK, Local, IdleIsClean
<1> USE DEF Local
<1>1. ASSUME NEW t \in Tasks, Publish(t) PROVE ExpiryMoves(u)
  BY <1>1, <1>0 DEF Publish, Attempt
<1>2. ASSUME NEW t \in Tasks, AlreadyConnected(t) PROVE ExpiryMoves(u)
  BY <1>2, <1>0 DEF AlreadyConnected, Attempt
<1>3. ASSUME NEW t \in Tasks, AcquireLock(t) PROVE ExpiryMoves(u)
  BY <1>3, <1>0 DEF AcquireLock
<1>4. ASSUME NEW t \in Tasks, GetCredentials(t) PROVE ExpiryMoves(u)
  <2>1. PICK o \in Free : task' = [task EXCEPT ![t] = [task[t] EXCEPT !.at = "connecting", !.object = o]]
    BY <1>4 DEF GetCredentials
  <2>2. task'[t].at = "connecting" /\ task'[t].expired = task[t].expired
    BY <2>1, <1>0
  <2>3. u # t => task'[u] = task[u]
    BY <2>1, <1>0
  <2> QED BY <1>4, <1>0, <2>2, <2>3
<1>5. ASSUME NEW t \in Tasks, Accepted(t) PROVE ExpiryMoves(u)
  BY <1>5, <1>0 DEF Accepted
<1>6. ASSUME NEW t \in Tasks, Connected(t) PROVE ExpiryMoves(u)
  BY <1>6, <1>0 DEF Connected
<1>7. ASSUME NEW t \in Tasks, Registered(t) PROVE ExpiryMoves(u)
  BY <1>7, <1>0 DEF Registered, Attempt
<1>8. ASSUME NEW t \in Tasks, BuildFails(t) PROVE ExpiryMoves(u)
  BY <1>8, <1>0 DEF BuildFails
<1>9. ASSUME NEW t \in Tasks, PublishAcked(t) PROVE ExpiryMoves(u)
  BY <1>9, <1>0 DEF PublishAcked
<1>10. ASSUME NEW t \in Tasks, PublishFails(t) PROVE ExpiryMoves(u)
  BY <1>10, <1>0 DEF PublishFails
<1>11. ASSUME NEW t \in Tasks, PublishRetried(t) PROVE ExpiryMoves(u)
  BY <1>11, <1>0 DEF PublishRetried
<1>12. ASSUME NEW t \in Tasks, RetryWakes(t) PROVE ExpiryMoves(u)
  BY <1>12, <1>0 DEF RetryWakes, Attempt
<1>13. ASSUME NEW t \in Tasks, Expired(t) PROVE ExpiryMoves(u)
  BY <1>13, <1>0 DEF Expired
<1>14. ASSUME NEW t \in Tasks, TornDown(t) PROVE ExpiryMoves(u)
  BY <1>14, <1>0 DEF TornDown
<1>15. ASSUME UNCHANGED task PROVE ExpiryMoves(u)
  BY <1>15, <1>0
<1> QED
  BY <1>1, <1>2, <1>3, <1>4, <1>5, <1>6, <1>7, <1>8, <1>9, <1>10, <1>11, <1>12, <1>13,
     <1>14, <1>15
  DEF ConnStep, Locking, TaskStep, Bounded, Interrupted, Resumed, Mark, CredentialsAge, Unload

LEMMA StepNumbers ==
  ASSUME ConnInv, ConnTypeOK', Handled', ConnStep \/ Unload, CredentialsOfObjects
  PROVE  Numbered' /\ IdleIsClean' /\ CacheIsNewer' /\ RefreshGetsNewCredentials'
<1>0. ConnTypeOK /\ Handled /\ Numbered /\ IdleIsClean /\ CacheIsNewer /\ RefreshGetsNewCredentials
  BY DEF ConnInv, Handled
<1>1. /\ cached \in Nat /\ exchanges \in Nat /\ cached' \in Nat /\ exchanges' \in Nat
      /\ task \in [Tasks -> Local] /\ task' \in [Tasks -> Local]
      /\ \A t \in Tasks : task[t].expired \in Nat /\ task'[t].expired \in Nat
      /\ \A o \in Object : creds[o] \in Nat /\ creds'[o] \in Nat
  <2>1. 0 .. MaxExchanges \subseteq Nat
    BY ConnectionAssumption
  <2>2. task \in [Tasks -> Local] /\ task' \in [Tasks -> Local]
    BY <1>0 DEF ConnTypeOK, Local
  <2>3. \A r \in Local : r.expired \in Nat
    BY <2>1 DEF Local
  <2> QED BY <1>0, <2>1, <2>2, <2>3 DEF ConnTypeOK
<1>2. \/ cached' \in {0, cached} /\ exchanges' = exchanges
      \/ cached' = exchanges + 1 /\ exchanges' = exchanges + 1
  BY <1>0, CacheSteps
<1>3. cached' <= exchanges' /\ exchanges <= exchanges'
  BY <1>0, <1>1, <1>2 DEF Numbered
<1>4. ASSUME NEW o \in Object PROVE creds'[o] <= exchanges' /\ (o \notin Free' => creds'[o] > 0)
  <2>1. creds'[o] = IF o \in Free' THEN 0 ELSE IF o \in Free THEN cached' ELSE creds[o]
    BY DEF CredentialsOfObjects
  <2>2. CASE o \in Free'
    BY <2>1, <2>2, <1>1
  <2>3. CASE o \notin Free' /\ o \in Free
    <3>1. PICK t \in Tasks : GetCredentials(t)
      BY <2>3, <1>0, OnlyBuildTakesFree
    <3>2. cached' # 0
      BY <3>1, <1>1 DEF GetCredentials
    <3> QED BY <3>2, <2>1, <2>3, <1>1, <1>3
  <2>4. CASE o \notin Free' /\ o \notin Free
    BY <2>1, <2>4, <1>0, <1>1, <1>3 DEF Numbered
  <2> QED BY <2>2, <2>3, <2>4
<1>5. ASSUME NEW t \in Tasks
      PROVE  task'[t].expired <= exchanges' /\ (task'[t].at = "idle" => task'[t].expired = 0)
  <2>1. ExpiryMoves(t)
    BY <1>0, TaskMoves
  <2>2. At(t, "publish") => task[t].object \in Object
    BY <1>0 DEF Handled, ObjectsInHand
  <2>3. task[t].expired <= exchanges /\ \A o \in Object : creds[o] <= exchanges
    BY <1>0 DEF Numbered
  <2> QED BY <2>1, <2>2, <2>3, <1>1, <1>3 DEF ExpiryMoves
<1>6. Numbered' /\ IdleIsClean'
  BY <1>3, <1>4, <1>5 DEF Numbered, IdleIsClean
<1>7. ASSUME NEW t \in Tasks, task'[t].at \in {"lock", "credentials"}, task'[t].expired # 0
      PROVE  cached' = 0 \/ cached' > task'[t].expired
  <2>1. /\ task'[t].expired = task[t].expired
        /\ task[t].at \in {"lock", "credentials"} \/ cached' = 0
    BY <1>0, <1>7, TaskMoves DEF ExpiryMoves
  <2>2. task[t].expired <= exchanges
    BY <1>0 DEF Numbered
  <2>3. CASE task[t].at \in {"lock", "credentials"}
    <3>1. cached = 0 \/ cached > task[t].expired
      BY <2>1, <2>3, <1>0, <1>7 DEF CacheIsNewer
    <3> QED BY <3>1, <2>1, <2>2, <1>1, <1>2
  <2> QED BY <2>1, <2>3
<1>8. CacheIsNewer'
  BY <1>7 DEF CacheIsNewer
<1>9. ASSUME NEW t \in Tasks, task'[t].at = "connecting", task'[t].expired # 0
      PROVE  creds'[task'[t].object] > task'[t].expired
  <2> DEFINE o == task'[t].object
  <2>0. o \in Object /\ o \notin Free'
    BY <1>0, <1>9 DEF Handled, ObjectsInHand, HasBuilt, Free
  <2>1. CASE task'[t] = task[t]
    <3>1. creds[o] > task[t].expired /\ o \notin Free
      BY <2>0, <2>1, <1>0, <1>9 DEF RefreshGetsNewCredentials, At, Free
    <3> QED BY <3>1, <2>0, <2>1 DEF CredentialsOfObjects
  <2>2. CASE GetCredentials(t)
    <3>1. /\ task[t].at = "credentials" /\ o \in Free /\ cached' # 0
          /\ task'[t].expired = task[t].expired
      BY <2>2, <1>1 DEF GetCredentials, At, Go, Local
    <3>2. creds'[o] = cached'
      BY <3>1, <2>0 DEF CredentialsOfObjects
    <3>3. cached = 0 \/ cached > task[t].expired
      BY <3>1, <1>0, <1>9 DEF CacheIsNewer
    <3>4. task[t].expired <= exchanges
      BY <1>0 DEF Numbered
    <3> QED BY <3>1, <3>2, <3>3, <3>4, <1>1, <1>2
  <2> QED BY <1>0, <1>9, <2>1, <2>2, TaskMoves DEF ExpiryMoves
<1>10. RefreshGetsNewCredentials'
  BY <1>9 DEF RefreshGetsNewCredentials, At
<1> QED BY <1>6, <1>8, <1>10

-----------------------------------------------------------------------------
(***************************************************************************)
(* The theorems.                                                           *)
(***************************************************************************)
LEMMA InitConn == ConnInit => ConnInv
<1> SUFFICES ASSUME ConnInit PROVE ConnInv
  OBVIOUS
<1>1. 1 \in Object /\ None \notin Object /\ 1 \in 1 .. Attempts /\ 1 \in 0 .. MaxExchanges
  BY ConnectionAssumption DEF Object, None
<1>2. ConnTypeOK
  <2>1. Idle \in Local
    BY <1>1, ConnectionAssumption DEF Idle, Local, Steps
  <2>2. state \in [Object -> {"gone", "new", "up", "down"}] /\ creds \in [Object -> 0 .. MaxExchanges]
    BY <1>1, ConnectionAssumption DEF ConnInit
  <2>3. << >> \in News
    BY DEF News
  <2> QED BY <1>1, <2>1, <2>2, <2>3, ConnectionAssumption DEF ConnInit, ConnTypeOK, Local, News
<1>3. Handled
  BY <1>1, ConnectionAssumption
  DEF ConnInit, Handled, LockExcludes, ObjectsInHand, BuiltIsOwn, CurrentIsLive,
      Building, HasBuilt, At, Idle
<1>4. Numbered /\ IdleIsClean /\ CacheIsNewer /\ RefreshGetsNewCredentials
  BY <1>1 DEF ConnInit, Numbered, IdleIsClean, CacheIsNewer, RefreshGetsNewCredentials, Free, At, Idle
<1> QED BY <1>2, <1>3, <1>4 DEF ConnInv, Handled

LEMMA NextConn == ConnInv /\ [ConnNext]_connVars => ConnInv'
<1> SUFFICES ASSUME ConnInv, [ConnNext]_connVars PROVE ConnInv'
  OBVIOUS
<1>0. ConnTypeOK /\ Handled
  BY DEF ConnInv, Handled
<1>1. CASE \/ ConnStep /\ UNCHANGED unloaded /\ CredentialsOfObjects
           \/ Unload /\ CredentialsOfObjects
  <2>0. (ConnStep \/ Unload) /\ CredentialsOfObjects
    BY <1>1
  <2>1. Typed'
    BY <1>0, <2>0, StepType DEF Handled
  <2>2. unloaded' \in BOOLEAN
    BY <1>0, <1>1 DEF ConnTypeOK, Unload
  <2>3. creds' \in [Object -> 0 .. MaxExchanges]
    BY <1>0, <2>0, <2>1, ConnectionAssumption DEF CredentialsOfObjects, ConnTypeOK, Typed
  <2>4. ConnTypeOK'
    BY <2>1, <2>2, <2>3 DEF ConnTypeOK, Typed, Local, News
  <2>5. Handled'
    BY <1>0, <2>0, StepHandled
  <2> QED BY <2>0, <2>4, <2>5, StepNumbers DEF ConnInv, Handled
<1>2. CASE UNCHANGED connVars
  BY <1>2
  DEF connVars, ConnInv, ConnTypeOK, LockExcludes, ObjectsInHand, BuiltIsOwn, CurrentIsLive,
      Numbered, IdleIsClean, CacheIsNewer, RefreshGetsNewCredentials, Building, HasBuilt, At, Free
<1> QED BY <1>1, <1>2 DEF ConnNext, Ended

LEMMA ConnectionHolds == ConnSpec => []ConnInv
<1> QED BY InitConn, NextConn, PTL DEF ConnSpec

(* Every reachable state of the publishing tasks, their connection objects *)
(* and the auth provider is well typed.                                    *)
THEOREM ConnTypeCorrect == ConnSpec => []ConnTypeOK
<1>1. ConnInv => ConnTypeOK
  BY DEF ConnInv
<1> QED BY <1>1, ConnectionHolds, PTL

(* However many tasks publish, rebuild and refresh at once, what            *)
(* _connection refers to was never torn down or released.                  *)
THEOREM ConnectionIsLive == ConnSpec => []CurrentIsLive
<1>1. ConnInv => CurrentIsLive
  BY DEF ConnInv
<1> QED BY <1>1, ConnectionHolds, PTL

(* A connection built to replace expired credentials never carries the      *)
(* credentials whose expiry began the refresh, or older ones.              *)
THEOREM RefreshIsFresh == ConnSpec => []RefreshGetsNewCredentials
<1>1. ConnInv => RefreshGetsNewCredentials
  BY DEF ConnInv
<1> QED BY <1>1, ConnectionHolds, PTL
=============================================================================
