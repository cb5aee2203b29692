----------------------------- MODULE StoreProofs -----------------------------
(***************************************************************************)
(* What holds of AutomationStore for any automations, configurations and   *)
(* tokens, any number of concurrent commands and any two windows: types,   *)
(* that the cloud's card converges, and that only a stored write uses up    *)
(* its token.                                                              *)
(***************************************************************************)
EXTENDS AutomationStore, TLAPS

(***************************************************************************)
(* The inductive invariant.                                                *)
(***************************************************************************)
(* What a slot holds at each of its steps. *)
Applying  == [at : {"read", "store", "reload"}, id : Id, config : Config \cup {Absent},
              token : Token \cup {NoToken}, list : Store]
Showing   == [at : {"publish"}, automations : Store, newest : BOOLEAN]
Local     == {Idle, [at |-> "collect"]} \cup Applying \cup Showing

StoreTypes ==
  /\ file \in Store /\ loaded \in Store /\ card \in Store
  /\ task \in [Tasks -> Local]
  /\ seen \subseteq Token
  /\ suppressed \in 0 .. SuppressWindow
  /\ timer \in {Off} \cup 0 .. Debounce
  /\ missed \in BOOLEAN
  /\ counts \in [commands : 0 .. MaxCommands, edits : 0 .. MaxEdits, reloads : 0 .. MaxReloads]

(* A snapshot will be collected: the timer runs, or a slot is on its way. *)
Coming == timer # Off \/ \E t \in Tasks : At(t, "collect") \/ At(t, "reload")

(* The one snapshot that was collected last, while it is published. *)
Newest(t) == At(t, "publish") /\ task[t].newest

OneNewest == \A t, u \in Tasks : Newest(t) /\ Newest(u) => t = u

(* When no snapshot will be collected and nothing was missed, the card      *)
(* shows what is loaded, or the last snapshot, under way, will.            *)
CardFollows ==
  ~ missed /\ ~ Coming =>
    /\ \A t \in Tasks : Newest(t) => task[t].automations = loaded
    /\ (\A t \in Tasks : ~ Newest(t)) => card = loaded

StoreInv == StoreTypes /\ OneNewest /\ CardFollows

LEMMA StoreSays == StoreInv => StoreTypeOK /\ CardIsTrue
<1> SUFFICES ASSUME StoreInv PROVE StoreTypeOK /\ CardIsTrue
  OBVIOUS
<1>1. \A t \in Tasks : task[t] \in Local
  BY DEF StoreInv, StoreTypes
<1>2. \A r \in Local : r.at \in Steps
  BY DEF Local, Idle, Applying, Showing, Steps
<1>3. StoreTypeOK
  BY <1>1, <1>2 DEF StoreInv, StoreTypes, StoreTypeOK
<1>4. ASSUME Quiet, ~ missed PROVE card = loaded
  <2>1. ~ Coming /\ \A t \in Tasks : ~ Newest(t)
    BY <1>4 DEF Quiet, Coming, Newest, At
  <2> QED BY <1>4, <2>1 DEF StoreInv, CardFollows
<1> QED BY <1>3, <1>4 DEF CardIsTrue

-----------------------------------------------------------------------------
(***************************************************************************)
(* The slots.                                                              *)
(***************************************************************************)
LEMMA SlotTyped ==
  ASSUME StoreTypes, NEW t \in Tasks
  PROVE  /\ task[t] \in Local
         /\ At(t, "read") \/ At(t, "store") \/ At(t, "reload") => task[t] \in Applying
         /\ At(t, "publish") => task[t] \in Showing
<1>1. task[t] \in Local
  BY DEF StoreTypes
<1>2. task[t] \in Showing => task[t].at = "publish"
  BY DEF Showing
<1>3. task[t] \in Applying => task[t].at \in {"read", "store", "reload"}
  BY DEF Applying
<1>4. task[t] = Idle => task[t].at = "idle"
  BY DEF Idle
<1>5. task[t] = [at |-> "collect"] => task[t].at = "collect"
  OBVIOUS
<1> QED BY <1>1, <1>2, <1>3, <1>4, <1>5 DEF Local, At

LEMMA Goes ==
  ASSUME StoreTypes, NEW t \in Tasks, NEW local, Go(t, local)
  PROVE  /\ task'[t] = local /\ \A u \in Tasks \ {t} : task'[u] = task[u]
         /\ local \in Local => task' \in [Tasks -> Local]
<1> QED BY DEF StoreTypes, Go

LEMMA ApplyTyped ==
  ASSUME NEW i \in Id, NEW c \in Config \cup {Absent}, NEW k \in Token \cup {NoToken}
  PROVE  Apply(i, c, k) \in Applying /\ Apply(i, c, k).at = "read"
<1>1. Nothing \in Store
  BY DEF Nothing, Store
<1> QED BY <1>1 DEF Apply, Applying

(* A slot that neither begins nor ends to show something leaves the card be. *)
LEMMA CardKept ==
  ASSUME StoreInv, NEW t \in Tasks, NEW local, Go(t, local),
         ~ At(t, "publish"), local.at # "publish",
         ~ At(t, "collect"), ~ At(t, "reload"),
         UNCHANGED <<loaded, card, missed, timer>>
  PROVE  OneNewest' /\ CardFollows'
<1>0. StoreTypes
  BY DEF StoreInv
<1>1. task'[t] = local /\ \A u \in Tasks \ {t} : task'[u] = task[u]
  BY <1>0, Goes
<1>2. \A u \in Tasks : /\ Newest(u)' <=> Newest(u)
                       /\ Newest(u) => task'[u] = task[u]
  BY <1>1 DEF Newest, At
<1>3. Coming => Coming'
  BY <1>1 DEF Coming, At
<1>4. OneNewest'
  BY <1>2 DEF StoreInv, OneNewest
<1>5. CardFollows'
  BY <1>2, <1>3 DEF StoreInv, CardFollows
<1> QED BY <1>4, <1>5

(* When a snapshot is to come, nothing more need be said of the card. *)
LEMMA CardComes ==
  ASSUME StoreInv, NEW t \in Tasks, NEW local, Go(t, local), local.at # "publish",
         Coming'
  PROVE  OneNewest' /\ CardFollows'
<1>0. StoreTypes
  BY DEF StoreInv
<1>1. task'[t] = local /\ \A u \in Tasks \ {t} : task'[u] = task[u]
  BY <1>0, Goes
<1>2. \A u \in Tasks : Newest(u)' => Newest(u)
  BY <1>1 DEF Newest, At
<1> QED BY <1>2 DEF StoreInv, OneNewest, CardFollows

(* A change of the automations arms the timer, or falls into the window. *)
LEMMA Rearmed ==
  ASSUME OnChange, suppressed = 0
  PROVE  timer' # Off
<1> QED BY StoreAssumption DEF OnChange, Off

LEMMA CountedTyped ==
  ASSUME StoreTypes,
         \/ Counted("commands", MaxCommands) \/ Counted("edits", MaxEdits)
         \/ Counted("reloads", MaxReloads)
  PROVE  counts' \in [commands : 0 .. MaxCommands, edits : 0 .. MaxEdits, reloads : 0 .. MaxReloads]
<1>1. PICK n \in 0 .. MaxCommands, m \in 0 .. MaxEdits, l \in 0 .. MaxReloads :
        counts = [commands |-> n, edits |-> m, reloads |-> l]
  BY DEF StoreTypes
<1>2. CASE Counted("commands", MaxCommands)
  <2>1. counts' = [commands |-> n + 1, edits |-> m, reloads |-> l] /\ n < MaxCommands
    BY <1>1, <1>2 DEF Counted
  <2> QED BY <2>1, StoreAssumption
<1>3. CASE Counted("edits", MaxEdits)
  <2>1. counts' = [commands |-> n, edits |-> m + 1, reloads |-> l] /\ m < MaxEdits
    BY <1>1, <1>3 DEF Counted
  <2> QED BY <2>1, StoreAssumption
<1>4. CASE Counted("reloads", MaxReloads)
  <2>1. counts' = [commands |-> n, edits |-> m, reloads |-> l + 1] /\ l < MaxReloads
    BY <1>1, <1>4 DEF Counted
  <2> QED BY <2>1, StoreAssumption
<1> QED BY <1>2, <1>3, <1>4

-----------------------------------------------------------------------------
(***************************************************************************)
(* The steps.                                                              *)
(***************************************************************************)
LEMMA WriteSteps ==
  ASSUME StoreInv, NEW t \in Tasks,
         \/ \E i \in Id, c \in Config, k \in Token : WriteAutomation(t, i, c, k)
         \/ \E i \in Id : DeleteAutomation(t, i)
  PROVE  StoreInv'
<1>0. StoreTypes
  BY DEF StoreInv
<1>1. /\ At(t, "idle") /\ Counted("commands", MaxCommands)
      /\ UNCHANGED <<file, loaded, card, seen, timer, missed>>
      /\ Suppress \/ UNCHANGED suppressed
      /\ \/ UNCHANGED task
         \/ \E i \in Id, c \in Config \cup {Absent}, k \in Token \cup {NoToken} : Go(t, Apply(i, c, k))
  BY DEF WriteAutomation, DeleteAutomation
<1>2. suppressed' \in 0 .. SuppressWindow
  BY <1>0, <1>1, StoreAssumption DEF StoreTypes, Suppress
<1>3. counts' \in [commands : 0 .. MaxCommands, edits : 0 .. MaxEdits, reloads : 0 .. MaxReloads]
  BY <1>0, <1>1, CountedTyped
<1>4. CASE UNCHANGED task
  <2>1. StoreTypes'
    BY <1>0, <1>1, <1>2, <1>3, <1>4 DEF StoreTypes
  <2>2. OneNewest' /\ CardFollows'
    BY <1>1, <1>4 DEF StoreInv, OneNewest, CardFollows, Newest, Coming, At
  <2> QED BY <2>1, <2>2 DEF StoreInv
<1>5. ASSUME NEW i \in Id, NEW c \in Config \cup {Absent}, NEW k \in Token \cup {NoToken},
             Go(t, Apply(i, c, k))
      PROVE  StoreInv'
  <2>1. PICK local \in Local : local = Apply(i, c, k) /\ local.at = "read" /\ Go(t, local)
    BY <1>5, ApplyTyped DEF Local
  <2>2. StoreTypes'
    BY <1>0, <1>1, <1>2, <1>3, <2>1, Goes DEF StoreTypes
  <2>3. OneNewest' /\ CardFollows'
    BY <1>1, <2>1, CardKept DEF At
  <2> QED BY <2>2, <2>3 DEF StoreInv
<1> QED BY <1>1, <1>4, <1>5

LEMMA SnapshotComes ==
  ASSUME StoreInv, NEW t \in Tasks, TakeSetupSnapshot(t) \/ DebounceElapsed(t)
  PROVE  StoreInv'
<1>0. StoreTypes
  BY DEF StoreInv
<1>1. /\ Go(t, [at |-> "collect"]) /\ [at |-> "collect"] \in Local
      /\ UNCHANGED <<file, loaded, card, seen, suppressed, missed>>
      /\ timer' = timer \/ timer' = Off
  BY DEF TakeSetupSnapshot, DebounceElapsed, Local
<1>2. counts' \in [commands : 0 .. MaxCommands, edits : 0 .. MaxEdits, reloads : 0 .. MaxReloads]
  BY <1>0, CountedTyped DEF TakeSetupSnapshot, DebounceElapsed, StoreTypes
<1>3. StoreTypes'
  BY <1>0, <1>1, <1>2, Goes DEF StoreTypes
<1>4. Coming'
  BY <1>0, <1>1, Goes DEF Coming, At
<1>5. OneNewest' /\ CardFollows'
  BY <1>1, <1>4, CardComes
<1> QED BY <1>3, <1>5 DEF StoreInv

LEMMA ReadSteps ==
  ASSUME StoreInv, NEW t \in Tasks, ReadStore(t) \/ StoreFailed(t)
  PROVE  StoreInv'
<1>0. StoreTypes
  BY DEF StoreInv
<1>1. /\ At(t, "read") \/ At(t, "store")
      /\ UNCHANGED <<file, loaded, card, seen, suppressed, timer, missed, counts>>
  BY DEF ReadStore, StoreFailed
<1>2. PICK local \in Local : Go(t, local) /\ local.at # "publish"
  <2>1. Idle \in Local /\ Idle.at # "publish"
    BY DEF Local, Idle
  <2>2. /\ [task[t] EXCEPT !.at = "store", !.list = file] \in Applying
        /\ [task[t] EXCEPT !.at = "store", !.list = file].at # "publish"
    <3>1. task[t] \in Applying /\ file \in Store
      BY <1>0, <1>1, SlotTyped DEF StoreTypes
    <3> QED BY <3>1 DEF Applying
  <2> QED BY <2>1, <2>2 DEF ReadStore, StoreFailed, Local
<1>3. StoreTypes'
  BY <1>0, <1>1, <1>2, Goes DEF StoreTypes
<1>4. OneNewest' /\ CardFollows'
  BY <1>1, <1>2, CardKept DEF At
<1> QED BY <1>3, <1>4 DEF StoreInv

LEMMA ApplySteps ==
  ASSUME StoreInv, NEW t \in Tasks, WriteStore(t) \/ ReloadAutomation(t)
  PROVE  StoreInv'
<1>0. StoreTypes
  BY DEF StoreInv
<1>1. task[t] \in Applying
  BY <1>0, SlotTyped DEF WriteStore, ReloadAutomation
<1>2. PICK local \in Local : Go(t, local) /\ local.at \in {"reload", "collect"}
  <2>1. CASE WriteStore(t)
    <3>1. [task[t] EXCEPT !.at = "reload"] \in Applying /\ [task[t] EXCEPT !.at = "reload"].at = "reload"
      BY <1>1 DEF Applying
    <3> QED BY <2>1, <3>1 DEF WriteStore, Step, Local
  <2>2. CASE ReloadAutomation(t)
    BY <2>2 DEF ReloadAutomation, Local
  <2> QED BY <2>1, <2>2
<1>3. /\ file' \in Store /\ loaded' \in Store /\ seen' \subseteq Token
      /\ timer' = timer \/ timer' = Debounce
      /\ UNCHANGED <<card, suppressed, missed, counts>>
  <2>1. /\ task[t].id \in Id /\ task[t].config \in Config \cup {Absent}
        /\ task[t].token \in Token \cup {NoToken} /\ task[t].list \in Store
        /\ file \in Store /\ loaded \in Store /\ seen \subseteq Token
    BY <1>0, <1>1 DEF Applying, StoreTypes
  <2>2. \A f \in Store : \A i \in Id : \A c \in Config \cup {Absent} : [f EXCEPT ![i] = c] \in Store
    BY DEF Store
  <2>3. file[task[t].id] \in Config \cup {Absent}
    BY <2>1 DEF Store
  <2>4. CASE WriteStore(t)
    BY <2>1, <2>2, <2>4 DEF WriteStore, OnChange, Marked
  <2>5. CASE ReloadAutomation(t)
    BY <2>1, <2>2, <2>3, <2>5 DEF ReloadAutomation, OnChange
  <2> QED BY <2>4, <2>5
<1>4. StoreTypes'
  <2>1. timer' \in {Off} \cup 0 .. Debounce
    BY <1>0, <1>3, StoreAssumption DEF StoreTypes
  <2> QED BY <1>0, <1>2, <1>3, <2>1, Goes DEF StoreTypes
<1>5. Coming'
  BY <1>0, <1>2, Goes DEF Coming, At
<1>6. OneNewest' /\ CardFollows'
  BY <1>2, <1>5, CardComes
<1> QED BY <1>4, <1>6 DEF StoreInv

(* The snapshot that is collected becomes the newest, and shows what is     *)
(* loaded; those under way are older.                                      *)
LEMMA CollectStep ==
  ASSUME StoreInv, NEW t \in Tasks, CollectSnapshot(t)
  PROVE  StoreInv'
<1>0. StoreTypes
  BY DEF StoreInv
<1>1. /\ \A u \in Tasks : \/ u = t /\ task'[u] = Publishing(loaded, TRUE)
                          \/ u # t /\ At(u, "publish") /\ task'[u] = [task[u] EXCEPT !.newest = FALSE]
                          \/ u # t /\ ~ At(u, "publish") /\ task'[u] = task[u]
      /\ task' = [u \in Tasks |-> task'[u]]
      /\ missed' = FALSE /\ UNCHANGED <<file, loaded, card, seen, suppressed, timer, counts>>
  BY DEF CollectSnapshot
<1>2. Publishing(loaded, TRUE) \in Showing
  BY <1>0 DEF StoreTypes, Publishing, Showing
<1>3. \A u \in Tasks : At(u, "publish") => [task[u] EXCEPT !.newest = FALSE] \in Showing
                                           /\ [task[u] EXCEPT !.newest = FALSE].newest = FALSE
  <2>1. \A r \in Showing : [r EXCEPT !.newest = FALSE] \in Showing /\ [r EXCEPT !.newest = FALSE].newest = FALSE
    BY DEF Showing
  <2> QED BY <1>0, <2>1, SlotTyped
<1>4. StoreTypes'
  <2>1. \A u \in Tasks : task'[u] \in Local
    BY <1>0, <1>1, <1>2, <1>3, SlotTyped DEF Local
  <2> QED BY <1>0, <1>1, <2>1 DEF StoreTypes
<1>5. \A u \in Tasks \ {t} : ~ Newest(u)'
  BY <1>1, <1>3 DEF Newest, At
<1>6. task'[t].automations = loaded /\ Newest(t)'
  BY <1>1 DEF Publishing, Newest, At
<1>7. OneNewest' /\ CardFollows'
  BY <1>1, <1>5, <1>6 DEF OneNewest, CardFollows
<1> QED BY <1>4, <1>7 DEF StoreInv

LEMMA PublishStep ==
  ASSUME StoreInv, NEW t \in Tasks, PublishSnapshot(t)
  PROVE  StoreInv'
<1>0. StoreTypes
  BY DEF StoreInv
<1>1. /\ At(t, "publish") /\ Go(t, Idle) /\ Idle \in Local /\ Idle.at = "idle"
      /\ UNCHANGED <<file, loaded, seen, suppressed, timer, counts>>
      /\ \/ card' = task[t].automations /\ (~ missed' => ~ missed /\ Newest(t))
         \/ card' = card /\ missed'
      /\ missed' \in BOOLEAN
  BY <1>0 DEF PublishSnapshot, Local, Idle, Newest, StoreTypes
<1>2. task'[t] = Idle /\ \A u \in Tasks \ {t} : task'[u] = task[u]
  BY <1>0, <1>1, Goes
<1>3. StoreTypes'
  <2>1. card \in Store /\ task[t].automations \in Store
    BY <1>0, <1>1, SlotTyped DEF StoreTypes, Showing
  <2> QED BY <1>0, <1>1, <2>1, Goes DEF StoreTypes
<1>4. /\ \A u \in Tasks : Newest(u)' => u # t /\ Newest(u)
      /\ Coming => Coming'
  BY <1>1, <1>2 DEF Newest, Coming, At
<1>5. OneNewest'
  BY <1>4 DEF StoreInv, OneNewest
<1>6. CardFollows'
  <2> SUFFICES ASSUME ~ missed', ~ Coming'
               PROVE  card' = loaded /\ \A u \in Tasks : ~ Newest(u)'
    BY <1>1 DEF CardFollows
  <2>1. card' = task[t].automations /\ ~ missed /\ Newest(t) /\ ~ Coming
    BY <1>1, <1>4
  <2>2. \A u \in Tasks : ~ Newest(u)'
    BY <1>4, <2>1 DEF StoreInv, OneNewest
  <2> QED BY <2>1, <2>2 DEF StoreInv, CardFollows
<1> QED BY <1>3, <1>5, <1>6 DEF StoreInv

(* The setup that follows a reload of the entry ends with a snapshot. *)
LEMMA ReloadStep ==
  ASSUME StoreInv, NEW t \in Tasks, ReloadEntry(t)
  PROVE  StoreInv'
<1>0. StoreTypes
  BY DEF StoreInv
<1>1. /\ \A u \in Tasks : \/ u = t /\ task'[u] = [at |-> "collect"]
                          \/ u # t /\ "token" \in DOMAIN task[u] /\ task'[u] = [task[u] EXCEPT !.token = NoToken]
                          \/ u # t /\ task'[u] = task[u]
      /\ task' = [u \in Tasks |-> task'[u]]
      /\ seen' = {} /\ suppressed' = 0 /\ timer' = Off /\ UNCHANGED <<file, loaded, card, missed>>
      /\ Counted("reloads", MaxReloads)
  BY DEF ReloadEntry
<1>2. \A u \in Tasks : "token" \in DOMAIN task[u] =>
        /\ [task[u] EXCEPT !.token = NoToken] \in Applying
        /\ [task[u] EXCEPT !.token = NoToken].at # "publish"
  <2>1. \A r \in Applying : /\ [r EXCEPT !.token = NoToken] \in Applying
                            /\ [r EXCEPT !.token = NoToken].at # "publish"
    BY DEF Applying
  <2>2. \A r \in Local : "token" \in DOMAIN r => r \in Applying
    BY DEF Local, Idle, Showing
  <2> QED BY <1>0, <2>1, <2>2, SlotTyped
<1>3. \A u \in Tasks : task'[u] \in Local /\ (Newest(u)' => Newest(u))
  <2> SUFFICES ASSUME NEW u \in Tasks PROVE task'[u] \in Local /\ (Newest(u)' => Newest(u))
    OBVIOUS
  <2>1. CASE task'[u] = [at |-> "collect"]
    BY <2>1 DEF Local, Newest, At
  <2>2. CASE "token" \in DOMAIN task[u] /\ task'[u] = [task[u] EXCEPT !.token = NoToken]
    <3>1. task'[u] \in Applying /\ task'[u].at # "publish"
      BY <1>2, <2>2
    <3> QED BY <3>1 DEF Local, Newest, At
  <2>3. CASE task'[u] = task[u]
    BY <1>0, <2>3, SlotTyped DEF Newest, At
  <2> QED BY <1>1, <2>1, <2>2, <2>3
<1>4. StoreTypes'
  <2>1. counts' \in [commands : 0 .. MaxCommands, edits : 0 .. MaxEdits, reloads : 0 .. MaxReloads]
    BY <1>0, <1>1, CountedTyped
  <2> QED BY <1>0, <1>1, <1>3, <2>1, StoreAssumption DEF StoreTypes
<1>5. Coming'
  BY <1>1 DEF Coming, At
<1>6. OneNewest' /\ CardFollows'
  BY <1>3, <1>5 DEF StoreInv, OneNewest, CardFollows
<1> QED BY <1>4, <1>6 DEF StoreInv

LEMMA TimeStep ==
  ASSUME StoreInv, TimePasses
  PROVE  StoreInv'
<1>0. StoreTypes
  BY DEF StoreInv
<1>1. /\ timer' \in {Off} \cup 0 .. Debounce /\ suppressed' \in 0 .. SuppressWindow
      /\ timer # Off => timer' # Off
  BY <1>0, StoreAssumption DEF StoreTypes, TimePasses, Off
<1>2. StoreTypes'
  BY <1>0, <1>1 DEF StoreTypes, TimePasses
<1>3. OneNewest' /\ CardFollows'
  <2>1. Coming => Coming'
    BY <1>1 DEF Coming, TimePasses, At
  <2> QED BY <2>1 DEF StoreInv, OneNewest, CardFollows, Newest, At, TimePasses
<1> QED BY <1>2, <1>3 DEF StoreInv

LEMMA EditStep ==
  ASSUME StoreInv, NEW i \in Id, NEW c \in Config \cup {Absent}, UserEdits(i, c)
  PROVE  StoreInv'
<1>0. StoreTypes
  BY DEF StoreInv
<1>1. StoreTypes'
  <2>1. counts' \in [commands : 0 .. MaxCommands, edits : 0 .. MaxEdits, reloads : 0 .. MaxReloads]
    BY <1>0, CountedTyped DEF UserEdits
  <2>2. file' \in Store /\ loaded' \in Store
    BY <1>0 DEF StoreTypes, UserEdits, Store
  <2>3. timer' \in {Off} \cup 0 .. Debounce
    BY <1>0, StoreAssumption DEF StoreTypes, UserEdits, OnChange
  <2>4. missed' \in BOOLEAN /\ UNCHANGED <<card, task, seen, suppressed>>
    BY <1>0 DEF StoreTypes, UserEdits
  <2> QED BY <1>0, <2>1, <2>2, <2>3, <2>4 DEF StoreTypes
<1>2. OneNewest'
  BY DEF StoreInv, OneNewest, Newest, At, UserEdits
<1>3. CardFollows'
  <2> SUFFICES ASSUME ~ missed' PROVE Coming'
    BY DEF CardFollows
  <2>1. ~ (suppressed > 0)
    <3> DEFINE late == suppressed > 0
    <3>1. missed' = (missed \/ late)
      BY DEF UserEdits
    <3> HIDE DEF late
    <3>2. ~ late
      BY <3>1, Zenon
    <3> QED BY <3>2 DEF late
  <2>2. suppressed = 0
    BY <1>0, <2>1, StoreAssumption DEF StoreTypes
  <2> QED BY <2>2, Rearmed DEF UserEdits, Coming
<1> QED BY <1>1, <1>2, <1>3 DEF StoreInv

LEMMA InitStore == StoreInit => StoreInv
<1> SUFFICES ASSUME StoreInit PROVE StoreInv
  OBVIOUS
<1>1. PICK t \in Tasks : task = [u \in Tasks |-> IF u = t THEN [at |-> "collect"] ELSE Idle]
  BY DEF StoreInit
<1>2. \A u \in Tasks : task[u] \in Local /\ ~ At(u, "publish")
  BY <1>1 DEF Local, Idle, At
<1>3. At(t, "collect")
  BY <1>1 DEF At
<1>4. StoreTypes
  <2>1. Nothing \in Store
    BY DEF Nothing, Store
  <2>2. counts \in [commands : 0 .. MaxCommands, edits : 0 .. MaxEdits, reloads : 0 .. MaxReloads]
    <3>1. 0 \in 0 .. MaxCommands /\ 0 \in 0 .. MaxEdits /\ 0 \in 0 .. MaxReloads
      BY StoreAssumption
    <3> QED BY <3>1 DEF StoreInit
  <2>3. task \in [Tasks -> Local]
    BY <1>1, <1>2
  <2>4. /\ file \in Store /\ loaded \in Store /\ card \in Store /\ seen \subseteq Token
        /\ suppressed = 0 /\ timer = Off /\ missed \in BOOLEAN
    BY <2>1 DEF StoreInit
  <2>5. 0 \in 0 .. SuppressWindow
    BY StoreAssumption
  <2> QED BY <2>2, <2>3, <2>4, <2>5 DEF StoreTypes
<1>5. OneNewest /\ CardFollows
  BY <1>2, <1>3 DEF OneNewest, CardFollows, Newest, Coming
<1> QED BY <1>4, <1>5 DEF StoreInv

LEMMA NextStore == StoreInv /\ [StoreNext]_storeVars => StoreInv'
<1> SUFFICES ASSUME StoreInv, [StoreNext]_storeVars PROVE StoreInv'
  OBVIOUS
<1>1. CASE UNCHANGED storeVars
  BY <1>1 DEF storeVars, StoreInv, StoreTypes, OneNewest, CardFollows, Newest, Coming, At
<1>2. ASSUME NEW t \in Tasks,
             \/ \E i \in Id, c \in Config, k \in Token : WriteAutomation(t, i, c, k)
             \/ \E i \in Id : DeleteAutomation(t, i)
             \/ TakeSetupSnapshot(t) \/ ReadStore(t) \/ StoreFailed(t) \/ WriteStore(t)
             \/ ReloadAutomation(t) \/ CollectSnapshot(t) \/ PublishSnapshot(t)
             \/ DebounceElapsed(t) \/ ReloadEntry(t)
      PROVE  StoreInv'
  BY <1>2, WriteSteps, SnapshotComes, ReadSteps, ApplySteps, CollectStep, PublishStep, ReloadStep
<1> QED BY <1>1, <1>2, TimeStep, EditStep DEF StoreNext

LEMMA StoreHolds == StoreSpec => []StoreInv
<1> QED BY InitStore, NextStore, PTL DEF StoreSpec

-----------------------------------------------------------------------------
(* Every slot has the locals of its step, and the windows their bounds. *)
THEOREM StoreTypeCorrect == StoreSpec => []StoreTypeOK
<1> QED BY StoreHolds, StoreSays, PTL

(* "so the card converges on HA's truth" (automation_sync.py:16), however   *)
(* many commands, edits, reloads and snapshots overlap.                    *)
THEOREM CardConverges == StoreSpec => []CardIsTrue
<1> QED BY StoreHolds, StoreSays, PTL

(* A draft token is used up by the step that stored its automation and by   *)
(* no other (command_handler.py:673-674).                                  *)
THEOREM TokensAreForWrites == StoreSpec => OnlyWritesUseTokens
<1>1. StoreInv /\ [StoreNext]_storeVars =>
        [\A k \in seen' \ seen : \E t \in Tasks :
           At(t, "store") /\ task[t].token = k /\ file'[task[t].id] = task[t].config]_storeVars
  <2> SUFFICES ASSUME StoreInv, StoreNext, NEW k \in seen' \ seen
               PROVE  \E t \in Tasks : At(t, "store") /\ task[t].token = k
                                       /\ file'[task[t].id] = task[t].config
    BY DEF storeVars
  <2>1. PICK t \in Tasks : WriteStore(t)
    BY DEF StoreNext, WriteAutomation, DeleteAutomation, TakeSetupSnapshot, ReadStore, StoreFailed,
           ReloadAutomation, CollectSnapshot, PublishSnapshot, DebounceElapsed, ReloadEntry,
           TimePasses, UserEdits
  <2>2. task[t] \in Applying
    BY <2>1, SlotTyped DEF StoreInv, WriteStore
  <2>3. task[t].token = k
    BY <2>1 DEF WriteStore, Marked
  <2>4. file'[task[t].id] = task[t].config
    <3>1. task[t].id \in Id /\ task[t].list \in Store
      BY <2>2 DEF Applying
    <3>2. file' = [task[t].list EXCEPT ![task[t].id] = task[t].config]
      BY <2>1 DEF WriteStore
    <3> QED BY <3>1, <3>2 DEF Store
  <2> QED BY <2>1, <2>3, <2>4 DEF WriteStore
<1> QED BY <1>1, StoreHolds, PTL DEF StoreSpec, OnlyWritesUseTokens
=============================================================================
