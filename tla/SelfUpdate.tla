------------------------------ MODULE SelfUpdate ------------------------------
(***************************************************************************)
(* The self_update command (command_handler.py): HACS installs a pinned    *)
(* version, Home Assistant restarts into it, and an ack on the heartbeats  *)
(* tells the cloud.  A command may be redelivered, two may run at once;    *)
(* their tasks are not the entry's, so they outlive a reload and end with  *)
(* Home Assistant.  An installed version is staged: it runs from the next  *)
(* restart, a reload imports nothing anew.  HACS and the restart service   *)
(* are external: their outcomes are chosen.                                *)
(***************************************************************************)
EXTENDS ConfigEntry

CONSTANTS
  Versions,       \* X.Y.Z pins the cloud may send, or that may run
  Malformed,      \* a version that is missing or not an exact pin
  FirstVersion,   \* the version of the integration at first
  Handlers        \* bound of the model: commands that run at once

ASSUME UpdateAssumption == FirstVersion \in Versions /\ Malformed \notin Versions

VARIABLES
  running,        \* VERSION
  staged,         \* the version on disk
  commands,       \* versions the broker has a self_update for
  handler,        \* [Handlers -> how far a command has got]
  ack,            \* _last_self_update of the current coordinator
  unheard,        \* no heartbeat with that ack has arrived
  restartDue,     \* homeassistant.restart was called
  restartFailed   \* and did not lead to a restart

updateVars == <<running, staged, commands, handler, ack, unheard, restartDue, restartFailed>>
haVars == <<running, commands, restartDue, restartFailed>>

Idle == [stage |-> "idle"]
NoAck == [result |-> "none"]
Pins == Versions \cup {Malformed}
Acks == [result : {"noop", "started", "error"}, to : Pins]

(* A handler at an await, for a version; current: its coordinator is the    *)
(* one of the entry, not that of an unloaded setup.                         *)
Running(stage, version, current) ==
  [stage |-> stage, version |-> version, current |-> current]

UpdateTypeOK ==
  /\ running \in Versions /\ staged \in Versions
  /\ commands \in SUBSET Versions
  /\ handler \in [Handlers -> {Idle} \cup
       [stage : {"refresh", "install", "noop", "started", "error", "delay"},
        version : Versions, current : BOOLEAN] \cup
       [stage : {"error"}, version : {Malformed}, current : BOOLEAN]]
  /\ ack \in Acks \cup {NoAck} /\ unheard \in BOOLEAN
  /\ restartDue \in BOOLEAN /\ restartFailed \in BOOLEAN

UpdateInit ==
  /\ running = FirstVersion /\ staged = running
  /\ commands = {}
  /\ handler = [h \in Handlers |-> Idle]
  /\ ack = NoAck /\ unheard = FALSE
  /\ restartDue = FALSE /\ restartFailed = FALSE

-----------------------------------------------------------------------------
(* _ack_self_update: stored on the handler's own coordinator, then an       *)
(* immediate heartbeat is awaited.                                         *)
AckFrom(h, result, version, current) ==
  /\ handler' = [handler EXCEPT ![h] = Running(result, version, current)]
  /\ ack' = IF current THEN [result |-> result, to |-> version] ELSE ack
  /\ unheard' = (current \/ unheard)

CloudSends(version) ==
  /\ version \notin commands /\ commands' = commands \cup {version}
  /\ Meet("updates")
  /\ UNCHANGED <<running, staged, handler, ack, unheard, restartDue, restartFailed>>
  /\ UNCHANGED <<entry, apiKey, tried, uniqueId, flow, reloadDue, cloudVars>>

(* The broker delivers, and redelivers while it has no PUBACK. *)
Delivered(version, again) ==
  /\ entry = "loaded" /\ cloudUp
  /\ version \in commands
  /\ commands' = IF again THEN commands ELSE commands \ {version}

(* Mutant: a command for the running version is worked like any other. *)
CommandAlwaysWorked(h, version, again) ==
  /\ handler[h] = Idle /\ Delivered(version, again)
  /\ handler' = [handler EXCEPT ![h] = Running("refresh", version, TRUE)]
  /\ UNCHANGED <<running, staged, ack, unheard, restartDue, restartFailed, entryVars>>

(* _handle_self_update: a noop, or the best-effort refresh of the cache. *)
CommandStarts(h, version, again) ==
  /\ handler[h] = Idle /\ Delivered(version, again)
  /\ IF version = running
       THEN AckFrom(h, "noop", version, TRUE)
       ELSE /\ handler' = [handler EXCEPT ![h] = Running("refresh", version, TRUE)]
            /\ UNCHANGED <<ack, unheard>>
  /\ UNCHANGED <<running, staged, restartDue, restartFailed, entryVars>>

(* A version that is no exact pin: an error ack, and nothing else.  Sent    *)
(* and delivered, or redelivered, in one step: nothing depends on the time  *)
(* between.                                                                *)
CommandInvalid(h) ==
  /\ entry = "loaded" /\ cloudUp /\ Meet("updates")
  /\ handler[h] = Idle
  /\ AckFrom(h, "error", Malformed, TRUE)
  /\ UNCHANGED <<haVars, staged>>
  /\ UNCHANGED <<entry, apiKey, tried, uniqueId, flow, reloadDue, cloudVars>>

(* Refreshed or not, _find_iems_update_entity and the call of               *)
(* update.install; Home Assistant refuses an entity that is installing.     *)
InstallCalled(h) ==
  /\ handler[h].stage = "refresh"
  /\ ~ \E g \in Handlers : handler[g].stage = "install"
  /\ handler' = [handler EXCEPT ![h].stage = "install"]
  /\ UNCHANGED <<haVars, staged, ack, unheard, entryVars>>

(* No update entity, or an error of the service; never followed by a        *)
(* restart.  A download that failed leaves the files as they were.          *)
InstallFailed(h) ==
  /\ handler[h].stage \in {"refresh", "install"}
  /\ AckFrom(h, "error", handler[h].version, handler[h].current)
  /\ UNCHANGED <<haVars, staged, entryVars>>

Installed(h) ==
  /\ handler[h].stage = "install"
  /\ staged' = handler[h].version
  /\ AckFrom(h, "started", handler[h].version, handler[h].current)
  /\ UNCHANGED <<haVars, entryVars>>

(* What follows the immediate heartbeat, arrived or not. *)
AfterAck(h) == IF handler[h].stage = "started" THEN [handler[h] EXCEPT !.stage = "delay"]
               ELSE Idle

(* The heartbeat of a handler carries what its coordinator then stored. *)
CarriesAck(hd) == hd.current /\ ack = [result |-> hd.stage, to |-> hd.version]

(* Mutant: a failing heartbeat ends the command. *)
AckEscapes(h, delivered) ==
  /\ handler[h].stage \in {"noop", "started", "error"}
  /\ delivered => cloudUp
  /\ unheard' = (unheard /\ ~(delivered /\ CarriesAck(handler[h])))
  /\ handler' = [handler EXCEPT ![h] = IF delivered THEN AfterAck(h) ELSE Idle]
  /\ UNCHANGED <<haVars, staged, ack, entryVars>>

(* Mutant: an ack is dropped once its immediate heartbeat was tried. *)
AckOnce(h, delivered) ==
  /\ handler[h].stage \in {"noop", "started", "error"}
  /\ delivered => cloudUp
  /\ unheard' = (unheard /\ ~(delivered /\ CarriesAck(handler[h])))
  /\ handler' = [handler EXCEPT ![h] = AfterAck(h)]
  /\ ack' = NoAck
  /\ UNCHANGED <<haVars, staged, entryVars>>

(* heartbeat_once was built when the ack was stored: it carries that ack,   *)
(* or it is lost; an error of it is logged.                                *)
AckHeartbeat(h, delivered) ==
  /\ handler[h].stage \in {"noop", "started", "error"}
  /\ delivered => cloudUp
  /\ unheard' = (unheard /\ ~(delivered /\ CarriesAck(handler[h])))
  /\ handler' = [handler EXCEPT ![h] = AfterAck(h)]
  /\ UNCHANGED <<haVars, staged, ack, entryVars>>

(* After the delay: homeassistant.restart, which is not waited for. *)
RestartCalled(h) ==
  /\ handler[h].stage = "delay"
  /\ restartDue' = TRUE
  /\ handler' = [handler EXCEPT ![h] = Idle]
  /\ UNCHANGED <<running, staged, commands, ack, unheard, restartFailed, entryVars>>

(* The call itself raises: the error overwrites the started ack. *)
RestartRaises(h) ==
  /\ handler[h].stage = "delay"
  /\ restartFailed' = TRUE
  /\ AckFrom(h, "error", handler[h].version, handler[h].current)
  /\ UNCHANGED <<running, staged, commands, restartDue, entryVars>>

(* External: Home Assistant does not restart, its configuration check       *)
(* fails.  The service was called with blocking=False: nobody is told.      *)
RestartRefused ==
  /\ restartDue
  /\ restartDue' = FALSE /\ restartFailed' = TRUE
  /\ UNCHANGED <<running, staged, commands, handler, ack, unheard, entryVars>>

(* Every heartbeat of the loop re-reports the ack of its coordinator. *)
LoopHeartbeat ==
  /\ entry = "loaded" /\ cloudUp /\ ack # NoAck
  /\ unheard' = FALSE
  /\ UNCHANGED <<haVars, staged, handler, ack, entryVars>>

-----------------------------------------------------------------------------
(* The ack goes with the coordinator that had it. *)
EntryReloads ==
  /\ Reload
  /\ handler' = [h \in Handlers |->
       IF handler[h] = Idle THEN Idle ELSE [handler[h] EXCEPT !.current = FALSE]]
  /\ ack' = NoAck /\ unheard' = FALSE
  /\ UNCHANGED <<haVars, staged>>

HomeAssistantRestarts ==
  /\ Restart
  /\ running' = staged
  /\ handler' = [h \in Handlers |-> Idle]
  /\ ack' = NoAck /\ unheard' = FALSE
  /\ restartDue' = FALSE /\ restartFailed' = FALSE
  /\ UNCHANGED <<staged, commands>>

HandlerStep(h) ==
  \/ InstallCalled(h) \/ InstallFailed(h) \/ Installed(h)
  \/ (\E delivered \in BOOLEAN : AckHeartbeat(h, delivered))
  \/ RestartCalled(h) \/ RestartRaises(h)

UpdateStep ==
  \/ (\E version \in Versions : CloudSends(version))
  \/ \E h \in Handlers, version \in Versions, again \in BOOLEAN :
       CommandStarts(h, version, again)
  \/ (\E h \in Handlers : CommandInvalid(h) \/ HandlerStep(h))
  \/ RestartRefused \/ LoopHeartbeat

-----------------------------------------------------------------------------
(* self_update restarts Home Assistant only into another version: not after *)
(* a failed install, and not again for a command that is redelivered when   *)
(* the version it pins already runs.                                        *)
NoPointlessRestart == restartDue => staged # running

(* An installed version goes live unless Home Assistant did not restart     *)
(* when it was told to, which only a restart by hand then mends: neither a  *)
(* heartbeat that fails nor a reload of the entry stops the command.        *)
InstalledGoesLive == (staged # running) ~> (staged = running \/ restartFailed)

(* Whatever heartbeats were lost, no outcome that the coordinator holds     *)
(* stays unheard once the entry stays loaded and the link up.              *)
AckIsHeard == <>[](cloudUp /\ entry = "loaded") => []<>~unheard

=============================================================================
