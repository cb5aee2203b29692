--------------------------------- MODULE Site ---------------------------------
(***************************************************************************)
(* The installation: the config entry with its flows, the self update      *)
(* beside it, and what the cloud is shown of the entities of Home          *)
(* Assistant (_build_entity_index in __init__.py, the entity registry and  *)
(* the classifications of snapshot.py).  Entities register and get their   *)
(* friendly names when their integrations load, which may be long after    *)
(* the setup; the index of the setup serves the coordinator, a snapshot    *)
(* reads the registry again.                                               *)
(***************************************************************************)
EXTENDS SelfUpdate, FiniteSetsExt

CONSTANTS
  Entities,           \* entity ids
  DomainOf,           \* their domains
  IdOrder,            \* their places in the order of entity ids
  EnergyEntities,     \* those classify() puts into an energy category
  MaxEntityRegistry, MaxClassifications

RealDeviceDomains ==
  {"light", "switch", "fan", "cover", "climate", "lock", "media_player", "vacuum",
   "humidifier", "water_heater", "scene", "script"}
ConfigKnobDomains ==
  {"input_boolean", "input_number", "input_select", "button", "number", "select"}
ControllableDomains == RealDeviceDomains \cup ConfigKnobDomains

ASSUME SiteAssumption ==
  /\ IsFiniteSet(Entities)
  /\ IdOrder \in [Entities -> Nat]
  /\ \A e, f \in Entities : IdOrder[e] = IdOrder[f] => e = f
  /\ DomainOf \in [Entities -> STRING]
  /\ EnergyEntities \subseteq Entities
  /\ MaxEntityRegistry \in Nat /\ MaxClassifications \in Nat

VARIABLES
  registered,     \* the entity registry of Home Assistant
  named,          \* those that have a friendly name
  index,          \* entity_index of the setup: the ids, and which had names
  snapshot        \* the lists of the latest snapshot

deviceVars == <<registered, named, index, snapshot>>
siteVars == <<entryVars, updateVars, deviceVars>>

Index(ids, names) == [ids |-> ids, names |-> names]
Indexes == [ids : SUBSET Entities, names : SUBSET Entities]
EmptyIndex == Index({}, {})
NoSnapshot == [entityRegistry |-> {}, classifications |-> {}]

SiteTypeOK ==
  /\ EntryTypeOK /\ UpdateTypeOK
  /\ registered \in SUBSET Entities /\ named \in SUBSET registered
  /\ index \in Indexes
  /\ snapshot \in [entityRegistry : SUBSET Entities, classifications : SUBSET Entities]
  /\ Cardinality(snapshot.entityRegistry) <= MaxEntityRegistry
  /\ Cardinality(snapshot.classifications) <= MaxClassifications

-----------------------------------------------------------------------------
(* The first max of a set sorted by an order. *)
Capped(S, max, Before(_, _)) ==
  {e \in S : Cardinality({f \in S : Before(f, e)}) < max}

DomainTier(domain) ==
  CASE domain \in RealDeviceDomains -> 0
    [] domain \in ConfigKnobDomains -> 2
    [] OTHER -> 1

(* The sort key of _build_entity_registry: tier, unnamed, entity id. *)
SortsBefore(names, e, f) ==
  LET tier(x) == DomainTier(DomainOf[x])
      unnamed(x) == IF x \in names THEN 0 ELSE 1
  IN  \/ tier(e) < tier(f)
      \/ tier(e) = tier(f) /\ unnamed(e) < unnamed(f)
      \/ tier(e) = tier(f) /\ unnamed(e) = unnamed(f) /\ IdOrder[e] < IdOrder[f]

(* Mutant: whatever is emitted is sent. *)
EntityRegistryUncapped(idx) ==
  {e \in idx.ids : DomainOf[e] \in ControllableDomains \/ e \in idx.names}

EntityRegistry(idx) ==
  LET emitted == {e \in idx.ids : DomainOf[e] \in ControllableDomains \/ e \in idx.names}
  IN  Capped(emitted, MaxEntityRegistry, LAMBDA e, f : SortsBefore(idx.names, e, f))

EntityClassifications(idx) ==
  Capped(idx.ids \cap EnergyEntities, MaxClassifications,
         LAMBDA e, f : IdOrder[e] < IdOrder[f])

(* _build_entity_index *)
BuildEntityIndex == Index(registered, named)

-----------------------------------------------------------------------------
SiteInit ==
  /\ EntryInit /\ UpdateInit
  /\ registered = {} /\ named = {}
  /\ index = EmptyIndex /\ snapshot = NoSnapshot

(* An integration adds an entity; its state with the friendly name comes    *)
(* with it or later.                                                       *)
Register(e) ==
  /\ e \notin registered /\ registered' = registered \cup {e}
  /\ Meet("devices")
  /\ UNCHANGED <<named, index, snapshot, updateVars>>
  /\ UNCHANGED <<entry, apiKey, tried, uniqueId, flow, reloadDue, cloudVars>>

Name(e) ==
  /\ e \in registered \ named /\ named' = named \cup {e}
  /\ Meet("devices")
  /\ UNCHANGED <<registered, index, snapshot, updateVars>>
  /\ UNCHANGED <<entry, apiKey, tried, uniqueId, flow, reloadDue, cloudVars>>

Unregister(e) ==
  /\ e \in registered
  /\ registered' = registered \ {e} /\ named' = named \ {e}
  /\ Meet("devices")
  /\ UNCHANGED <<index, snapshot, updateVars>>
  /\ UNCHANGED <<entry, apiKey, tried, uniqueId, flow, reloadDue, cloudVars>>

(* Both lists, of the index a snapshot is given. *)
Snapshot(idx) == [entityRegistry |-> EntityRegistry(idx),
                  classifications |-> EntityClassifications(idx)]

(* Mutant: a snapshot replays the index of the setup. *)
ReplayBootIndex ==
  /\ entry = "loaded" /\ cloudUp
  /\ snapshot' = Snapshot(index)
  /\ UNCHANGED <<registered, named, index, updateVars, entryVars>>

(* _collect and build_setup_snapshot, at the first install of a setup and   *)
(* at each take_setup_snapshot: the lists are of one reading of the         *)
(* registry, taken before anything is awaited.                             *)
TakeSnapshot ==
  /\ entry = "loaded" /\ cloudUp
  /\ snapshot' = Snapshot(BuildEntityIndex)
  /\ UNCHANGED <<registered, named, index, updateVars, entryVars>>

DeviceStep ==
  \/ (\E e \in Entities : Register(e) \/ Name(e) \/ Unregister(e))
  \/ TakeSnapshot

-----------------------------------------------------------------------------
(* The last step of a setup indexes the registry for the coordinator. *)
EntryStepHere ==
  /\ EntryStep
  /\ index' = IF entry' = "loaded" /\ entry # "loaded" THEN BuildEntityIndex ELSE index
  /\ UNCHANGED <<updateVars, registered, named, snapshot>>

UpdateStepHere == UpdateStep /\ UNCHANGED deviceVars
ReloadHere == EntryReloads /\ UNCHANGED deviceVars

(* Integrations register what they have again; what the registry holds is   *)
(* kept, and with it the names that stand there; the others come with the   *)
(* states (__init__.py:141-150).                                           *)
RestartHere ==
  /\ HomeAssistantRestarts
  /\ named' \in SUBSET named
  /\ UNCHANGED <<registered, index, snapshot>>

SiteNext == EntryStepHere \/ UpdateStepHere \/ ReloadHere \/ RestartHere \/ DeviceStep

(* Home Assistant starts what it has scheduled: a setup or its retry, a     *)
(* reload that is due, a restart it was told to make or refuses.  Awaits of *)
(* a setup, a flow or a command end, and the heartbeat loop goes on.  What  *)
(* the user, the broker, HACS and the devices do is not promised.          *)
SiteSpec ==
  /\ SiteInit /\ [][SiteNext]_siteVars
  /\ WF_siteVars(SetupStarts /\ EntryStepHere) /\ WF_siteVars(SetupStep /\ EntryStepHere)
  /\ WF_siteVars(FlowStep /\ EntryStepHere)
  /\ WF_siteVars(reloadDue /\ ReloadHere)
  /\ WF_siteVars((restartDue /\ RestartHere) \/ (RestartRefused /\ UNCHANGED deviceVars))
  /\ \A h \in Handlers : WF_siteVars(HandlerStep(h) /\ UNCHANGED deviceVars)
  /\ WF_siteVars(LoopHeartbeat /\ UNCHANGED deviceVars)

(* "Scan for new devices" finds every controllable device and every energy  *)
(* entity that has registered when it is asked, however late after the      *)
(* setup, as long as they fit: knobs and read-only entities never push a    *)
(* device out, and nothing is listed that is gone.                         *)
SnapshotFindsDevices ==
  [][snapshot' # snapshot =>
       LET devices == {e \in registered : DomainOf[e] \in RealDeviceDomains}
           energy  == registered \cap EnergyEntities
       IN  /\ Cardinality(devices) <= MaxEntityRegistry =>
                devices \subseteq snapshot'.entityRegistry
           /\ Cardinality(energy) <= MaxClassifications =>
                energy \subseteq snapshot'.classifications
           /\ snapshot'.entityRegistry \cup snapshot'.classifications
                \subseteq registered]_siteVars

=============================================================================
