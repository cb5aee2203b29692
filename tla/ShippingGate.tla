---------------------------- MODULE ShippingGate ----------------------------
(***************************************************************************)
(* The publish gate of the coordinator (coordinator.py): the shipping mode *)
(* and the entity whitelist, with the two ways the cloud moves them: a     *)
(* set_shipping_mode command, and the answer of a /hacs/status pull.       *)
(***************************************************************************)
EXTENDS Integers

CONSTANTS Entity          \* entity ids of the registry index

ValidModes      == {"setup", "active", "paused"}
SuppressedModes == {"setup", "paused"}
DefaultMode     == "setup"

NoVersion == -2           \* a message without whitelist_version (None)

(***************************************************************************)
(* What a command or a status answer carries.  The whitelist is optional,  *)
(* and so is its version; the mode may be a string the code does not know. *)
(***************************************************************************)
Message == [mode : ValidModes \cup {"bogus"}, hasList : BOOLEAN,
            list : SUBSET Entity, version : Nat \cup {NoVersion}]

VARIABLES
  shippingMode,
  whitelist,              \* None ("ship everything") is Entity: the filter
                          \* sees no entity outside the index
  whitelistVersion        \* -1: the cloud never sent one

gateVars == <<shippingMode, whitelist, whitelistVersion>>

GateTypeOK ==
  /\ shippingMode \in ValidModes
  /\ whitelist \in SUBSET Entity
  /\ whitelistVersion \in Nat \cup {-1}

GateInit ==
  /\ shippingMode = DefaultMode
  /\ whitelist = Entity
  /\ whitelistVersion = -1

(* True iff the current mode lets telemetry batches leave. *)
PublishingEnabled == shippingMode \notin SuppressedModes

(* Mutant: the comparison is missing. *)
NeverStale(version) == FALSE

(* A version at or below the held one is stale; no version always applies. *)
Stale(version) == version # NoVersion /\ version <= whitelistVersion

SetWhitelist(list, version) ==
  IF Stale(version)
  THEN UNCHANGED <<whitelist, whitelistVersion>>
  ELSE /\ whitelist' = list
       /\ whitelistVersion' = IF version = NoVersion THEN whitelistVersion
                                                     ELSE version

(* Mutants: an absent list is taken for an empty one; a list is stored     *)
(* with whatever version came, none included.                              *)
TakeAbsentList(msg) == SetWhitelist(msg.list, msg.version)
TakeUnversioned(msg) == whitelist' = msg.list /\ whitelistVersion' = msg.version

TakeList(msg) ==
  IF msg.hasList THEN SetWhitelist(msg.list, msg.version)
                 ELSE UNCHANGED <<whitelist, whitelistVersion>>

(* Mutant: the mode is adopted unchecked. *)
AdoptAnyMode(msg) == shippingMode' = msg.mode /\ TakeList(msg)

(* An unknown mode raises before anything is assigned: list included. *)
SetShippingMode(msg) ==
  /\ msg.mode \in ValidModes
  /\ shippingMode' = msg.mode
  /\ TakeList(msg)

(* An unknown mode is skipped, but the answer's list is still applied. *)
ReconcileFromStatus(msg) ==
  /\ shippingMode' = IF msg.mode \in ValidModes THEN msg.mode ELSE shippingMode
  /\ TakeList(msg)
=============================================================================
