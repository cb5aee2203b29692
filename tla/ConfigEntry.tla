----------------------------- MODULE ConfigEntry -----------------------------
(***************************************************************************)
(* The config entry of the integration: the user flow that creates it and  *)
(* the reauth flow (config_flow.py), the setup that exchanges its API key  *)
(* and connects (__init__.py, auth.py), and what an unload or a restart    *)
(* of Home Assistant leaves.  The flows, the setup and the user run         *)
(* concurrently: each exchange is an await.  Home Assistant retries a       *)
(* setup that was not ready and opens a reauth form for one whose           *)
(* authentication failed; any other exception it only logs.                *)
(*                                                                         *)
(* The unique id of an entry is the account its key resolves to; entries   *)
(* made before v0.4.3 carry a hash instead, which names no account.        *)
(***************************************************************************)
EXTENDS Integers, FiniteSets

CONSTANTS
  Keys,           \* well-formed API keys
  Accounts,
  AccountOf,      \* the account (identity_id) a key resolves to
  InstalledKey,   \* the key of an install that exists
  Legacy,         \* a unique id of the old schemes
  Concerns,       \* what may trouble one behaviour besides outages
  MaxConcerns     \* bound of the model: how many of them one behaviour meets

ASSUME EntryAssumption ==
  /\ AccountOf \in [Keys -> Accounts] /\ InstalledKey \in Keys
  /\ Legacy \notin Accounts
  /\ Keys \cap {"none", "form"} = {}
  /\ Concerns \subseteq {"keys", "updates", "devices"} /\ MaxConcerns \in Nat

VARIABLES
  entry,          \* the state of the entry, and how far a setup has got
  apiKey,         \* entry.data
  tried,          \* api_key of the latest setup
  uniqueId,       \* entry.unique_id
  flow,           \* the flow: none, a form, or the key it is exchanging
  reloadDue,      \* the reauth flow has scheduled a reload
  accepted,       \* the cloud: keys that are not revoked
  cloudUp,        \* the cloud answers, and in time
  concerns        \* those this behaviour has met

entryVars == <<entry, apiKey, tried, uniqueId, flow, reloadDue, accepted, cloudUp, concerns>>
cloudVars == <<accepted, cloudUp>>

InSetup == entry \in {"exchange", "connect"}
Resting == entry \in {"retry", "authFailed", "failed", "loaded"}

EntryTypeOK ==
  /\ entry \in {"absent", "unloaded", "exchange", "connect", "retry", "authFailed",
                "failed", "loaded"}
  /\ apiKey \in Keys /\ tried \in Keys
  /\ uniqueId \in Accounts \cup {Legacy}
  /\ flow \in {"none", "form"} \cup Keys
  /\ reloadDue \in BOOLEAN /\ cloudUp \in BOOLEAN
  /\ accepted \in SUBSET Keys
  /\ concerns \in SUBSET Concerns /\ Cardinality(concerns) <= MaxConcerns

(* A new install begins with the form of the user flow; an old one boots. *)
EntryInit ==
  /\ apiKey = InstalledKey /\ tried = apiKey
  /\ \/ entry = "absent" /\ flow = "form" /\ uniqueId = Legacy
     \/ entry = "unloaded" /\ flow = "none" /\ uniqueId \in {Legacy, AccountOf[apiKey]}
  /\ reloadDue = FALSE
  /\ accepted = Keys /\ cloudUp = TRUE
  /\ concerns = {}

Meet(concern) ==
  /\ concern \in Concerns
  /\ concerns' = concerns \cup {concern}
  /\ Cardinality(concerns') <= MaxConcerns

-----------------------------------------------------------------------------
(* get_credentials: an answer of the cloud, or of the network.  Within a   *)
(* setup the 12 s ceiling of async_setup_entry may come first.             *)
Exchange(key) ==
  IF cloudUp THEN IF key \in accepted THEN "identity" ELSE "permanent"
             ELSE "transient"

(* async_setup_entry, at boot, after an unload, or when a retry is due. *)
SetupStarts ==
  /\ entry \in {"unloaded", "retry"}
  /\ entry' = "exchange" /\ tried' = apiKey
  /\ UNCHANGED <<apiKey, uniqueId, flow, reloadDue, cloudVars, concerns>>

(* The exchange succeeded; a legacy unique id is replaced at once. *)
SetupExchanged ==
  /\ entry = "exchange" /\ Exchange(tried) = "identity"
  /\ entry' = "connect"
  /\ uniqueId' = IF uniqueId = Legacy THEN AccountOf[tried] ELSE uniqueId
  /\ UNCHANGED <<apiKey, tried, flow, reloadDue, cloudVars, concerns>>

(* AuthExchangeError, of which a rejected key and a transient failure are   *)
(* both subclasses, becomes ConfigEntryAuthFailed: Home Assistant opens a   *)
(* reauth form, unless one is open, and does not retry.                     *)
SetupAuthFailed ==
  /\ entry = "exchange" /\ Exchange(tried) # "identity"
  /\ entry' = "authFailed"
  /\ flow' = IF flow = "none" THEN "form" ELSE flow
  /\ UNCHANGED <<apiKey, tried, uniqueId, reloadDue, cloudVars, concerns>>

(* A ceiling or an OSError, of the exchange or of the connect, becomes      *)
(* ConfigEntryNotReady; so Home Assistant will retry.                       *)
SetupNotReady ==
  /\ InSetup /\ ~cloudUp
  /\ entry' = "retry"
  /\ UNCHANGED <<apiKey, tried, uniqueId, flow, reloadDue, cloudVars, concerns>>

(* Any other exception of the connect, as awscrt raises. *)
SetupRaised ==
  /\ entry = "connect" /\ ~cloudUp
  /\ entry' = "failed"
  /\ UNCHANGED <<apiKey, tried, uniqueId, flow, reloadDue, cloudVars, concerns>>

(* Connected: the rest of the setup awaits nothing outside. *)
SetupDone ==
  /\ entry = "connect" /\ cloudUp
  /\ entry' = "loaded"
  /\ UNCHANGED <<apiKey, tried, uniqueId, flow, reloadDue, cloudVars, concerns>>

(* Mutant: a reload is dropped when a setup is under way. *)
ReloadUnlessInSetup ==
  /\ Resting \/ InSetup
  /\ entry' = IF InSetup THEN entry ELSE "unloaded"
  /\ reloadDue' = FALSE
  /\ UNCHANGED <<apiKey, tried, uniqueId, flow, cloudVars, concerns>>

(* The user, or a reauth flow that is over, reloads; Home Assistant waits   *)
(* for a setup under way.  async_unload_entry leaves nothing of a loaded    *)
(* entry but its data.                                                     *)
Reload ==
  /\ Resting
  /\ entry' = "unloaded" /\ reloadDue' = FALSE
  /\ UNCHANGED <<apiKey, tried, uniqueId, flow, cloudVars, concerns>>

(* Home Assistant restarts; flows are not kept. *)
Restart ==
  /\ entry # "absent"
  /\ entry' = "unloaded" /\ flow' = "none" /\ reloadDue' = FALSE
  /\ UNCHANGED <<apiKey, tried, uniqueId, cloudVars, concerns>>

-----------------------------------------------------------------------------
(* A key is pasted; the flow validates its form and exchanges it. *)
Submit(key) ==
  /\ flow = "form" /\ flow' = key
  /\ Meet("keys")
  /\ UNCHANGED <<entry, apiKey, tried, uniqueId, reloadDue, cloudVars>>

(* _resolve_or_form_error: the form again, with the error on it. *)
FlowRefused ==
  /\ flow \in Keys /\ Exchange(flow) # "identity"
  /\ flow' = "form"
  /\ UNCHANGED <<entry, apiKey, tried, uniqueId, reloadDue, cloudVars, concerns>>

(* async_step_user: the entry is created. *)
UserConfirmed ==
  /\ entry = "absent"
  /\ flow \in Keys /\ Exchange(flow) = "identity"
  /\ apiKey' = flow /\ uniqueId' = AccountOf[flow]
  /\ entry' = "unloaded" /\ flow' = "none"
  /\ UNCHANGED <<tried, reloadDue, cloudVars, concerns>>

(* Mutant: the guard of the account is not asked of any entry. *)
AnyKeyWillDo(key) == TRUE

(* decide_reauth_action, asked after the exchange: a legacy id accepts any  *)
(* valid key, another only the keys of its account.                        *)
SameAccount(key) == uniqueId = Legacy \/ uniqueId = AccountOf[key]

(* async_step_reauth_confirm: the new key is stored, a reload scheduled.    *)
(* The flow names the identity for itself; the entry keeps its unique id.   *)
ReauthConfirmed ==
  /\ entry # "absent"
  /\ flow \in Keys /\ Exchange(flow) = "identity" /\ SameAccount(flow)
  /\ apiKey' = flow
  /\ flow' = "none" /\ reloadDue' = TRUE
  /\ UNCHANGED <<entry, tried, uniqueId, cloudVars, concerns>>

(* reauth_account_mismatch *)
ReauthAborted ==
  /\ entry # "absent"
  /\ flow \in Keys /\ Exchange(flow) = "identity" /\ ~SameAccount(flow)
  /\ flow' = "none"
  /\ UNCHANGED <<entry, apiKey, tried, uniqueId, reloadDue, cloudVars, concerns>>

-----------------------------------------------------------------------------
Revoke(key) ==
  /\ key \in accepted /\ accepted' = accepted \ {key}
  /\ Meet("keys")
  /\ UNCHANGED <<entry, apiKey, tried, uniqueId, flow, reloadDue, cloudUp>>

CloudChanges ==
  /\ cloudUp' = ~cloudUp
  /\ UNCHANGED <<entry, apiKey, tried, uniqueId, flow, reloadDue, accepted, concerns>>

SetupStep == SetupExchanged \/ SetupAuthFailed \/ SetupNotReady \/ SetupRaised \/ SetupDone
FlowStep == FlowRefused \/ UserConfirmed \/ ReauthConfirmed \/ ReauthAborted
EntryStep ==
  \/ SetupStarts \/ SetupStep
  \/ (\E key \in Keys : Submit(key)) \/ FlowStep
  \/ (\E key \in Keys : Revoke(key)) \/ CloudChanges
EntryNext == EntryStep \/ Reload \/ Restart

-----------------------------------------------------------------------------
(* Once the stored key is one of the account the entry is registered for,   *)
(* no step of a setup or a flow that was under way moves the key or the     *)
(* entry to another account: reauth is for a key of the same account, and   *)
(* the setup heals only an id that names none.  Of an entry whose id names  *)
(* none yet it says nothing: there a setup with the old key may heal the id *)
(* after a flow has stored a key of another account.                       *)
NoRepoint ==
  [][entry # "absent" /\ uniqueId \in Accounts /\ AccountOf[apiKey] = uniqueId
     => uniqueId' = uniqueId /\ AccountOf[apiKey'] = uniqueId]_entryVars

(* A key that a flow stored comes into use: whatever setup, form or retry   *)
(* was under way when it was stored, a setup with it follows.               *)
StoredKeyIsUsed == (apiKey # tried) ~> (apiKey = tried)
=============================================================================
