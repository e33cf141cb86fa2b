------------------------------ MODULE Providers ------------------------------
(***************************************************************************)
(* What keeps a provider's token, models and entry: the state file between *)
(* engines, the same file between engines and lightbridge, the entries of  *)
(* the configuration, the models of an entry.  The components share no     *)
(* variable, so one of them moves and the others stay as they began.       *)
(***************************************************************************)
EXTENDS ProviderSync

CONSTANTS
  Nothing,                                        \* the None of the other modules
  Bridges, MaxModels,                             \* SharedRoot
  Providers, Registered, RegisterApi, Configs,    \* ProviderEntry
  Models, Listings, Options, Responses,           \* Enrichment
  Texts                                           \* what a name or a modality says

\* A writer is an engine or a runtime of lightbridge.
ASSUME SharedRootAssumption ==
  /\ Engines \cap Bridges = {} /\ Nothing \notin Engines \cup Bridges
  /\ Nothing \notin [token : Nat, models : Nat]

(* A user writes no key that reads like the placeholder of the hooks       *)
(* (applyResponsesApiOptions takes it for its own, opencode-helpers.ts:224). *)
Blocks == {"no", "chat", "responses", "wrong"}

ASSUME ProviderEntryAssumption ==
  /\ Providers \subseteq Nat /\ Registered \in Providers /\ RegisterApi \in {"chat", "responses"}
  /\ Nothing \notin {"user", "placeholder", "ours"}
  /\ \A c \in Configs : c \in [Providers -> [listed : Blocks, own : Blocks, base : BOOLEAN,
                                             key : {Nothing, "user"}, auth : {Nothing, "user"}]]

\* Models of an entry and of the catalog: a field that is not set is Nothing.
ModelRecord == [id : Models \cup {Nothing}, name : Texts \cup {Nothing},
                tool_call : {"yes", "no", Nothing}, modalities : Texts \cup {Nothing}]
CatalogRecord == [name : Texts \cup {Nothing}, tool_call : {"yes", "no", Nothing},
                  modalities : Texts \cup {Nothing}, internal : BOOLEAN]

ASSUME EnrichmentAssumption ==
  /\ Nothing \notin {"yes", "no"} /\ Nothing \notin Models /\ Nothing \notin Texts
  /\ Nothing \notin ModelRecord /\ Nothing \notin CatalogRecord
  /\ Nothing \notin [Models -> CatalogRecord \cup {Nothing}]
  /\ "discovered" \in Texts
  /\ \A listing \in Listings : listing \in [Models -> ModelRecord \cup {Nothing}]
  /\ \A response \in Responses : response.entries \in [Models -> CatalogRecord \cup {Nothing}]

VARIABLES component,
  root, legacy, state, op, holder, migration, issued, catalog,
  config, entry, managed, registered, failed, propagating,
  written, options, models, record, enriched, discovered, hidden

rootVars   == <<root, legacy, state, op, holder, migration, issued, catalog>>
entryVars  == <<config, entry, managed, registered, failed, propagating>>
enrichVars == <<written, options, models, record, enriched, discovered, hidden>>
allVars    == <<component, vars, rootVars, entryVars, enrichVars>>

-----------------------------------------------------------------------------
SR == INSTANCE SharedRoot WITH None <- Nothing, file <- root, mem <- state, grants <- issued
PE == INSTANCE ProviderEntry WITH None <- Nothing
EN == INSTANCE Enrichment WITH None <- Nothing, catalog <- record

-----------------------------------------------------------------------------
ProvidersInit ==
  /\ component \in {"state file", "shared root", "entries", "models"}
  /\ Init /\ SR!Init /\ PE!Init /\ EN!Init
  /\ component # "state file" => file = Empty
  /\ component # "shared root" => root = Nothing /\ legacy = NoToken
  /\ component # "entries" => config = CHOOSE c \in Configs : TRUE
  /\ component # "models" => /\ written = CHOOSE listing \in Listings : TRUE
                             /\ options = CHOOSE o \in Options : TRUE

ProvidersNext ==
  /\ UNCHANGED component
  /\ \/ component = "state file" /\ Next /\ UNCHANGED <<rootVars, entryVars, enrichVars>>
     \/ component = "shared root" /\ SR!Next /\ UNCHANGED <<vars, entryVars, enrichVars>>
     \/ component = "entries" /\ PE!Next /\ UNCHANGED <<vars, rootVars, enrichVars>>
     \/ component = "models" /\ EN!Next /\ UNCHANGED <<vars, rootVars, entryVars>>

ProvidersSpec == ProvidersInit /\ [][ProvidersNext]_allVars

-----------------------------------------------------------------------------
SharedStateSurvives == SR!SharedStateSurvives
PlaceholderOnlyForResponses == PE!PlaceholderOnlyForResponses
EnrichmentSettles == EN!EnrichmentSettles
=============================================================================
