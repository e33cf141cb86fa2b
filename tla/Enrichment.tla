------------------------------ MODULE Enrichment ------------------------------
(***************************************************************************)
(* The models of a provider entry.  The user lists some, oauth2 or         *)
(* lightbridge merges the discovered ones, models-info completes them from *)
(* a catalog and hides some, in hooks that run again and again on one      *)
(* configuration, or on one that is loaded anew.  A name stands for every  *)
(* field that is copied (cost and limit too), tool_call for every          *)
(* capability, modalities for the field a gate looks at.                   *)
(*                                                                         *)
(* External: the catalog's server, the user's configuration.               *)
(***************************************************************************)

CONSTANTS
  Models,        \* ids of models
  Listings,      \* what a user writes: for each id a model or None
  Options,       \* the meta block: overwrite, and the three flags that hide
  Responses,     \* answers of the catalog's server
  None

VARIABLES
  written,        \* the user's models
  options,       \* MetaProviderOptions
  models,        \* provider.models
  catalog,       \* the models of the cached record, or None
  enriched,      \* models-info was the last to touch the entry, with this catalog
  discovered,    \* history: ids oauth2 has merged into this configuration
  hidden         \* history: ids that have been deleted from it

enrichVars == <<written, options, models, catalog, enriched, discovered, hidden>>

Init ==
  /\ written \in Listings /\ options \in Options /\ models = written
  /\ catalog = None /\ enriched = FALSE /\ discovered = {} /\ hidden = {}

Load ==
  /\ written' \in Listings /\ options' \in Options /\ models' = written'
  /\ enriched' = FALSE /\ discovered' = {} /\ hidden' = {}
  /\ UNCHANGED catalog

-----------------------------------------------------------------------------
Blank == [id |-> None, name |-> None, tool_call |-> None, modalities |-> None]

(* The id and the name of a discovered model replace those of the entry.   *)
Discovered(found) == [m \in Models |->
  IF m \notin found THEN models[m]
  ELSE [(IF models[m] = None THEN Blank ELSE models[m]) EXCEPT !.id = m, !.name = "discovered"]]

MergeDiscoveredModels(found) ==
  /\ models' = Discovered(found) /\ discovered' = discovered \cup found
  /\ enriched' = FALSE
  /\ UNCHANGED <<written, options, catalog, hidden>>

-----------------------------------------------------------------------------
(* An answer none of whose entries has an id is an error, and the record   *)
(* there is stays: "never overwrites good data with []".                   *)
Malformed(response) ==
  response.broken /\ \A m \in Models : response.entries[m] = None

FetchOpenRouterModels(response) ==
  /\ ~Malformed(response) /\ catalog' = response.entries /\ enriched' = FALSE
  /\ UNCHANGED <<written, options, models, discovered, hidden>>

-----------------------------------------------------------------------------
(* A capability the catalog denies is only asserted where it may overwrite.*)
SetCapability(present) ==
  IF present = "no" /\ "tool_call" \notin options.overwrite THEN None ELSE present

MapOpenRouterEntry(entry) ==
  [name |-> entry.name, tool_call |-> SetCapability(entry.tool_call),
   modalities |-> entry.modalities]

(* What the catalog does not say blanks nothing.                           *)
MergeIntoModel(model, derived) == [f \in DOMAIN model |->
  IF f = "id" \/ derived[f] = None \/ (model[f] # None /\ f \notin options.overwrite)
  THEN model[f] ELSE derived[f]]

(* An entry for the key, else for the id the model declares.               *)
Match(m) ==
  LET declared == models[m].id IN
  IF catalog[m] # None \/ declared = None THEN catalog[m] ELSE catalog[declared]

Hides(match) ==
  IF match = None
  THEN options.hideTextOnly \/ options.hideUnmatched
  ELSE \/ options.hideInternal /\ match.internal
       \/ options.hideTextOnly /\ match.modalities = "text"

\* A mutation of ReconcileModel: the gate looks at the model, not at the catalog.
ReconcileAsSet(m) ==
  LET match == Match(m) IN
  CASE match = None -> IF Hides(match) THEN None ELSE models[m]
    [] match # None ->
         IF \/ options.hideInternal /\ match.internal
            \/ options.hideTextOnly /\ models[m].modalities = "text"
         THEN None ELSE MergeIntoModel(models[m], MapOpenRouterEntry(match))

ReconcileModel(m) ==
  LET match == Match(m) IN
  CASE Hides(match)                    -> None
    [] ~Hides(match) /\ match = None   -> models[m]
    [] ~Hides(match) /\ match # None   -> MergeIntoModel(models[m], MapOpenRouterEntry(match))

Reconciled == [m \in Models |-> IF models[m] = None THEN None ELSE ReconcileModel(m)]

(* Without a record, models-info leaves the entry alone.                   *)
EnrichProvider ==
  /\ catalog # None /\ models' = Reconciled
  /\ hidden' = hidden \cup {m \in Models : models[m] # None /\ models'[m] = None}
  /\ enriched' = TRUE
  /\ UNCHANGED <<written, options, catalog, discovered>>

Next ==
  \/ Load \/ EnrichProvider
  \/ \E found \in (SUBSET Models) \ {{}} : MergeDiscoveredModels(found)
  \/ \E response \in Responses : FetchOpenRouterModels(response)

Spec == Init /\ [][Next]_enrichVars

-----------------------------------------------------------------------------
(* Whatever hooks have run, with whatever catalogs: "running the hook      *)
(* twice is a no-op" and "any field already set on the model entry is      *)
(* never overwritten" unless modelsInfoOverwrite lists it                  *)
(* (docs/models-info.md), a capability is only denied by the user or by a  *)
(* catalog that may overwrite it, and a model is only missing because of a *)
(* flag.  oauth2 sets names, and a model that was hidden and is discovered *)
(* again has lost what the user had written.                               *)
EnrichmentSettles ==
  /\ enriched => Reconciled = models
  /\ \A m \in Models :
       /\ written[m] # None /\ models[m] = None =>
            options.hideTextOnly \/ options.hideUnmatched \/ options.hideInternal
       /\ written[m] # None /\ models[m] # None /\ m \notin hidden =>
            \A f \in {"name", "tool_call", "modalities"} \ options.overwrite :
              \/ written[m][f] \in {None, models[m][f]}
              \/ f = "name" /\ m \in discovered
       /\ models[m] # None /\ models[m].tool_call = "no" =>
            "tool_call" \in options.overwrite \/ (written[m] # None /\ written[m].tool_call = "no")
=============================================================================
