--------------------------- MODULE ProvidersProofs ---------------------------
(***************************************************************************)
(* Theorems about the components of Providers: what the config hooks leave *)
(* in an entry, what the catalog leaves of a model, and what the plugins   *)
(* that share a state file leave of it to one another.  The state file of  *)
(* the engines has proofs of its own (ProviderSyncProofs).                 *)
(***************************************************************************)
EXTENDS Providers, TLAPS

LEMMA StepOfEach ==
  ASSUME [ProvidersNext]_allVars
  PROVE [SR!Next]_rootVars /\ [PE!Next]_entryVars /\ [EN!Next]_enrichVars
<1>1. CASE UNCHANGED allVars
  BY <1>1 DEF allVars
<1>2. CASE ProvidersNext
  BY <1>2 DEF ProvidersNext
<1> QED
  BY <1>1, <1>2

-----------------------------------------------------------------------------
(* The entries of the configuration (ProviderEntry).  An entry that has    *)
(* the placeholder is one that the next pass of oauth2 would collect       *)
(* again, or the one lightbridge has registered: until the configuration   *)
(* is loaded anew, a pass takes away nothing that made it collect it.      *)

EntryRecord == [npm : {"user", "openai", "compatible"}, key : {Nothing, "user", "placeholder"},
                base : BOOLEAN, fetch : {"user", "repaired"}, auth : {Nothing, "user", "ours"}]

ByUs(p) == registered /\ p = Registered

EntryTypes ==
  /\ config \in Configs /\ entry \in [Providers -> EntryRecord]
  /\ registered \in BOOLEAN /\ failed \in BOOLEAN

EntriesStand ==
  \A p \in Providers :
    /\ entry[p].npm = "openai" => entry[p].key # Nothing
    /\ config[p].key # Nothing => entry[p].key = config[p].key
    /\ config[p].auth # Nothing => entry[p].auth = config[p].auth

PlaceholdersAreCollected ==
  \A p \in Providers : entry[p].key = "placeholder" =>
    /\ entry[p].npm = "openai" /\ entry[p].base
    /\ p \in PE!Collected(config, entry) \/ ByUs(p)
    /\ failed \/ p \in managed \/ ByUs(p)

EntriesOK == EntryTypes /\ EntriesStand /\ PlaceholdersAreCollected

\* What one pass, or two, may make of an entry.
Applied(e, f) ==
  /\ f \in EntryRecord /\ f.base /\ f.auth = e.auth
  /\ f.npm = "openai" => f.key # Nothing
  /\ f.key = "user" <=> e.key = "user"
  /\ f.key = "placeholder" => f.npm = "openai"

LEMMA PassApplies ==
  ASSUME NEW e \in EntryRecord, NEW api \in {"chat", "responses"}
  PROVE Applied(e, PE!ApplyResponsesApi(e, api))
<1> USE ProviderEntryAssumption DEF ProviderEntryAssumption
<1> DEFINE npm == IF api = "responses" THEN "openai" ELSE "compatible"
           key == IF api = "responses" /\ e.key = Nothing THEN "placeholder"
                  ELSE IF api # "responses" /\ e.key = "placeholder" THEN Nothing ELSE e.key
           fetch == IF api = "responses" THEN "repaired" ELSE e.fetch
           f == [e EXCEPT !.npm = npm, !.base = TRUE, !.key = key, !.fetch = fetch]
<1>1. PE!ApplyResponsesApi(e, api) = f
  BY DEF PE!ApplyResponsesApi, PE!ResolveProviderNpm
<1>2. /\ npm \in {"openai", "compatible"} /\ key \in {Nothing, "user", "placeholder"}
      /\ fetch \in {"user", "repaired"} /\ (npm = "openai" => key # Nothing)
      /\ (key = "user" <=> e.key = "user") /\ (key = "placeholder" => npm = "openai")
  BY DEF EntryRecord
<1> HIDE DEF npm, key, fetch
<1>3. /\ f \in EntryRecord /\ f.base = TRUE /\ f.auth = e.auth /\ f.npm = npm /\ f.key = key
  BY <1>2 DEF EntryRecord
<1> QED
  BY <1>1, <1>2, <1>3 DEF Applied

\* Both passes of collectManagedProviders.
LEMMA CollectApplies ==
  ASSUME EntryTypes, NEW after, after = PE!Extended(config, PE!Listed(config, entry))
  PROVE /\ after \in [Providers -> EntryRecord]
        /\ \A p \in Providers :
             \/ after[p] = entry[p]
             \/ p \in PE!Collected(config, entry) /\ Applied(entry[p], after[p])
<1> DEFINE listed == PE!Listed(config, entry)
<1>1. listed \in [Providers -> EntryRecord]
      /\ \A p \in Providers : listed[p] = entry[p] \/ (p \in PE!ParsePluginConfigServers(config)
                                                      /\ Applied(entry[p], listed[p]))
  <2>1. ASSUME NEW p \in PE!ParsePluginConfigServers(config)
        PROVE p \in Providers /\ Applied(entry[p], PE!ApplyResponsesApi(entry[p], config[p].listed))
    <3>1. p \in Providers /\ config[p].listed \in {"chat", "responses"}
      BY DEF PE!ParsePluginConfigServers, PE!Parsed
    <3> QED
      BY <3>1, PassApplies DEF EntryTypes
  <2> QED
    BY <2>1 DEF PE!Listed, EntryTypes, Applied
<1>2. after \in [Providers -> EntryRecord]
      /\ \A p \in Providers : after[p] = listed[p] \/ (p \in PE!ParseOAuthExtension(config, listed)
                                                      /\ Applied(listed[p], after[p]))
  <2>1. ASSUME NEW p \in PE!ParseOAuthExtension(config, listed)
        PROVE p \in Providers /\ Applied(listed[p], PE!ApplyResponsesApi(listed[p], config[p].own))
    <3>1. p \in Providers /\ config[p].own \in {"chat", "responses"}
      BY DEF PE!ParseOAuthExtension, PE!Reached, PE!Parsed
    <3> HIDE DEF listed
    <3> QED
      BY <1>1, <3>1, PassApplies
  <2> HIDE DEF listed
  <2>2. after = PE!Extended(config, listed)
    BY DEF listed
  <2> QED
    BY <1>1, <2>1, <2>2 DEF PE!Extended, Applied
<1>3. PE!Collected(config, entry) = PE!ParsePluginConfigServers(config) \cup PE!ParseOAuthExtension(config, listed)
  BY DEF PE!Collected
<1> HIDE DEF listed
<1> QED
  BY <1>1, <1>2, <1>3 DEF Applied

\* What has a base url keeps it, so what was collected is collected again.
LEMMA CollectedAgain ==
  ASSUME EntryTypes, NEW after \in [Providers -> EntryRecord],
         \A p \in Providers : entry[p].base => after[p].base
  PROVE PE!Collected(config, entry) \subseteq PE!Collected(config, after)
<1> DEFINE pass(e) == PE!Listed(config, e)
<1>1. ASSUME NEW p \in Providers, pass(entry)[p].base PROVE pass(after)[p].base
  <2>1. CASE p \in PE!ParsePluginConfigServers(config)
    <3>1. config[p].listed \in {"chat", "responses"}
      BY <2>1 DEF PE!ParsePluginConfigServers, PE!Parsed
    <3>2. Applied(after[p], PE!ApplyResponsesApi(after[p], config[p].listed))
      BY <3>1, PassApplies
    <3> QED
      BY <2>1, <3>2 DEF PE!Listed, Applied
  <2>2. CASE p \notin PE!ParsePluginConfigServers(config)
    BY <1>1, <2>2 DEF PE!Listed
  <2> QED
    BY <2>1, <2>2
<1> HIDE DEF pass
<1>2. PE!ParseOAuthExtension(config, pass(entry)) \subseteq PE!ParseOAuthExtension(config, pass(after))
  BY <1>1 DEF PE!ParseOAuthExtension, PE!Reached
<1> QED
  BY <1>2 DEF PE!Collected, pass

LEMMA EntriesRewritten ==
  ASSUME EntriesOK, UNCHANGED config, NEW after, after = PE!Extended(config, PE!Listed(config, entry)),
         entry' = after, UNCHANGED registered, failed' \in BOOLEAN,
         failed' \/ PE!Collected(config, entry) = managed'
  PROVE EntriesOK'
<1> USE ProviderEntryAssumption DEF ProviderEntryAssumption
<1>1. /\ after \in [Providers -> EntryRecord] /\ entry \in [Providers -> EntryRecord]
      /\ \A p \in Providers :
             \/ after[p] = entry[p]
             \/ p \in PE!Collected(config, entry) /\ Applied(entry[p], after[p])
  BY CollectApplies DEF EntriesOK, EntryTypes
<1>2. PE!Collected(config, entry) \subseteq PE!Collected(config, after)
  BY <1>1, CollectedAgain DEF EntriesOK, Applied
<1>3. EntryTypes'
  BY <1>1 DEF EntriesOK, EntryTypes
<1>4. EntriesStand'
  BY <1>1 DEF EntriesOK, EntryTypes, EntriesStand, Applied
<1>5. PlaceholdersAreCollected'
  <2> SUFFICES ASSUME NEW p \in Providers, entry'[p].key = "placeholder"
               PROVE /\ entry'[p].npm = "openai" /\ entry'[p].base
                     /\ p \in PE!Collected(config, entry)' \/ ByUs(p)'
                     /\ failed' \/ p \in managed' \/ ByUs(p)'
    BY DEF PlaceholdersAreCollected
  <2>1. PE!Collected(config, entry)' = PE!Collected(config, after)
    BY DEF PE!Collected, PE!ParsePluginConfigServers, PE!ParseOAuthExtension, PE!Reached, PE!Listed
  <2>2. ByUs(p)' = ByUs(p)
    BY DEF ByUs
  <2> QED
    BY <1>1, <1>2, <2>1, <2>2 DEF EntriesOK, PlaceholdersAreCollected, Applied
<1> QED
  BY <1>3, <1>4, <1>5 DEF EntriesOK

LEMMA FreshEntry ==
  ASSUME NEW c \in Configs
  PROVE /\ PE!Fresh(c) \in [Providers -> EntryRecord]
        /\ \A p \in Providers :
             /\ PE!Fresh(c)[p].npm = "user" /\ PE!Fresh(c)[p].key # "placeholder"
             /\ PE!Fresh(c)[p].key = c[p].key /\ PE!Fresh(c)[p].auth = c[p].auth
<1> USE ProviderEntryAssumption DEF ProviderEntryAssumption
<1>1. \A p \in Providers : c[p] \in [listed : Blocks, own : Blocks, base : BOOLEAN,
                                     key : {Nothing, "user"}, auth : {Nothing, "user"}]
  OBVIOUS
<1> QED
  BY <1>1 DEF PE!Fresh, EntryRecord

\* A configuration that is loaded anew has no placeholder.
LEMMA FreshEntries ==
  ASSUME config' \in Configs, entry' = PE!Fresh(config'), registered' \in BOOLEAN, failed' \in BOOLEAN
  PROVE EntriesOK'
<1>1. /\ entry' \in [Providers -> EntryRecord]
      /\ \A p \in Providers : /\ entry'[p].npm = "user" /\ entry'[p].key # "placeholder"
                               /\ entry'[p].key = config'[p].key /\ entry'[p].auth = config'[p].auth
  BY FreshEntry
<1> QED
  BY <1>1 DEF EntriesOK, EntryTypes, EntriesStand, PlaceholdersAreCollected

LEMMA EntriesStep == EntriesOK /\ [PE!Next]_entryVars => EntriesOK'
<1> SUFFICES ASSUME EntriesOK, [PE!Next]_entryVars PROVE EntriesOK'
  OBVIOUS
<1> USE ProviderEntryAssumption DEF ProviderEntryAssumption
<1>0. ASSUME UNCHANGED <<config, entry>>, registered' \in BOOLEAN, failed' \in BOOLEAN,
             registered => registered', failed' = failed \/ failed', managed' = managed
      PROVE EntriesOK'
  <2>1. PE!Collected(config, entry)' = PE!Collected(config, entry)
    BY <1>0 DEF PE!Collected, PE!ParsePluginConfigServers, PE!ParseOAuthExtension, PE!Reached, PE!Listed
  <2> QED
    BY <1>0, <2>1 DEF EntriesOK, EntryTypes, EntriesStand, PlaceholdersAreCollected, ByUs
<1>1. CASE UNCHANGED entryVars
  BY <1>0, <1>1 DEF entryVars, EntriesOK, EntryTypes
<1>2. CASE PE!Collect
  <2>1. /\ UNCHANGED <<config, registered>> /\ failed' = FALSE /\ managed' = PE!Collected(config, entry)
        /\ entry' = PE!Extended(config, PE!Listed(config, entry))
    BY <1>2 DEF PE!Collect
  <2> QED
    BY <2>1, EntriesRewritten
<1>3. CASE PE!CollectThrows
  <2>1. /\ UNCHANGED <<config, registered, managed>> /\ failed' = TRUE
        /\ entry' = entry \/ entry' = PE!Extended(config, PE!Listed(config, entry))
    BY <1>3 DEF PE!CollectThrows
  <2>2. CASE entry' = entry
    BY <1>0, <2>1, <2>2 DEF EntriesOK, EntryTypes
  <2>3. CASE entry' = PE!Extended(config, PE!Listed(config, entry))
    BY <2>1, <2>3, EntriesRewritten
  <2> QED
    BY <2>1, <2>2, <2>3
<1>4. CASE PE!ValidateConfigThrows
  <2>1. /\ UNCHANGED <<config, registered, managed>> /\ failed' = TRUE
        /\ entry' = PE!Extended(config, PE!Listed(config, entry))
    BY <1>4 DEF PE!ValidateConfigThrows
  <2> QED
    BY <2>1, EntriesRewritten
<1>5. CASE PE!RegisterFails
  BY <1>0, <1>5 DEF PE!RegisterFails, EntriesOK, EntryTypes
<1>6. ASSUME NEW after \in [Providers -> EntryRecord], entry' = after, UNCHANGED <<config, managed, failed>>,
             registered' \in BOOLEAN, registered => registered',
             \A p \in Providers :
               /\ entry[p].base => after[p].base
               /\ after[p].npm = "openai" => after[p].key # Nothing
               /\ entry[p].key = "user" => after[p].key = "user"
               /\ entry[p].auth = "user" => after[p].auth = "user"
               /\ after[p].key = "placeholder" =>
                    /\ after[p].npm = "openai" /\ after[p].base
                    /\ entry[p].key = "placeholder" \/ (registered' /\ p = Registered)
      PROVE EntriesOK'
  <2>1. PE!Collected(config, entry) \subseteq PE!Collected(config, after)
    BY <1>6, CollectedAgain DEF EntriesOK
  <2>2. PE!Collected(config, entry)' = PE!Collected(config, after)
    BY <1>6 DEF PE!Collected, PE!ParsePluginConfigServers, PE!ParseOAuthExtension, PE!Reached, PE!Listed
  <2>3. EntryTypes' /\ EntriesStand'
    BY <1>6 DEF EntriesOK, EntryTypes, EntriesStand
  <2>4. PlaceholdersAreCollected'
    BY <1>6, <2>1, <2>2 DEF EntriesOK, EntryTypes, PlaceholdersAreCollected, ByUs
  <2> QED
    BY <2>3, <2>4 DEF EntriesOK
<1>7. CASE PE!ApplyRegisterModule
  <2> DEFINE pass == PE!ApplyResponsesApi(entry[Registered], RegisterApi)
             e == [pass EXCEPT !.fetch = entry[Registered].fetch]
  <2>1. /\ UNCHANGED <<config, managed, failed>> /\ registered' = TRUE
        /\ entry' = [entry EXCEPT ![Registered] = e]
    BY <1>7 DEF PE!ApplyRegisterModule
  <2>2. entry[Registered] \in EntryRecord /\ Applied(entry[Registered], pass)
    BY PassApplies DEF EntriesOK, EntryTypes
  <2> HIDE DEF pass
  <2>3. /\ e \in EntryRecord /\ e.base = pass.base /\ e.auth = pass.auth /\ e.npm = pass.npm
        /\ e.key = pass.key
    BY <2>2 DEF Applied, EntryRecord
  <2>4. Applied(entry[Registered], e)
    BY <2>2, <2>3 DEF Applied
  <2> HIDE DEF e
  <2>5. /\ entry' \in [Providers -> EntryRecord]
        /\ \A p \in Providers : entry'[p] = entry[p] \/ (p = Registered /\ Applied(entry[p], entry'[p]))
    BY <2>1, <2>3, <2>4 DEF EntriesOK, EntryTypes
  <2>6. \A p \in Providers :
          /\ entry[p].base => entry'[p].base
          /\ entry'[p].npm = "openai" => entry'[p].key # Nothing
          /\ entry[p].key = "user" => entry'[p].key = "user"
          /\ entry[p].auth = "user" => entry'[p].auth = "user"
          /\ entry'[p].key = "placeholder" =>
               /\ entry'[p].npm = "openai" /\ entry'[p].base
               /\ entry[p].key = "placeholder" \/ p = Registered
    BY <2>5 DEF Applied, EntriesOK, EntriesStand, PlaceholdersAreCollected
  <2> QED
    BY <1>6, <2>1, <2>5, <2>6
<1>8. ASSUME NEW p \in Providers, PE!PropagateCachedBearer(p) PROVE EntriesOK'
  <2>1. CASE UNCHANGED entry
    BY <1>0, <1>8, <2>1 DEF PE!PropagateCachedBearer, EntriesOK, EntryTypes
  <2>2. CASE entry[p].auth = Nothing /\ entry' = [entry EXCEPT ![p].auth = "ours"]
    <3> DEFINE e == [entry[p] EXCEPT !.auth = "ours"]
    <3>1. UNCHANGED <<config, managed, registered, failed>> /\ entry' = [entry EXCEPT ![p] = e]
      BY <1>8, <2>2 DEF PE!PropagateCachedBearer
    <3>2. entry[p] \in EntryRecord
      BY DEF EntriesOK, EntryTypes
    <3>3. e \in EntryRecord /\ (entry[p].base => e.base) /\ e.npm = entry[p].npm /\ e.key = entry[p].key
      BY <3>2 DEF EntryRecord
    <3> HIDE DEF e
    <3>4. /\ entry' \in [Providers -> EntryRecord] /\ entry'[p] = e
          /\ \A q \in Providers \ {p} : entry'[q] = entry[q]
      BY <3>1, <3>3 DEF EntriesOK, EntryTypes
    <3>5. \A q \in Providers :
            /\ (entry[q].base => entry'[q].base) /\ entry'[q].npm = entry[q].npm
            /\ entry'[q].key = entry[q].key /\ (entry[q].auth = "user" => entry'[q].auth = "user")
      BY <2>2, <3>3, <3>4
    <3>6. \A q \in Providers :
            /\ entry[q].base => entry'[q].base
            /\ entry'[q].npm = "openai" => entry'[q].key # Nothing
            /\ entry[q].key = "user" => entry'[q].key = "user"
            /\ entry[q].auth = "user" => entry'[q].auth = "user"
            /\ entry'[q].key = "placeholder" =>
                 /\ entry'[q].npm = "openai" /\ entry'[q].base
                 /\ entry[q].key = "placeholder"
      <4> SUFFICES ASSUME NEW q \in Providers
                   PROVE /\ entry[q].base => entry'[q].base
                         /\ entry'[q].npm = "openai" => entry'[q].key # Nothing
                         /\ entry[q].key = "user" => entry'[q].key = "user"
                         /\ entry[q].auth = "user" => entry'[q].auth = "user"
                         /\ entry'[q].key = "placeholder" =>
                              /\ entry'[q].npm = "openai" /\ entry'[q].base
                              /\ entry[q].key = "placeholder"
        OBVIOUS
      <4>1. /\ entry[q].npm = "openai" => entry[q].key # Nothing
            /\ entry[q].key = "placeholder" => entry[q].npm = "openai" /\ entry[q].base
        BY DEF EntriesOK, EntriesStand, PlaceholdersAreCollected
      <4> QED
        BY <3>5, <4>1
    <3>7. registered' \in BOOLEAN
      BY <3>1 DEF EntriesOK, EntryTypes
    <3> QED
      BY <1>6, <3>1, <3>4, <3>6, <3>7
  <2> QED
    BY <1>8, <2>1, <2>2 DEF PE!PropagateCachedBearer
<1>9. CASE PE!Load
  <2>1. /\ config' \in Configs /\ entry' = PE!Fresh(config')
        /\ UNCHANGED <<managed, registered, failed>>
    BY <1>9 DEF PE!Load
  <2> QED
    BY <2>1, FreshEntries DEF EntriesOK, EntryTypes
<1> QED
  BY <1>1, <1>2, <1>3, <1>4, <1>5, <1>7, <1>8, <1>9 DEF PE!Next

(* Whatever hooks have rewritten an entry, the native provider can be      *)
(* constructed, the key and the header of the user are still there, and    *)
(* the placeholder sits only where the Responses API has won.              *)
THEOREM EntriesAreHonest == ProvidersSpec => []PlaceholderOnlyForResponses
<1>1. ProvidersInit => EntriesOK
  <2> SUFFICES ASSUME PE!Init PROVE EntriesOK
    BY DEF ProvidersInit
  <2>1. config \in Configs /\ entry = PE!Fresh(config) /\ registered = FALSE /\ failed = FALSE
    BY DEF PE!Init
  <2>2. /\ entry \in [Providers -> EntryRecord]
        /\ \A p \in Providers : /\ entry[p].npm = "user" /\ entry[p].key # "placeholder"
                                 /\ entry[p].key = config[p].key /\ entry[p].auth = config[p].auth
    BY <2>1, FreshEntry
  <2> QED
    BY <2>1, <2>2 DEF EntriesOK, EntryTypes, EntriesStand, PlaceholdersAreCollected
<1>2. EntriesOK /\ [ProvidersNext]_allVars => EntriesOK'
  BY StepOfEach, EntriesStep
<1>3. EntriesOK => PlaceholderOnlyForResponses
  BY DEF EntriesOK, EntriesStand, PlaceholdersAreCollected, ByUs, PlaceholderOnlyForResponses,
         PE!PlaceholderOnlyForResponses
<1> QED
  BY <1>1, <1>2, <1>3, PTL DEF ProvidersSpec

-----------------------------------------------------------------------------
(* The models of an entry (Enrichment).                                    *)

EnrichTypes ==
  /\ written \in [Models -> ModelRecord \cup {Nothing}]
  /\ models \in [Models -> ModelRecord \cup {Nothing}]
  /\ record \in [Models -> CatalogRecord \cup {Nothing}] \cup {Nothing}

Hiding == options.hideTextOnly \/ options.hideUnmatched \/ options.hideInternal

\* A model of the user is missing because a flag has hidden it.
HiddenByFlags ==
  \A m \in Models : written[m] # Nothing /\ models[m] = Nothing => Hiding /\ m \in hidden

KeptAsWritten ==
  \A m \in Models : written[m] # Nothing /\ models[m] # Nothing /\ m \notin hidden =>
    \A f \in {"name", "tool_call", "modalities"} \ options.overwrite :
      \/ written[m][f] \in {Nothing, models[m][f]}
      \/ f = "name" /\ m \in discovered

DeniedByRight ==
  \A m \in Models : models[m] # Nothing /\ models[m].tool_call = "no" =>
    "tool_call" \in options.overwrite \/ (written[m] # Nothing /\ written[m].tool_call = "no")

Settled == enriched => record # Nothing /\ EN!Reconciled = models

ModelsOK == EnrichTypes /\ Settled /\ HiddenByFlags /\ KeptAsWritten /\ DeniedByRight

Fields == {"id", "name", "tool_call", "modalities"}

\* What the catalog makes of a model: a model whose set fields are kept unless
\* they may be overwritten, and of which the same entry makes nothing else.
LEMMA Merged ==
  ASSUME NEW model \in ModelRecord, NEW match \in CatalogRecord, NEW after,
         after = EN!MergeIntoModel(model, EN!MapOpenRouterEntry(match))
  PROVE /\ after \in ModelRecord /\ after.id = model.id
        /\ \A f \in Fields \ options.overwrite : model[f] # Nothing => after[f] = model[f]
        /\ after.tool_call = "no" => model.tool_call = "no" \/ "tool_call" \in options.overwrite
        /\ EN!MergeIntoModel(after, EN!MapOpenRouterEntry(match)) = after
<1> USE EnrichmentAssumption DEF EnrichmentAssumption
<1> DEFINE derived == EN!MapOpenRouterEntry(match)
           merge(m) == [f \in Fields |->
             IF f = "id" \/ derived[f] = Nothing \/ (m[f] # Nothing /\ f \notin options.overwrite)
             THEN m[f] ELSE derived[f]]
<1>1. /\ derived.name \in Texts \cup {Nothing} /\ derived.modalities \in Texts \cup {Nothing}
      /\ derived.tool_call \in {"yes", "no", Nothing}
      /\ derived.tool_call = "no" => "tool_call" \in options.overwrite
  BY DEF EN!MapOpenRouterEntry, EN!SetCapability, CatalogRecord
<1> HIDE DEF derived
<1>2. \A m \in ModelRecord : EN!MergeIntoModel(m, derived) = merge(m)
  <2> SUFFICES ASSUME NEW m \in ModelRecord PROVE EN!MergeIntoModel(m, derived) = merge(m)
    OBVIOUS
  <2>1. DOMAIN m = Fields
    BY DEF ModelRecord, Fields
  <2> QED
    BY <2>1 DEF EN!MergeIntoModel
<1>3. \A m \in ModelRecord :
        /\ merge(m).id = m.id /\ merge(m).name \in Texts \cup {Nothing}
        /\ merge(m).tool_call \in {"yes", "no", Nothing} /\ merge(m).modalities \in Texts \cup {Nothing}
        /\ m.id \in Models \cup {Nothing}
        /\ merge(m) = [id |-> merge(m).id, name |-> merge(m).name, tool_call |-> merge(m).tool_call,
                       modalities |-> merge(m).modalities]
  BY <1>1 DEF ModelRecord, Fields
<1>4. merge(model) \in ModelRecord
  BY <1>3 DEF ModelRecord
<1>5. after = merge(model)
  BY <1>2 DEF derived
<1>6. merge(merge(model)) = merge(model)
  <2>1. \A f \in Fields : merge(merge(model))[f] = merge(model)[f]
    OBVIOUS
  <2> QED
    BY <2>1
<1>7. \A f \in Fields \ options.overwrite : model[f] # Nothing => merge(model)[f] = model[f]
  OBVIOUS
<1>8. merge(model).tool_call = "no" => model.tool_call = "no" \/ "tool_call" \in options.overwrite
  BY <1>1 DEF Fields
<1> HIDE DEF merge
<1> QED
  BY <1>2, <1>3, <1>4, <1>5, <1>6, <1>7, <1>8 DEF derived

LEMMA MatchIsTyped ==
  ASSUME EnrichTypes, record # Nothing, NEW m \in Models, models[m] # Nothing
  PROVE EN!Match(m) \in CatalogRecord \cup {Nothing} /\ models[m] \in ModelRecord
<1>1. models[m] \in ModelRecord /\ record \in [Models -> CatalogRecord \cup {Nothing}]
  BY DEF EnrichTypes
<1>2. models[m].id \in Models \cup {Nothing}
  BY <1>1 DEF ModelRecord
<1> QED
  BY <1>1, <1>2 DEF EN!Match

\* What becomes of a model that is looked up.
LEMMA Looked ==
  ASSUME EnrichTypes, record # Nothing, NEW m \in Models, models[m] # Nothing,
         NEW after, after = EN!ReconcileModel(m)
  PROVE /\ after \in ModelRecord \cup {Nothing}
        /\ after = Nothing => Hiding
        /\ after # Nothing =>
             /\ after \in ModelRecord /\ after.id = models[m].id
             /\ \A f \in Fields \ options.overwrite : models[m][f] # Nothing => after[f] = models[m][f]
             /\ after.tool_call = "no" => models[m].tool_call = "no" \/ "tool_call" \in options.overwrite
             /\ ~ EN!Hides(EN!Match(m))
             /\ IF EN!Match(m) = Nothing THEN after = models[m]
                ELSE EN!MergeIntoModel(after, EN!MapOpenRouterEntry(EN!Match(m))) = after
<1> USE EnrichmentAssumption DEF EnrichmentAssumption
<1> DEFINE match == EN!Match(m)
<1>1. match \in CatalogRecord \cup {Nothing} /\ models[m] \in ModelRecord
  BY MatchIsTyped
<1>2. after = IF EN!Hides(match) THEN Nothing
              ELSE IF match = Nothing THEN models[m]
              ELSE EN!MergeIntoModel(models[m], EN!MapOpenRouterEntry(match))
  BY DEF EN!ReconcileModel
<1> HIDE DEF match
<1>3. CASE EN!Hides(match)
  BY <1>2, <1>3 DEF EN!Hides, Hiding
<1>4. CASE ~EN!Hides(match) /\ match = Nothing
  BY <1>1, <1>2, <1>4 DEF match
<1>5. CASE ~EN!Hides(match) /\ match # Nothing
  <2>1. match \in CatalogRecord /\ after = EN!MergeIntoModel(models[m], EN!MapOpenRouterEntry(match))
    BY <1>1, <1>2, <1>5
  <2>2. /\ after \in ModelRecord /\ after.id = models[m].id
        /\ \A f \in Fields \ options.overwrite : models[m][f] # Nothing => after[f] = models[m][f]
        /\ after.tool_call = "no" => models[m].tool_call = "no" \/ "tool_call" \in options.overwrite
        /\ EN!MergeIntoModel(after, EN!MapOpenRouterEntry(match)) = after
    BY <1>1, <2>1, Merged
  <2> QED
    BY <1>5, <2>2 DEF match
<1> QED
  BY <1>3, <1>4, <1>5

LEMMA EnrichStep == ASSUME ModelsOK, EN!EnrichProvider PROVE ModelsOK'
<1>1. /\ record # Nothing /\ models' = EN!Reconciled /\ UNCHANGED <<written, options, record, discovered>>
      /\ hidden' = hidden \cup {m \in Models : models[m] # Nothing /\ models'[m] = Nothing}
  BY DEF EN!EnrichProvider
<1>2. \A m \in Models : models'[m] = IF models[m] = Nothing THEN Nothing ELSE EN!ReconcileModel(m)
  BY <1>1 DEF EN!Reconciled
<1>3. ASSUME NEW m \in Models, models[m] # Nothing
      PROVE /\ models'[m] \in ModelRecord \cup {Nothing}
            /\ models'[m] = Nothing => Hiding
            /\ models'[m] # Nothing =>
                 /\ models'[m] \in ModelRecord /\ models'[m].id = models[m].id
                 /\ \A f \in Fields \ options.overwrite : models[m][f] # Nothing => models'[m][f] = models[m][f]
                 /\ models'[m].tool_call = "no" => models[m].tool_call = "no" \/ "tool_call" \in options.overwrite
                 /\ ~ EN!Hides(EN!Match(m))
                 /\ IF EN!Match(m) = Nothing THEN models'[m] = models[m]
                    ELSE EN!MergeIntoModel(models'[m], EN!MapOpenRouterEntry(EN!Match(m))) = models'[m]
  <2>1. models'[m] = EN!ReconcileModel(m)
    BY <1>2, <1>3
  <2> QED
    BY <1>1, <1>3, <2>1, Looked DEF ModelsOK
<1>4. EnrichTypes'
  <2>1. models' = [m \in Models |-> models'[m]]
    BY <1>1 DEF EN!Reconciled
  <2>2. \A m \in Models : models'[m] \in ModelRecord \cup {Nothing}
    BY <1>2, <1>3
  <2>3. models' \in [Models -> ModelRecord \cup {Nothing}]
    BY <2>1, <2>2
  <2> QED
    BY <1>1, <2>3 DEF ModelsOK, EnrichTypes
<1>5. Settled'
  <2>1. ASSUME NEW m \in Models, models'[m] # Nothing PROVE EN!ReconcileModel(m)' = models'[m]
    <3> DEFINE match == EN!Match(m)
    <3>1. models[m] # Nothing
      BY <1>2, <2>1
    <3>2. EN!Match(m)' = match
      BY <1>1, <1>3, <2>1, <3>1 DEF EN!Match
    <3>3. EN!ReconcileModel(m)' =
            IF EN!Hides(match) THEN Nothing
            ELSE IF match = Nothing THEN models'[m]
            ELSE EN!MergeIntoModel(models'[m], EN!MapOpenRouterEntry(match))
      <4> HIDE DEF match
      <4> QED
        BY <1>1, <3>2 DEF EN!ReconcileModel, EN!Hides, EN!MergeIntoModel, EN!MapOpenRouterEntry, EN!SetCapability
    <3> QED
      BY <1>3, <2>1, <3>1, <3>3
  <2>2. EN!Reconciled' = [m \in Models |-> IF models'[m] = Nothing THEN Nothing ELSE EN!ReconcileModel(m)']
    BY DEF EN!Reconciled
  <2>3. models' = [m \in Models |-> models'[m]]
    BY <1>1 DEF EN!Reconciled
  <2> QED
    BY <1>1, <2>1, <2>2, <2>3 DEF Settled
<1>6. HiddenByFlags'
  BY <1>1, <1>2, <1>3 DEF ModelsOK, HiddenByFlags, Hiding
<1>7. KeptAsWritten'
  <2> SUFFICES ASSUME NEW m \in Models, written[m] # Nothing, models'[m] # Nothing, m \notin hidden',
                      NEW f \in {"name", "tool_call", "modalities"} \ options.overwrite
               PROVE written[m][f] \in {Nothing, models'[m][f]} \/ (f = "name" /\ m \in discovered)
    BY <1>1 DEF KeptAsWritten
  <2>1. models[m] # Nothing /\ m \notin hidden
    BY <1>1, <1>2
  <2>2. written[m][f] \in {Nothing, models[m][f]} \/ (f = "name" /\ m \in discovered)
    BY <2>1 DEF ModelsOK, KeptAsWritten
  <2>3. models[m][f] # Nothing => models'[m][f] = models[m][f]
    BY <1>3, <2>1 DEF Fields
  <2> QED
    BY <2>2, <2>3
<1>8. DeniedByRight'
  <2> SUFFICES ASSUME NEW m \in Models, models'[m] # Nothing, models'[m].tool_call = "no"
               PROVE "tool_call" \in options.overwrite \/ (written[m] # Nothing /\ written[m].tool_call = "no")
    BY <1>1 DEF DeniedByRight
  <2>1. models[m] # Nothing
    BY <1>2
  <2>2. models[m].tool_call = "no" \/ "tool_call" \in options.overwrite
    BY <1>3, <2>1
  <2> QED
    BY <2>1, <2>2 DEF ModelsOK, DeniedByRight
<1> QED
  BY <1>4, <1>5, <1>6, <1>7, <1>8 DEF ModelsOK

LEMMA MergeStep ==
  ASSUME ModelsOK, NEW found \in SUBSET Models, EN!MergeDiscoveredModels(found) PROVE ModelsOK'
<1> USE EnrichmentAssumption DEF EnrichmentAssumption
<1> DEFINE base(m) == IF models[m] = Nothing THEN EN!Blank ELSE models[m]
           named(m) == [base(m) EXCEPT !.id = m, !.name = "discovered"]
<1>1. /\ models' = [m \in Models |-> IF m \notin found THEN models[m] ELSE named(m)]
      /\ discovered' = discovered \cup found /\ enriched' = FALSE
      /\ UNCHANGED <<written, options, record, hidden>>
  BY DEF EN!MergeDiscoveredModels, EN!Discovered
<1>2. ASSUME NEW m \in found
      PROVE /\ named(m) \in ModelRecord /\ named(m) # Nothing
            /\ named(m).tool_call = base(m).tool_call /\ named(m).modalities = base(m).modalities
  <2>1. base(m) \in ModelRecord
    BY DEF EN!Blank, ModelRecord, ModelsOK, EnrichTypes
  <2> HIDE DEF base
  <2> QED
    BY <2>1 DEF ModelRecord
<1>3. ASSUME NEW m \in found PROVE models[m] = Nothing => base(m).tool_call # "no"
  BY DEF EN!Blank
<1> HIDE DEF named
<1>4. EnrichTypes' /\ Settled' /\ HiddenByFlags'
  BY <1>1, <1>2 DEF ModelsOK, EnrichTypes, Settled, HiddenByFlags, Hiding
<1>5. KeptAsWritten'
  <2> SUFFICES ASSUME NEW m \in Models, written[m] # Nothing, models'[m] # Nothing, m \notin hidden,
                      NEW f \in {"name", "tool_call", "modalities"} \ options.overwrite
               PROVE written[m][f] \in {Nothing, models'[m][f]} \/ (f = "name" /\ m \in discovered')
    BY <1>1 DEF KeptAsWritten
  <2>1. models[m] # Nothing
    BY DEF ModelsOK, HiddenByFlags
  <2>2. written[m][f] \in {Nothing, models[m][f]} \/ (f = "name" /\ m \in discovered)
    BY <2>1 DEF ModelsOK, KeptAsWritten
  <2>3. CASE m \notin found
    BY <1>1, <2>2, <2>3
  <2>4. CASE m \in found
    BY <1>1, <1>2, <2>1, <2>2, <2>4
  <2> QED
    BY <2>3, <2>4
<1>6. DeniedByRight'
  <2> SUFFICES ASSUME NEW m \in Models, models'[m] # Nothing, models'[m].tool_call = "no"
               PROVE "tool_call" \in options.overwrite \/ (written[m] # Nothing /\ written[m].tool_call = "no")
    BY <1>1 DEF DeniedByRight
  <2>1. models[m] # Nothing /\ models[m].tool_call = "no"
    BY <1>1, <1>2, <1>3
  <2> QED
    BY <2>1 DEF ModelsOK, DeniedByRight
<1> QED
  BY <1>4, <1>5, <1>6 DEF ModelsOK

LEMMA ModelsStep == ModelsOK /\ [EN!Next]_enrichVars => ModelsOK'
<1> SUFFICES ASSUME ModelsOK, [EN!Next]_enrichVars PROVE ModelsOK'
  OBVIOUS
<1> USE EnrichmentAssumption DEF EnrichmentAssumption
<1>1. CASE UNCHANGED enrichVars
  <2>1. EN!Reconciled' = EN!Reconciled
    BY <1>1 DEF enrichVars, EN!Reconciled, EN!ReconcileModel, EN!Match, EN!Hides, EN!MergeIntoModel,
         EN!MapOpenRouterEntry, EN!SetCapability
  <2>2. Settled'
    BY <1>1, <2>1 DEF enrichVars, ModelsOK, Settled
  <2> QED
    BY <1>1, <2>2 DEF enrichVars, ModelsOK, EnrichTypes, HiddenByFlags, KeptAsWritten, DeniedByRight, Hiding
<1>2. CASE EN!Load
  <2>1. /\ written' \in Listings /\ models' = written' /\ enriched' = FALSE /\ discovered' = {} /\ hidden' = {}
        /\ UNCHANGED record
    BY <1>2 DEF EN!Load
  <2> QED
    BY <2>1 DEF ModelsOK, EnrichTypes, Settled, HiddenByFlags, KeptAsWritten, DeniedByRight
<1>3. ASSUME NEW response \in Responses, EN!FetchOpenRouterModels(response) PROVE ModelsOK'
  BY <1>3 DEF EN!FetchOpenRouterModels, ModelsOK, EnrichTypes, Settled, HiddenByFlags, KeptAsWritten,
       DeniedByRight, Hiding
<1> QED
  BY <1>1, <1>2, <1>3, EnrichStep, MergeStep DEF EN!Next

(* However often the hooks run, with whatever catalogs: enriching again    *)
(* changes nothing, what the user has set stays unless it may be           *)
(* overwritten, and a model is only missing because of a flag.             *)
THEOREM EnrichmentIsStable == ProvidersSpec => []EnrichmentSettles
<1> USE EnrichmentAssumption DEF EnrichmentAssumption
<1>1. ProvidersInit => ModelsOK
  <2> SUFFICES ASSUME EN!Init PROVE ModelsOK
    BY DEF ProvidersInit
  <2> QED
    BY DEF EN!Init, ModelsOK, EnrichTypes, Settled, HiddenByFlags, KeptAsWritten, DeniedByRight
<1>2. ModelsOK /\ [ProvidersNext]_allVars => ModelsOK'
  BY StepOfEach, ModelsStep
<1>3. ModelsOK => EnrichmentSettles
  BY DEF ModelsOK, Settled, HiddenByFlags, KeptAsWritten, DeniedByRight, Hiding, EnrichmentSettles,
         EN!EnrichmentSettles
<1> QED
  BY <1>1, <1>2, <1>3, PTL DEF ProvidersSpec

-----------------------------------------------------------------------------
(* The state file of two plugins (SharedRoot).  What a writer is about to  *)
(* write has at least what the file had when the writer read it, unless    *)
(* there was no token to adopt.                                            *)

State == [token : Nat, models : Nat]

Within(s, g, c) == s.token <= g /\ s.models <= c

OpRecord == [pc : {"idle", "lock", "post", "save", "fetch", "synced", "migrate", "reset"},
             kind : {Nothing, "chat", "sync"}, base : State \cup {Nothing}, next : State]

RootTypes ==
  /\ root \in State \cup {Nothing} /\ legacy \in Nat /\ issued \in Nat /\ catalog \in Nat
  /\ state \in [Engines -> State] /\ op \in [Engines \cup Bridges -> OpRecord]

NothingFromTheFuture ==
  /\ root # Nothing => Within(root, issued, catalog)
  /\ legacy <= issued
  /\ \A e \in Engines : Within(state[e], issued, catalog)
  /\ \A w \in Engines \cup Bridges :
       /\ Within(op[w].next, issued, catalog)
       /\ op[w].base # Nothing => Within(op[w].base, issued, catalog)

\* What an engine with copy s does, if there was a token to adopt.
EngineGoesOn(o, s) ==
  /\ o.pc \in {"idle", "lock", "post", "save", "fetch", "synced"}
  /\ o.base # Nothing /\ o.base.token # NoToken =>
       /\ o.pc = "post" => s = o.base
       /\ o.pc = "fetch" => o.next = o.base
       /\ o.pc \in {"save", "synced"} => o.next.models >= o.base.models /\ o.next.token >= o.base.token

BridgeGoesOn(o) ==
  /\ o.pc \in {"idle", "lock", "post", "save", "migrate", "reset"}
  /\ o.pc = "migrate" => o.base = Nothing
  /\ o.pc \in {"save", "reset"} /\ o.base # Nothing =>
       /\ o.next.models >= o.base.models
       /\ o.next.token = NoToken \/ o.next.token >= o.base.token

WritersGoOn ==
  /\ \A e \in Engines : EngineGoesOn(op[e], state[e])
  /\ \A b \in Bridges : BridgeGoesOn(op[b])

RootOK == RootTypes /\ NothingFromTheFuture /\ WritersGoOn

LEMMA WriterStep ==
  ASSUME RootOK, NEW w \in Engines \cup Bridges, NEW o \in OpRecord, SR!At(w, o),
         UNCHANGED <<legacy, catalog>>, issued' \in Nat, issued' >= issued,
         root' \in State \cup {Nothing}, root' # Nothing => Within(root', issued', catalog),
         state' \in [Engines -> State],
         \A e \in Engines : Within(state'[e], issued', catalog) /\ (e # w => state'[e] = state[e]),
         Within(o.next, issued', catalog), o.base # Nothing => Within(o.base, issued', catalog),
         w \in Engines => EngineGoesOn(o, state'[w]),
         w \in Bridges => BridgeGoesOn(o)
  PROVE RootOK'
<1>1. /\ op' \in [Engines \cup Bridges -> OpRecord] /\ op'[w] = o
      /\ \A v \in Engines \cup Bridges : v # w => op'[v] = op[v]
  BY DEF SR!At, RootOK, RootTypes
<1>2. RootTypes'
  BY <1>1 DEF RootOK, RootTypes
<1>3. NothingFromTheFuture'
  <2>1. issued' \in Nat /\ issued \in Nat /\ issued <= issued' /\ legacy \in Nat /\ catalog' = catalog
    BY DEF RootOK, RootTypes
  <2>2. \A s \in State : Within(s, issued, catalog) => Within(s, issued', catalog)
    BY <2>1 DEF State, Within
  <2>3. \A v \in Engines \cup Bridges : op[v].next \in State /\ op[v].base \in State \cup {Nothing}
    BY DEF RootOK, RootTypes, OpRecord
  <2>4. legacy' <= issued'
    BY <2>1 DEF RootOK, NothingFromTheFuture
  <2>5. \A v \in Engines \cup Bridges :
          /\ Within(op'[v].next, issued', catalog)
          /\ op'[v].base # Nothing => Within(op'[v].base, issued', catalog)
    BY <1>1, <2>2, <2>3 DEF RootOK, NothingFromTheFuture
  <2> QED
    BY <2>1, <2>4, <2>5 DEF NothingFromTheFuture
<1>4. WritersGoOn'
  <2>1. \A e \in Engines : EngineGoesOn(op'[e], state'[e])
    BY <1>1 DEF RootOK, WritersGoOn
  <2>2. \A b \in Bridges : BridgeGoesOn(op'[b])
    BY <1>1, SharedRootAssumption DEF RootOK, WritersGoOn, SharedRootAssumption
  <2> QED
    BY <2>1, <2>2 DEF WritersGoOn, EngineGoesOn, BridgeGoesOn
<1> QED
  BY <1>2, <1>3, <1>4 DEF RootOK

\* What every writer has and may write.
LEMMA Known ==
  ASSUME RootOK
  PROVE /\ Nothing \notin State
        /\ root \in State \cup {Nothing} /\ legacy \in Nat /\ issued \in Nat /\ catalog \in Nat
        /\ legacy <= issued /\ (root # Nothing => Within(root, issued, catalog))
        /\ state \in [Engines -> State] /\ \A e \in Engines : Within(state[e], issued, catalog)
        /\ \A w \in Engines \cup Bridges :
             /\ op[w] \in OpRecord /\ op[w].next \in State /\ op[w].base \in State \cup {Nothing}
             /\ Within(op[w].next, issued, catalog)
             /\ op[w].base # Nothing => Within(op[w].base, issued, catalog)
        /\ \A e \in Engines : EngineGoesOn(op[e], state[e])
        /\ \A b \in Bridges : BridgeGoesOn(op[b])
        /\ SR!Idle \in OpRecord /\ SR!Idle.pc = "idle" /\ SR!Idle.base = Nothing
        /\ Within(SR!Idle.next, issued, catalog)
BY SharedRootAssumption DEF SharedRootAssumption, State, RootOK, RootTypes, NothingFromTheFuture, WritersGoOn,
     OpRecord, SR!Idle, SR!Empty, SR!NoToken, Within

LEMMA ToIdle ==
  ASSUME RootOK, NEW w \in Engines \cup Bridges, SR!At(w, SR!Idle), UNCHANGED <<legacy, catalog, issued>>,
         root' \in State \cup {Nothing}, root' # Nothing => Within(root', issued, catalog),
         state' \in [Engines -> State],
         \A e \in Engines : Within(state'[e], issued, catalog) /\ (e # w => state'[e] = state[e])
  PROVE RootOK'
<1>1. EngineGoesOn(SR!Idle, state'[w]) /\ BridgeGoesOn(SR!Idle)
  BY Known DEF EngineGoesOn, BridgeGoesOn
<1> QED
  BY <1>1, Known, WriterStep

LEMMA EnsureStep ==
  ASSUME RootOK, NEW e \in Engines, NEW kind \in {"chat", "sync"}, SR!EngineEnsure(e, kind)
  PROVE RootOK'
<1> DEFINE copy == IF SR!Token = SR!NoToken THEN state[e] ELSE root
           begun == [pc |-> "fetch", kind |-> kind, base |-> root, next |-> copy]
           waits == [SR!Idle EXCEPT !.pc = "lock", !.kind = kind]
<1>1. /\ UNCHANGED <<root, legacy, issued, catalog>> /\ state' = [state EXCEPT ![e] = copy]
      /\ SR!At(e, begun) \/ SR!At(e, SR!Idle) \/ SR!At(e, waits)
  BY Known DEF SR!EngineEnsure, SR!ReadCachedToken
<1>2. copy \in State /\ Within(copy, issued, catalog) /\ (root # Nothing /\ root.token # NoToken => copy = root)
  BY Known DEF SR!Token, SR!NoToken, NoToken
<1> HIDE DEF copy
<1>3. /\ state' \in [Engines -> State] /\ state'[e] = copy
      /\ \A d \in Engines : Within(state'[d], issued, catalog) /\ (d # e => state'[d] = state[d])
  BY <1>1, <1>2, Known
<1>4. /\ begun \in OpRecord /\ EngineGoesOn(begun, copy) /\ begun.next = copy /\ begun.base = root
      /\ waits \in OpRecord /\ EngineGoesOn(waits, copy) /\ waits.next = SR!Idle.next /\ waits.base = Nothing
  BY <1>2, Known DEF OpRecord, EngineGoesOn
<1>5. e \in Engines \cup Bridges /\ e \notin Bridges
  BY SharedRootAssumption DEF SharedRootAssumption
<1> HIDE DEF begun, waits
<1>6. CASE SR!At(e, begun)
  BY <1>1, <1>2, <1>3, <1>4, <1>5, <1>6, Known, WriterStep
<1>7. CASE SR!At(e, waits)
  BY <1>1, <1>3, <1>4, <1>5, <1>7, Known, WriterStep
<1>8. CASE SR!At(e, SR!Idle)
  BY <1>1, <1>3, <1>5, <1>8, Known, ToIdle
<1> QED
  BY <1>1, <1>6, <1>7, <1>8

\* A step of an engine that leaves its copy and the file alone.
LEMMA EngineMoves ==
  ASSUME RootOK, NEW e \in Engines, NEW o \in OpRecord, SR!At(e, o), UNCHANGED <<root, legacy, state, catalog>>,
         issued' \in Nat, issued' >= issued,
         Within(o.next, issued', catalog), o.base # Nothing => Within(o.base, issued', catalog),
         EngineGoesOn(o, state[e])
  PROVE RootOK'
<1>1. \A s \in State : Within(s, issued, catalog) => Within(s, issued', catalog)
  BY Known DEF Within, State
<1>2. e \in Engines \cup Bridges /\ e \notin Bridges
  BY SharedRootAssumption DEF SharedRootAssumption
<1> QED
  BY <1>1, <1>2, Known, WriterStep

LEMMA EngineStep ==
  ASSUME RootOK, NEW e \in Engines,
         \/ SR!EngineLocks(e) \/ SR!EngineSets(e) \/ SR!EngineLeaves(e) \/ SR!EngineSaves(e)
         \/ SR!EngineFetches(e) \/ SR!EngineSyncs(e)
  PROVE RootOK'
<1>0. e \in Engines \cup Bridges /\ e \notin Bridges
  BY SharedRootAssumption DEF SharedRootAssumption
<1>1. CASE SR!EngineLocks(e)
  <2> DEFINE copy == IF SR!Token = SR!NoToken THEN state[e] ELSE root
             o == [op[e] EXCEPT !.pc = "post", !.base = root]
  <2>1. /\ UNCHANGED <<root, legacy, issued, catalog>> /\ state' = [state EXCEPT ![e] = copy] /\ SR!At(e, o)
    BY <1>1 DEF SR!EngineLocks, SR!ReadCachedToken
  <2>2. copy \in State /\ Within(copy, issued, catalog) /\ (root # Nothing /\ root.token # NoToken => copy = root)
    BY Known DEF SR!Token, SR!NoToken, NoToken
  <2> HIDE DEF copy
  <2>3. /\ state' \in [Engines -> State] /\ state'[e] = copy
        /\ \A d \in Engines : Within(state'[d], issued, catalog) /\ (d # e => state'[d] = state[d])
    BY <2>1, <2>2, Known
  <2>4. o \in OpRecord /\ o.next = op[e].next /\ o.base = root /\ o.pc = "post"
    BY <1>0, Known DEF OpRecord
  <2> HIDE DEF o
  <2>5. EngineGoesOn(o, copy)
    BY <2>2, <2>4 DEF EngineGoesOn
  <2> QED
    BY <1>0, <2>1, <2>3, <2>4, <2>5, Known, WriterStep
<1>2. CASE SR!EngineSets(e)
  <2> DEFINE s == [state[e] EXCEPT !.token = issued + 1]
             o == [op[e] EXCEPT !.pc = "save", !.next = s]
  <2>1. /\ UNCHANGED <<root, legacy, state, catalog>> /\ op[e].pc = "post" /\ issued' = issued + 1
        /\ SR!At(e, o)
    BY <1>2 DEF SR!EngineSets
  <2>2. s \in State /\ s.token = issued + 1 /\ s.models = state[e].models
    BY Known DEF State
  <2> HIDE DEF s
  <2>3. o \in OpRecord /\ o.next = s /\ o.base = op[e].base /\ o.pc = "save"
    BY <1>0, <2>2, Known DEF OpRecord
  <2> HIDE DEF o
  <2>4. Within(s, issued', catalog) /\ issued' \in Nat /\ issued' >= issued
    BY <2>1, <2>2, Known DEF Within, State
  <2>5. op[e].base # Nothing => Within(op[e].base, issued, catalog) /\ op[e].base \in State
    BY <1>0, Known
  <2>6. op[e].base # Nothing => Within(op[e].base, issued', catalog)
    BY <2>1, <2>5, Known DEF Within, State
  <2>7. EngineGoesOn(o, state[e])
    BY <2>1, <2>2, <2>3, <2>5, Known DEF EngineGoesOn, Within, State
  <2> QED
    BY <2>1, <2>3, <2>4, <2>6, <2>7, EngineMoves
<1>3. CASE SR!EngineLeaves(e)
  <2>1. CASE SR!At(e, SR!Idle)
    BY <1>0, <1>3, <2>1, Known, ToIdle DEF SR!EngineLeaves
  <2> DEFINE o == [op[e] EXCEPT !.pc = "fetch", !.next = state[e]]
  <2>2. CASE SR!At(e, o)
    <3>1. UNCHANGED <<root, legacy, state, catalog, issued>> /\ op[e].pc = "post"
      BY <1>3 DEF SR!EngineLeaves
    <3>2. o \in OpRecord /\ o.next = state[e] /\ o.base = op[e].base /\ o.pc = "fetch"
      BY <1>0, Known DEF OpRecord
    <3> HIDE DEF o
    <3>3. EngineGoesOn(o, state[e])
      BY <3>1, <3>2, Known DEF EngineGoesOn
    <3>4. issued' \in Nat /\ issued' >= issued
      BY <3>1, Known
    <3> QED
      BY <1>0, <2>2, <3>1, <3>2, <3>3, <3>4, Known, EngineMoves
  <2> QED
    BY <1>3, <2>1, <2>2 DEF SR!EngineLeaves
<1>4. ASSUME root' = op[e].next, state' = [state EXCEPT ![e] = op[e].next], UNCHANGED <<legacy, catalog, issued>>
      PROVE /\ root' \in State /\ Within(root', issued, catalog)
            /\ state' \in [Engines -> State] /\ state'[e] = op[e].next
            /\ \A d \in Engines : Within(state'[d], issued, catalog) /\ (d # e => state'[d] = state[d])
  BY <1>0, <1>4, Known
<1>5. CASE SR!EngineSaves(e)
  <2> DEFINE o == [op[e] EXCEPT !.pc = "fetch", !.base = op[e].next]
  <2>1. /\ root' = op[e].next /\ state' = [state EXCEPT ![e] = op[e].next]
        /\ UNCHANGED <<legacy, catalog, issued>>
        /\ SR!At(e, o) \/ SR!At(e, SR!Idle)
    BY <1>5 DEF SR!EngineSaves, SR!Save
  <2>2. o \in OpRecord /\ o.next = op[e].next /\ o.base = op[e].next /\ o.pc = "fetch"
    BY <1>0, Known DEF OpRecord
  <2> HIDE DEF o
  <2>3. EngineGoesOn(o, state'[e])
    BY <2>2 DEF EngineGoesOn
  <2>4. CASE SR!At(e, SR!Idle)
    BY <1>0, <1>4, <2>1, <2>4, ToIdle
  <2>5. CASE SR!At(e, o)
    BY <1>0, <1>4, <2>1, <2>2, <2>3, <2>5, Known, WriterStep
  <2> QED
    BY <2>1, <2>4, <2>5
<1>6. CASE SR!EngineFetches(e)
  <2>1. CASE SR!At(e, SR!Idle)
    BY <1>0, <1>6, <2>1, Known, ToIdle DEF SR!EngineFetches
  <2> DEFINE s == [op[e].next EXCEPT !.models = catalog]
             o == [op[e] EXCEPT !.pc = "synced", !.next = s]
  <2>2. CASE SR!At(e, [op[e] EXCEPT !.pc = "synced", !.next.models = catalog])
    <3>1. UNCHANGED <<root, legacy, state, catalog, issued>> /\ op[e].pc = "fetch" /\ SR!At(e, o)
      BY <1>6, <2>2 DEF SR!EngineFetches
    <3>2. s \in State /\ s.token = op[e].next.token /\ s.models = catalog
      BY <1>0, Known DEF State
    <3> HIDE DEF s
    <3>3. o \in OpRecord /\ o.next = s /\ o.base = op[e].base /\ o.pc = "synced"
      BY <1>0, <3>2, Known DEF OpRecord
    <3> HIDE DEF o
    <3>4. Within(s, issued, catalog)
      BY <1>0, <3>2, Known DEF Within, State
    <3>5. EngineGoesOn(o, state[e])
      BY <1>0, <3>1, <3>2, <3>3, Known DEF EngineGoesOn, Within, State
    <3>6. issued' \in Nat /\ issued' >= issued
      BY <3>1, Known
    <3> QED
      BY <1>0, <3>1, <3>3, <3>4, <3>5, <3>6, Known, EngineMoves
  <2> QED
    BY <1>6, <2>1, <2>2 DEF SR!EngineFetches
<1>7. CASE SR!EngineSyncs(e)
  <2>1. /\ root' = op[e].next /\ state' = [state EXCEPT ![e] = op[e].next]
        /\ UNCHANGED <<legacy, catalog, issued>> /\ SR!At(e, SR!Idle)
    BY <1>7 DEF SR!EngineSyncs, SR!Save
  <2> QED
    BY <1>0, <1>4, <2>1, ToIdle
<1> QED
  BY <1>1, <1>2, <1>3, <1>5, <1>6, <1>7

\* A step of a runtime of lightbridge that leaves the file alone.
LEMMA BridgeMoves ==
  ASSUME RootOK, NEW b \in Bridges, NEW o \in OpRecord, SR!At(b, o), UNCHANGED <<root, legacy, state, catalog>>,
         issued' \in Nat, issued' >= issued,
         Within(o.next, issued', catalog), o.base # Nothing => Within(o.base, issued', catalog),
         BridgeGoesOn(o)
  PROVE RootOK'
<1>1. \A s \in State : Within(s, issued, catalog) => Within(s, issued', catalog)
  BY Known DEF Within, State
<1>2. b \in Engines \cup Bridges /\ b \notin Engines
  BY SharedRootAssumption DEF SharedRootAssumption
<1> QED
  BY <1>1, <1>2, Known, WriterStep

LEMMA BridgeStep ==
  ASSUME RootOK, NEW b \in Bridges,
         \/ SR!Migrate(b) \/ SR!Migrated(b) \/ SR!GetProjectToken(b) \/ SR!BridgeLocks(b) \/ SR!BridgeLeaves(b)
         \/ SR!BridgeSets(b) \/ SR!BridgeSaves(b) \/ SR!Reset(b) \/ SR!ResetSaves(b)
  PROVE RootOK'
<1>0. b \in Engines \cup Bridges /\ b \notin Engines
  BY SharedRootAssumption DEF SharedRootAssumption
<1>1. CASE SR!Migrate(b)
  <2> DEFINE s == [token |-> legacy, models |-> 0]
             o == [SR!Idle EXCEPT !.pc = "migrate", !.next = s]
  <2>1. CASE UNCHANGED op
    BY <1>1, <2>1 DEF SR!Migrate, RootOK, RootTypes, NothingFromTheFuture, WritersGoOn, EngineGoesOn, BridgeGoesOn
  <2>2. CASE SR!At(b, o)
    <3>1. UNCHANGED <<root, legacy, state, catalog, issued>>
      BY <1>1 DEF SR!Migrate
    <3>2. s \in State /\ Within(s, issued, catalog)
      BY Known DEF State, Within
    <3> HIDE DEF s
    <3>3. o \in OpRecord /\ o.next = s /\ o.base = Nothing /\ o.pc = "migrate"
      BY <3>2, Known DEF OpRecord
    <3> HIDE DEF o
    <3>4. BridgeGoesOn(o) /\ issued' \in Nat /\ issued' >= issued
      BY <3>1, <3>3, Known DEF BridgeGoesOn
    <3> QED
      BY <2>2, <3>1, <3>2, <3>3, <3>4, BridgeMoves
  <2> QED
    BY <1>1, <2>1, <2>2 DEF SR!Migrate
<1>2. CASE SR!GetProjectToken(b) \/ SR!BridgeLocks(b)
  <2>1. PICK pc \in {"lock", "post"} : SR!At(b, [SR!Idle EXCEPT !.pc = pc])
    BY <1>2 DEF SR!GetProjectToken, SR!BridgeLocks
  <2> DEFINE o == [SR!Idle EXCEPT !.pc = pc]
  <2>2. UNCHANGED <<root, legacy, state, catalog, issued>>
    BY <1>2 DEF SR!GetProjectToken, SR!BridgeLocks
  <2>3. o \in OpRecord /\ o.next = SR!Idle.next /\ o.base = Nothing /\ o.pc = pc
    BY Known DEF OpRecord
  <2>4. SR!At(b, o)
    BY <2>1
  <2> HIDE DEF o
  <2>5. BridgeGoesOn(o) /\ issued' \in Nat /\ issued' >= issued
    BY <2>2, <2>3, Known DEF BridgeGoesOn
  <2> QED
    BY <2>2, <2>3, <2>4, <2>5, Known, BridgeMoves
<1>3. CASE SR!BridgeLeaves(b)
  BY <1>0, <1>3, Known, ToIdle DEF SR!BridgeLeaves
<1>4. CASE SR!Migrated(b) \/ SR!BridgeSaves(b) \/ SR!ResetSaves(b)
  <2>1. root' = op[b].next /\ UNCHANGED <<legacy, state, catalog, issued>> /\ SR!At(b, SR!Idle)
    BY <1>4 DEF SR!Migrated, SR!BridgeSaves, SR!ResetSaves, SR!Save
  <2> QED
    BY <1>0, <2>1, Known, ToIdle
<1>5. CASE SR!BridgeSets(b)
  <2> DEFINE loaded == SR!Loaded
             s == [loaded EXCEPT !.token = issued + 1]
             o == [pc |-> "save", kind |-> Nothing, base |-> root, next |-> s]
  <2>1. UNCHANGED <<root, legacy, state, catalog>> /\ issued' = issued + 1 /\ SR!At(b, o)
    BY <1>5 DEF SR!BridgeSets
  <2>2. loaded \in State /\ Within(loaded, issued, catalog) /\ (root # Nothing => loaded = root)
    BY Known DEF SR!Loaded, SR!Empty, SR!NoToken, State, Within
  <2> HIDE DEF loaded
  <2>3. s \in State /\ s.token = issued + 1 /\ s.models = loaded.models
    BY <2>2, Known DEF State
  <2> HIDE DEF s
  <2>4. o \in OpRecord /\ o.next = s /\ o.base = root /\ o.pc = "save"
    BY <2>3, Known DEF OpRecord
  <2> HIDE DEF o
  <2>5. /\ Within(s, issued', catalog) /\ issued' \in Nat /\ issued' >= issued
        /\ root # Nothing => Within(root, issued', catalog)
    BY <2>1, <2>2, <2>3, Known DEF Within, State
  <2>6. BridgeGoesOn(o)
    BY <2>2, <2>3, <2>4, Known DEF BridgeGoesOn, Within, State
  <2> QED
    BY <2>1, <2>4, <2>5, <2>6, BridgeMoves
<1>6. CASE SR!Reset(b)
  <2> DEFINE s == [root EXCEPT !.token = SR!NoToken]
             o == [pc |-> "reset", kind |-> Nothing, base |-> root, next |-> s]
  <2>1. UNCHANGED <<root, legacy, state, catalog, issued>> /\ root # Nothing /\ SR!At(b, o)
    BY <1>6 DEF SR!Reset, SR!Token
  <2>2. root \in State /\ Within(root, issued, catalog)
    BY <2>1, Known
  <2>3. s \in State /\ s.token = 0 /\ s.models = root.models
    BY <2>2 DEF State, SR!NoToken
  <2> HIDE DEF s
  <2>4. o \in OpRecord /\ o.next = s /\ o.base = root /\ o.pc = "reset"
    BY <2>2, <2>3, Known DEF OpRecord
  <2> HIDE DEF o
  <2>5. Within(s, issued, catalog) /\ issued' \in Nat /\ issued' >= issued
    BY <2>1, <2>2, <2>3, Known DEF Within, State
  <2>6. BridgeGoesOn(o)
    BY <2>2, <2>3, <2>4 DEF BridgeGoesOn, NoToken, State
  <2> QED
    BY <2>1, <2>2, <2>4, <2>5, <2>6, BridgeMoves
<1> QED
  BY <1>1, <1>2, <1>3, <1>4, <1>5, <1>6

LEMMA RootStep == RootOK /\ [SR!Next]_rootVars => RootOK'
<1> SUFFICES ASSUME RootOK, [SR!Next]_rootVars PROVE RootOK'
  OBVIOUS
<1>1. CASE UNCHANGED rootVars
  BY <1>1 DEF rootVars, RootOK, RootTypes, NothingFromTheFuture, WritersGoOn, EngineGoesOn, BridgeGoesOn
<1>2. CASE SR!ModelsChange
  <2>1. UNCHANGED <<root, legacy, state, op, issued>> /\ catalog' = catalog + 1
    BY <1>2 DEF SR!ModelsChange
  <2>2. \A s \in State : Within(s, issued, catalog) => Within(s, issued, catalog + 1)
    BY Known DEF Within, State
  <2> QED
    BY <2>1, <2>2, Known DEF RootOK, RootTypes, NothingFromTheFuture, WritersGoOn, EngineGoesOn, BridgeGoesOn
<1> QED
  BY <1>1, <1>2, EnsureStep, EngineStep, BridgeStep DEF SR!Next

\* A writer whose save is over has written what it had prepared.
LEMMA SaveIsWhole ==
  ASSUME RootOK, [SR!Next]_rootVars, NEW w \in Engines \cup Bridges, SR!Saves(w) PROVE root' = op[w].next
<1>1. op' # op
  BY DEF SR!Saves
<1>2. \A v \in Engines \cup Bridges : (\E o : SR!At(v, o)) => v = w
  BY DEF SR!Saves, SR!At, RootOK, RootTypes
<1>3. \A e \in Engines : e \in Engines \cup Bridges
  OBVIOUS
<1>4. \A b \in Bridges : b \in Engines \cup Bridges
  OBVIOUS
<1>5. ASSUME NEW e \in Engines, NEW kind, SR!EngineEnsure(e, kind) PROVE FALSE
  BY <1>2, <1>3, <1>5 DEF SR!EngineEnsure, SR!Saves
<1>6. ASSUME NEW e \in Engines, SR!EngineLocks(e) \/ SR!EngineSets(e) \/ SR!EngineLeaves(e) \/ SR!EngineFetches(e)
      PROVE FALSE
  BY <1>2, <1>3, <1>6 DEF SR!EngineLocks, SR!EngineSets, SR!EngineLeaves, SR!EngineFetches, SR!Saves
<1>7. ASSUME NEW e \in Engines, SR!EngineSaves(e) \/ SR!EngineSyncs(e) PROVE root' = op[w].next
  BY <1>2, <1>3, <1>7 DEF SR!EngineSaves, SR!EngineSyncs, SR!Save
<1>8. ASSUME NEW b \in Bridges, \/ SR!Migrate(b) \/ SR!GetProjectToken(b) \/ SR!BridgeLocks(b) \/ SR!BridgeLeaves(b)
                              \/ SR!BridgeSets(b) \/ SR!Reset(b)
      PROVE FALSE
  BY <1>1, <1>2, <1>4, <1>8 DEF SR!Migrate, SR!GetProjectToken, SR!BridgeLocks, SR!BridgeLeaves, SR!BridgeSets,
       SR!Reset, SR!Saves
<1>9. ASSUME NEW b \in Bridges, SR!Migrated(b) \/ SR!BridgeSaves(b) \/ SR!ResetSaves(b) PROVE root' = op[w].next
  BY <1>2, <1>4, <1>9 DEF SR!Migrated, SR!BridgeSaves, SR!ResetSaves, SR!Save
<1> QED
  BY <1>1, <1>5, <1>6, <1>7, <1>8, <1>9 DEF SR!Next, SR!ModelsChange, rootVars

(* Discovered models survive whatever lightbridge does to the file, and    *)
(* the token never goes back, unless a save overtakes another one or an    *)
(* engine had no token to adopt.                                           *)
THEOREM LogoutKeepsTheModels == ProvidersSpec => SharedStateSurvives
<1>1. ProvidersInit => RootOK
  <2> SUFFICES ASSUME SR!Init PROVE RootOK
    BY DEF ProvidersInit
  <2> USE SharedRootAssumption DEF SharedRootAssumption, SR!Init, SR!Writers, SR!Empty, SR!Idle, SR!NoToken, State
  <2>1. RootTypes
    BY DEF RootTypes, OpRecord
  <2>2. NothingFromTheFuture
    BY DEF NothingFromTheFuture, Within
  <2>3. WritersGoOn
    BY DEF WritersGoOn, EngineGoesOn, BridgeGoesOn
  <2> QED
    BY <2>1, <2>2, <2>3 DEF RootOK
<1>2. RootOK /\ [ProvidersNext]_allVars => RootOK'
  BY StepOfEach, RootStep
<1>3. RootOK /\ [ProvidersNext]_allVars =>
        [\A w \in SR!Writers :
           /\ SR!Saves(w) /\ op[w].base = root
           /\ w \in Bridges \/ SR!Token # SR!NoToken
           => /\ root'.models >= SR!Loaded.models
              /\ root'.token = SR!NoToken \/ root'.token >= SR!Token]_(SR!rootVars)
  <2> SUFFICES ASSUME RootOK, [ProvidersNext]_allVars, NEW w \in Engines \cup Bridges,
                      SR!Saves(w), op[w].base = root, w \in Bridges \/ SR!Token # SR!NoToken
               PROVE /\ root'.models >= SR!Loaded.models
                     /\ root'.token = SR!NoToken \/ root'.token >= SR!Token
    BY DEF SR!Writers
  <2>1. root' = op[w].next /\ root' \in State
    BY StepOfEach, SaveIsWhole, Known
  <2>2. op[w].pc \in {"save", "synced", "migrate", "reset"}
    BY DEF SR!Saves
  <2>3. CASE root = Nothing
    BY <2>1, <2>3 DEF SR!Loaded, SR!Token, SR!Empty, SR!NoToken, State
  <2>4. CASE root # Nothing /\ w \in Engines
    <3>1. root.token # SR!NoToken /\ w \notin Bridges
      BY <2>4, SharedRootAssumption DEF SharedRootAssumption, SR!Token
    <3>2. EngineGoesOn(op[w], state[w])
      BY <2>4, Known
    <3> QED
      BY <2>1, <2>2, <2>4, <3>1, <3>2 DEF EngineGoesOn, SR!Loaded, SR!Token, SR!NoToken, NoToken
  <2>5. CASE root # Nothing /\ w \in Bridges
    <3>1. BridgeGoesOn(op[w])
      BY <2>5, Known
    <3> QED
      BY <2>1, <2>2, <2>5, <3>1 DEF BridgeGoesOn, SR!Loaded, SR!Token, SR!NoToken, NoToken
  <2> QED
    BY <2>3, <2>4, <2>5
<1> QED
  BY <1>1, <1>2, <1>3, PTL DEF ProvidersSpec, SharedStateSurvives, SR!SharedStateSurvives
=============================================================================
