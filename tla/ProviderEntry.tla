---------------------------- MODULE ProviderEntry ----------------------------
(***************************************************************************)
(* What the config hooks of oauth2 and of lightbridge's register module do *)
(* to the provider entries of the host's configuration.  An entry is named *)
(* in pluginConfig, or it carries an extension of its own, or both; each   *)
(* pass rewrites it for the API it asks for, with a placeholder where the  *)
(* native provider wants a key.  The hooks run one after the other, on a   *)
(* configuration that is loaded anew or on the one they have rewritten.    *)
(*                                                                         *)
(* External: the host and its configuration, the token runtime.            *)
(***************************************************************************)
EXTENDS Integers

CONSTANTS
  Providers,     \* 1 .. n, in the order of Object.entries(config.provider)
  Registered,    \* the provider of lightbridge's register block
  RegisterApi,   \* its responseApi
  Configs,       \* configurations: what they say of each provider
  None

VARIABLES
  config,        \* what the user has written
  entry,         \* the entry of each provider
  managed,       \* oauth2: state.managedProviderIds
  registered,    \* lightbridge: the engine of the register module is built
  failed,        \* the last config hook of oauth2 has thrown
  propagating    \* providers whose bearer is being ensured

entryVars == <<config, entry, managed, registered, failed, propagating>>

Fresh(c) == [p \in Providers |->
  [npm |-> "user", key |-> c[p].key, base |-> c[p].base, fetch |-> "user", auth |-> c[p].auth]]

Init ==
  /\ config \in Configs /\ entry = Fresh(config)
  /\ managed = {} /\ registered = FALSE /\ failed = FALSE /\ propagating = {}

-----------------------------------------------------------------------------

ResolveProviderNpm(api) == IF api = "responses" THEN "openai" ELSE "compatible"

\* A mutation of ApplyResponsesApi: an earlier pass is not undone.
ApplyAndKeep(e, api) ==
  [e EXCEPT !.npm = ResolveProviderNpm(api), !.base = TRUE,
            !.key = IF api = "responses" /\ @ = None THEN "placeholder" ELSE @]

(* A pass of applyResponsesApiOptions over an entry.  The key of the user  *)
(* stays; our own is stamped for the Responses API and scrubbed for the    *)
(* other one.  The repair of the stream wraps what fetch there is.         *)
ApplyResponsesApi(e, api) ==
  [e EXCEPT !.npm = ResolveProviderNpm(api), !.base = TRUE,
            !.key = CASE api = "responses" /\ @ = None -> "placeholder"
                      [] api # "responses" /\ @ = "placeholder" -> None
                      [] OTHER -> @,
            !.fetch = IF api = "responses" THEN "repaired" ELSE @]

(* One pass after the other.  A list entry that misses a field is skipped; *)
(* a field of the wrong kind throws before the first entry is touched.     *)
Parsed(block) == block \in {"chat", "responses"}

ParsePluginConfigServers(c) == {p \in Providers : Parsed(c[p].listed)}
ListThrows(c) == \E p \in Providers : c[p].listed = "wrong"

Listed(c, e) == [p \in Providers |->
  IF p \in ParsePluginConfigServers(c) THEN ApplyResponsesApi(e[p], c[p].listed) ELSE e[p]]

(* The extensions are parsed in turn, and each applied before the next is  *)
(* looked at: one that throws leaves the entries before it rewritten.      *)
Reached(c) == {p \in Providers : \A q \in Providers : c[q].own = "wrong" => p < q}

ParseOAuthExtension(c, e) ==
  {p \in Reached(c) : Parsed(c[p].own) /\ e[p].base}

Extended(c, e) == [p \in Providers |->
  IF p \in ParseOAuthExtension(c, e) THEN ApplyResponsesApi(e[p], c[p].own) ELSE e[p]]

Idle == propagating = {}

(* collectManagedProviders throws out of the hook: oauth2 goes on with the *)
(* providers it had.                                                       *)
CollectThrows ==
  /\ Idle
  /\ \/ ListThrows(config) /\ UNCHANGED entry
     \/ /\ ~ListThrows(config) /\ Reached(config) # Providers
        /\ entry' = Extended(config, Listed(config, entry))
  /\ failed' = TRUE
  /\ UNCHANGED <<config, managed, registered, propagating>>

(* The two passes, and what has come out of them.                          *)
Collected(c, e) == ParsePluginConfigServers(c) \cup ParseOAuthExtension(c, Listed(c, e))

Collect ==
  /\ Idle /\ ~ListThrows(config) /\ Reached(config) = Providers
  /\ entry' = Extended(config, Listed(config, entry))
  /\ failed' = FALSE
  /\ managed' = Collected(config, entry) /\ propagating' = managed'
  /\ UNCHANGED <<config, registered>>

(* One server that validateConfig rejects is enough for the new runtime to *)
(* fail: by then all entries are written, and none of them is managed.     *)
ValidateConfigThrows ==
  /\ Idle /\ ~ListThrows(config) /\ Reached(config) = Providers
  /\ Collected(config, entry) # {}
  /\ entry' = Extended(config, Listed(config, entry))
  /\ failed' = TRUE
  /\ UNCHANGED <<config, managed, registered, propagating>>

(* The warm token is offered to later hooks, unless there is a header: one *)
(* of the user, or the one an earlier hook left on the same configuration. *)
PropagateCachedBearer(p) ==
  /\ p \in propagating /\ propagating' = propagating \ {p}
  /\ \/ entry[p].auth = None /\ entry' = [entry EXCEPT ![p].auth = "ours"]
     \/ UNCHANGED entry
  /\ UNCHANGED <<config, managed, registered, failed>>

-----------------------------------------------------------------------------

HasOAuth2Conflict(c, p) == c[p].listed # "no" \/ c[p].own # "no"

(* lightbridge leaves alone what oauth2 claims, until it has an engine.    *)
ApplyRegisterModule ==
  /\ Idle /\ (registered \/ ~HasOAuth2Conflict(config, Registered))
  /\ registered' = TRUE
  /\ entry' = [entry EXCEPT ![Registered] =
                 [ApplyResponsesApi(@, RegisterApi) EXCEPT !.fetch = entry[Registered].fetch]]
  /\ UNCHANGED <<config, managed, failed, propagating>>

(* initialize rejects: the engine stays, so the next hook does not look at *)
(* the conflict any more.                                                  *)
RegisterFails ==
  /\ Idle /\ (registered \/ ~HasOAuth2Conflict(config, Registered))
  /\ registered' = TRUE
  /\ UNCHANGED <<config, entry, managed, failed, propagating>>

(* The host loads the configuration again, edited or not.                  *)
Load ==
  /\ Idle /\ config' \in Configs /\ entry' = Fresh(config')
  /\ UNCHANGED <<managed, registered, failed, propagating>>

Next ==
  \/ Collect \/ CollectThrows \/ ValidateConfigThrows \/ ApplyRegisterModule \/ RegisterFails \/ Load
  \/ \E p \in Providers : PropagateCachedBearer(p)

Spec == Init /\ [][Next]_entryVars

-----------------------------------------------------------------------------
(* Whatever passes have gone over an entry, in whatever order: it can be   *)
(* constructed (the native provider has a key, opencode-helpers.ts:236),   *)
(* what the user has set is still there, and the placeholder sits only     *)
(* where the Responses API has won ("don't leave the fake key on the       *)
(* resulting Chat-Completions provider", 225) and, when no hook has        *)
(* thrown, a plugin manages the provider.                                  *)
PlaceholderOnlyForResponses ==
  \A p \in Providers :
    /\ entry[p].npm = "openai" => entry[p].key # None
    /\ config[p].key # None => entry[p].key = config[p].key
    /\ config[p].auth # None => entry[p].auth = config[p].auth
    /\ entry[p].key = "placeholder" =>
         /\ entry[p].npm = "openai"
         /\ failed \/ p \in managed \/ (registered /\ p = Registered)
=============================================================================
