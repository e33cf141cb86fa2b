------------------------------ MODULE RepoAuth ------------------------------
(***************************************************************************)
(* opencode-repo-auth: the config hook builds a RepoAuthPlugin per managed *)
(* provider and warms it up; chat.headers asks it for a project token. The *)
(* token is cached on disk per project and is exchanged from the human     *)
(* root, which all plugins share; callers that miss the cache share the    *)
(* exchange of their plugin.                                               *)
(*                                                                         *)
(* Of the runtime of the human root (module TokenRuntime) its outcomes are *)
(* kept: one login at a time, a refresh that is answered or refused.       *)
(***************************************************************************)
EXTENDS Integers, Functions

CONSTANTS
  Chats,        \* the calls of chat.headers
  Providers,
  Configs,      \* what the host configures: sequences of provider entries
  MaxBuilds,    \* bound: runtimes built
  MaxResets,    \* bound: resets
  None

VARIABLES
  plugins,      \* pluginByProvider: the plugins of the managed providers
  signature,    \* of the configuration they were built from
  builds,       \* runtimes built so far
  exchanges,    \* the inFlightExchange of each plugin, by the caller that runs it
  call,         \* where each caller is
  human,        \* human.json: the reset it survived, and whether its access token is valid
  project,      \* human-<hash(projectId)>.json per project
  resets,       \* reset() calls so far
  resetting,    \* the root is removed, the exchanged tokens are not yet
  crossed       \* history: an exchange was under way across a reset

repoVars == <<plugins, signature, builds, exchanges, call, human, project,
              resets, resetting, crossed>>

Callers == Chats \cup Providers        \* a provider calls for its warmup
Projects == (UNION {{e.project : e \in Range(config)} : config \in Configs}) \ {None}

Calling == [pc |-> "idle", plugin |-> None, token |-> None, subject |-> None, leader |-> None]

Init ==
  /\ plugins = {} /\ signature = {} /\ builds = 0
  /\ exchanges = {}
  /\ call = [c \in Callers |-> Calling]
  /\ human = None /\ project = [p \in Projects |-> None]
  /\ resets = 0 /\ resetting = FALSE /\ crossed = FALSE

-----------------------------------------------------------------------------
(* What the parser makes of options.meta.repoAuth; a malformed block skips *)
(* its provider, and so does one that oauth2 manages.                      *)
OptsIn(e) == e.block = "valid" /\ e.project # None
OAuth2Conflict(e) == e.oauth2

(* One identity per cache: the providers of the first identity provider.   *)
ManagedProviders(config) ==
  LET optedIn == {i \in DOMAIN config : OptsIn(config[i]) /\ ~OAuth2Conflict(config[i])}
      first == CHOOSE i \in optedIn : \A j \in optedIn : i <= j
  IN  {config[i] : i \in {j \in optedIn : config[j].idp = config[first].idp}}

RuntimeSignature(managed) ==
  {[provider |-> e.provider, project |-> e.project, idp |-> e.idp] : e \in managed}

(* A configuration whose auth block the constructor rejects has no plugin. *)
Built(managed) ==
  {[build |-> builds + 1, provider |-> e.provider, project |-> e.project] :
     e \in {m \in managed : m.accepted}}

Busy(c) == call[c].pc \notin {"idle", "done", "failed"}

(* The config hook: a changed signature replaces the plugins, whose        *)
(* exchanges in flight go on, and all of them are warmed up.               *)
ConfigHook(config) ==
  LET managed == ManagedProviders(config)
      reused == signature = RuntimeSignature(managed) /\ plugins # {}
      byProvider == IF managed = {} THEN {} ELSE IF reused THEN plugins ELSE Built(managed)
      warmed == {q \in byProvider : \E e \in managed : e.provider = q.provider /\ ~e.userAuth}
  IN  /\ \A p \in Providers : ~Busy(p)
      /\ managed = {} \/ reused \/ builds < MaxBuilds
      /\ plugins' = byProvider
      /\ signature' = RuntimeSignature(managed)
      /\ builds' = IF managed = {} \/ reused THEN builds ELSE builds + 1
      /\ call' = [c \in Callers |->
           IF \E q \in warmed : q.provider = c
           THEN [Calling EXCEPT !.pc = "load",
                                !.plugin = CHOOSE q \in warmed : q.provider = c]
           ELSE call[c]]
      /\ UNCHANGED <<exchanges, human, project, resets, resetting, crossed>>

(* chat.headers; a provider that is not managed gets no header.            *)
ChatHeaders(c) ==
  /\ c \in Chats /\ call[c].pc = "idle"
  /\ \E q \in plugins : call' = [call EXCEPT ![c] = [Calling EXCEPT !.pc = "load", !.plugin = q]]
  /\ UNCHANGED <<plugins, signature, builds, exchanges, human, project, resets, resetting,
                 crossed>>

Interactive(c) == c \in Chats

LoadCached(c) ==
  /\ call[c].pc = "load"
  /\ call' = [call EXCEPT ![c] = [@ EXCEPT !.pc = "check",
                                           !.token = project[call[c].plugin.project]]]
  /\ UNCHANGED <<plugins, signature, builds, exchanges, human, project, resets, resetting,
                 crossed>>

Usable(token) == token # None /\ token.usable

InFlight(q) == {x \in exchanges : x.plugin = q}

Ended(pc) == [Calling EXCEPT !.pc = pc]

(* What the file said may be old by now; the exchange in flight is not.    *)
ReturnCached(c) ==
  /\ call[c].pc = "check" /\ call[c].token # None /\ Usable(call[c].token)
  /\ call' = [call EXCEPT ![c] = Ended("done")]
  /\ UNCHANGED <<plugins, signature, builds, exchanges, human, project, resets, resetting,
                 crossed>>

Join(c) ==
  /\ call[c].pc = "check" /\ ~Usable(call[c].token)
  /\ \E x \in InFlight(call[c].plugin) :
       call' = [call EXCEPT ![c] = [@ EXCEPT !.pc = "joined", !.leader = x.by]]
  /\ UNCHANGED <<plugins, signature, builds, exchanges, human, project, resets, resetting,
                 crossed>>

StartExchangeBesideOthers(c) ==
  /\ call[c].pc = "check" /\ ~Usable(call[c].token)
  /\ exchanges' = exchanges \cup {[plugin |-> call[c].plugin, by |-> c]}
  /\ call' = [call EXCEPT ![c].pc = "human"]
  /\ UNCHANGED <<plugins, signature, builds, human, project, resets, resetting, crossed>>

StartExchange(c) ==
  /\ call[c].pc = "check" /\ ~Usable(call[c].token)
  /\ InFlight(call[c].plugin) = {}
  /\ exchanges' = exchanges \cup {[plugin |-> call[c].plugin, by |-> c]}
  /\ call' = [call EXCEPT ![c].pc = "human"]
  /\ UNCHANGED <<plugins, signature, builds, human, project, resets, resetting, crossed>>

(* The promise of the exchange settles for c and for all who joined it.    *)
Settled(c, pc) ==
  /\ exchanges' = {x \in exchanges : x.by # c}
  /\ call' = [d \in Callers |->
       IF d = c \/ (call[d].pc = "joined" /\ call[d].leader = c) THEN Ended(pc)
       ELSE call[d]]

(* ensureHumanToken.  The login of another caller is waited for.           *)
HumanReady(c) ==
  /\ call[c].pc = "human" /\ \A d \in Callers : call[d].pc # "login"
  /\ human # None
  /\ human' = [human EXCEPT !.valid = TRUE]
  /\ call' = [call EXCEPT ![c] = [@ EXCEPT !.pc = "post", !.subject = human.era]]
  /\ UNCHANGED <<plugins, signature, builds, exchanges, project, resets, resetting, crossed>>

(* No root, or a refresh that is refused: a login, if c may open one.      *)
HumanMissing(c) ==
  /\ call[c].pc = "human" /\ \A d \in Callers : call[d].pc # "login"
  /\ human # None => ~human.valid
  /\ IF Interactive(c)
     THEN call' = [call EXCEPT ![c].pc = "login"] /\ UNCHANGED exchanges
     ELSE Settled(c, "failed")
  /\ UNCHANGED <<plugins, signature, builds, human, project, resets, resetting, crossed>>

LoggedIn(c) ==
  /\ call[c].pc = "login"
  /\ human' = [era |-> resets, valid |-> TRUE]
  /\ call' = [call EXCEPT ![c] = [@ EXCEPT !.pc = "post", !.subject = resets]]
  /\ UNCHANGED <<plugins, signature, builds, exchanges, project, resets, resetting, crossed>>

Exchanged(c) ==
  /\ call[c].pc = "post"
  /\ call' = [call EXCEPT ![c] = [@ EXCEPT !.pc = "save",
                                           !.token = [era |-> call[c].subject, usable |-> TRUE]]]
  /\ UNCHANGED <<plugins, signature, builds, exchanges, human, project, resets, resetting,
                 crossed>>

Saved(c) ==
  /\ call[c].pc = "save"
  /\ project' = [project EXCEPT ![call[c].plugin.project] = call[c].token]
  /\ Settled(c, "done")
  /\ UNCHANGED <<plugins, signature, builds, human, resets, resetting, crossed>>

(* The login, the exchange or the write of the file fails.                 *)
ExchangeFails(c) ==
  /\ call[c].pc \in {"login", "post", "save"}
  /\ Settled(c, "failed")
  /\ UNCHANGED <<plugins, signature, builds, human, project, resets, resetting, crossed>>

(* Lifetimes end, in the caches and in what callers have loaded.           *)
ProjectExpires ==
  LET aged(t) == IF t = None THEN None ELSE [t EXCEPT !.usable = FALSE]
  IN  /\ \E p \in Projects : project[p] # None /\ project[p].usable
      /\ project' = [p \in Projects |-> aged(project[p])]
      /\ call' = [c \in Callers |-> IF call[c].pc = "check"
                                    THEN [call[c] EXCEPT !.token = aged(@)] ELSE call[c]]
      /\ UNCHANGED <<plugins, signature, builds, exchanges, human, resets, resetting, crossed>>

HumanExpires ==
  /\ human # None /\ human.valid
  /\ human' = [human EXCEPT !.valid = FALSE]
  /\ UNCHANGED <<plugins, signature, builds, exchanges, call, project, resets, resetting,
                 crossed>>

(* reset(): the root first, then every exchanged token in the directory.   *)
Reset ==
  /\ ~resetting /\ resets < MaxResets
  /\ human' = None /\ resets' = resets + 1 /\ resetting' = TRUE
  /\ crossed' = (crossed \/ \E c \in Callers : call[c].pc \in {"post", "save"})
  /\ UNCHANGED <<plugins, signature, builds, exchanges, call, project>>

RemoveExchangedOfPlugins ==
  /\ resetting /\ resetting' = FALSE
  /\ project' = [p \in Projects |-> IF \E q \in plugins : q.project = p THEN None ELSE project[p]]
  /\ UNCHANGED <<plugins, signature, builds, exchanges, call, human, resets, crossed>>

RemoveExchanged ==
  /\ resetting /\ resetting' = FALSE
  /\ project' = [p \in Projects |-> None]
  /\ UNCHANGED <<plugins, signature, builds, exchanges, call, human, resets, crossed>>

Resolve(c) == LoadCached(c) \/ ReturnCached(c) \/ Join(c) \/ StartExchange(c)

Exchange(c) ==
  HumanReady(c) \/ HumanMissing(c) \/ LoggedIn(c) \/ Exchanged(c) \/ Saved(c) \/ ExchangeFails(c)

Next ==
  \/ \E config \in Configs : ConfigHook(config)
  \/ \E c \in Callers : ChatHeaders(c) \/ Resolve(c) \/ Exchange(c)
  \/ ProjectExpires \/ HumanExpires \/ Reset \/ RemoveExchanged

Spec == Init /\ [][Next]_repoVars

-----------------------------------------------------------------------------
Exchanging(c) == call[c].pc \in {"human", "login", "post", "save"}

(* "at most one exchange POST and at most one interactive prompt per       *)
(* cache-miss window" (plugin.ts:155-158): the callers of a plugin share   *)
(* one exchange, and who joined it is never left waiting for one that has  *)
(* ended, through rebuilds, resets and failures.                           *)
OneExchangePerMiss ==
  /\ \A c, d \in Callers :
       Exchanging(c) /\ Exchanging(d) /\ call[c].plugin = call[d].plugin => c = d
  /\ \A c \in Callers : call[c].pc = "joined" =>
       Exchanging(call[c].leader) /\ call[call[c].leader].plugin = call[c].plugin

(* "A bare remove of only the root would leave still-valid exchanged       *)
(* tokens on disk" (token-runtime.ts:395-397), of projects that are no     *)
(* longer configured too: after a reset every cached project token comes   *)
(* from a later login.  Only an exchange that was under way with a token   *)
(* of before is saved after it.                                            *)
NothingSurvivesReset ==
  ~resetting /\ ~crossed => \A p \in Projects : project[p] # None => project[p].era = resets
=============================================================================
