----------------------------- MODULE Schedulers -----------------------------
(***************************************************************************)
(* opencode-provider-sync: who polls a provider's models.  The oauth2 and  *)
(* the lightbridge plugins of all the workspaces of one process build      *)
(* engines over one cache file; the engines settle by a registry of owners *)
(* in the process which of them warms the cache up and keeps polling.      *)
(*                                                                         *)
(* One provider.  The host runs the config hook of a plugin again when the *)
(* first one is over; oauth2 then may build another engine, lightbridge    *)
(* keeps the one it has.                                                   *)
(***************************************************************************)
CONSTANTS
  OAuth,        \* the oauth2 plugins, one for each workspace
  Lightbridge,  \* the lightbridge plugins with a register module
  Signatures,   \* the settings a provider may have
  None

VARIABLES
  hook,        \* where the config hook of each plugin is
  engine,      \* what its engine was built for
  signature,   \* what it was last started for
  owner,       \* schedulerOwnersByKey, of the one cache file
  owns,        \* runtime.ownsScheduler of each engine
  sched,       \* its scheduler: "none", "armed", or "running" a sync
  fading       \* the plugins with a sync of a scheduler that was stopped

schedulerVars == <<hook, engine, signature, owner, owns, sched, fading>>
Registrars == OAuth \union Lightbridge

Init ==
  /\ hook = [p \in Registrars |-> "idle"]
  /\ engine = [p \in Registrars |-> None] /\ signature = [p \in Registrars |-> None]
  /\ owner = None /\ owns = [p \in Registrars |-> FALSE]
  /\ sched = [p \in Registrars |-> "none"] /\ fading = {}

-----------------------------------------------------------------------------
(* stop(), of the engine the plugin has, if any.                           *)
Stop(p) ==
  /\ sched' = [sched EXCEPT ![p] = "none"]
  /\ fading' = IF sched[p] = "running" THEN fading \union {p} ELSE fading
  /\ owner' = IF owns[p] /\ owner = p THEN None ELSE owner
  /\ owns' = [owns EXCEPT ![p] = FALSE]

(* The config hook of oauth2: an engine for other settings is replaced.    *)
ConfigureOAuth(p, s) ==
  /\ hook[p] = "idle"
  /\ IF engine[p] # None /\ signature[p] = s
     THEN /\ hook' = [hook EXCEPT ![p] = "merge"]
          /\ UNCHANGED <<engine, owner, owns, sched, fading>>
     ELSE /\ Stop(p)
          /\ engine' = [engine EXCEPT ![p] = s]
          /\ hook' = [hook EXCEPT ![p] = "initialize"]
  /\ UNCHANGED signature

(* No provider is managed any more.                                        *)
ConfigureNone(p) ==
  /\ hook[p] = "idle" /\ Stop(p)
  /\ engine' = [engine EXCEPT ![p] = None] /\ signature' = [signature EXCEPT ![p] = None]
  /\ UNCHANGED hook

(* The config hook of lightbridge: what oauth2 manages too is left to it,  *)
(* unless lightbridge has an engine already.                               *)
ConfigureRegister(p, s, conflict) ==
  /\ hook[p] = "idle" /\ (conflict => engine[p] # None)
  /\ engine' = [engine EXCEPT ![p] = IF @ = None THEN s ELSE @]
  /\ hook' = [hook EXCEPT ![p] = IF signature[p] = None THEN "initialize" ELSE "merge"]
  /\ UNCHANGED <<signature, owner, owns, sched, fading>>

-----------------------------------------------------------------------------
(* initialize() reads the cache, and start() claims the provider.          *)
Started(p) ==
  /\ signature' = [signature EXCEPT ![p] = engine[p]]
  /\ hook' = [hook EXCEPT ![p] = "merge"]

Initialize(p) ==
  /\ hook[p] = "initialize"
  /\ IF owner \in {None, p}
     THEN /\ owner' = p /\ owns' = [owns EXCEPT ![p] = TRUE]
          /\ hook' = [hook EXCEPT ![p] = "warmup"]
          /\ UNCHANGED signature
     ELSE Started(p) /\ UNCHANGED <<owner, owns>>
  /\ UNCHANGED <<engine, sched, fading>>

(* The cache cannot be read: the hook throws.                              *)
InitializeFails(p) ==
  /\ hook[p] = "initialize"
  /\ hook' = [hook EXCEPT ![p] = "idle"]
  /\ UNCHANGED <<engine, signature, owner, owns, sched, fading>>

(* The first sync is over, or has failed; polling starts either way.       *)
Warmup(p) ==
  /\ hook[p] = "warmup"
  /\ sched' = [sched EXCEPT ![p] = "armed"]
  /\ Started(p)
  /\ UNCHANGED <<engine, owner, owns, fading>>

(* Models and bearer are in the host's config.                             *)
Merge(p) ==
  /\ hook[p] = "merge"
  /\ hook' = [hook EXCEPT ![p] = "idle"]
  /\ UNCHANGED <<engine, signature, owner, owns, sched, fading>>

-----------------------------------------------------------------------------
Tick(p) ==
  /\ sched[p] = "armed"
  /\ sched' = [sched EXCEPT ![p] = "running"]
  /\ UNCHANGED <<hook, engine, signature, owner, owns, fading>>

(* The sync is over or has failed: the next tick is armed, but for a       *)
(* stopped scheduler nothing comes of it.                                  *)
Ran(p) ==
  /\ \/ sched[p] = "running" /\ sched' = [sched EXCEPT ![p] = "armed"] /\ UNCHANGED fading
     \/ p \in fading /\ fading' = fading \ {p} /\ UNCHANGED sched
  /\ UNCHANGED <<hook, engine, signature, owner, owns>>

Next ==
  \/ \E p \in OAuth : ConfigureNone(p) \/ \E s \in Signatures : ConfigureOAuth(p, s)
  \/ \E p \in Lightbridge, s \in Signatures, conflict \in BOOLEAN : ConfigureRegister(p, s, conflict)
  \/ \E p \in Registrars :
       Initialize(p) \/ InitializeFails(p) \/ Warmup(p) \/ Merge(p) \/ Tick(p) \/ Ran(p)

Spec == Init /\ [][Next]_schedulerVars

-----------------------------------------------------------------------------
(* Two engines that poll one provider is what the registry is there to     *)
(* prevent (engine.ts:103-127): whoever polls owns the provider, and the   *)
(* owner polls or is about to, so that a stopped engine leaves nothing     *)
(* that would keep the others from it.                                     *)
OneScheduler ==
  \A p \in Registrars :
    /\ owns[p] <=> owner = p
    /\ owner = p <=> sched[p] # "none" \/ hook[p] = "warmup"
=============================================================================
