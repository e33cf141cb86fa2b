------------------------------ MODULE Plugins ------------------------------
(***************************************************************************)
(* The components that keep their state to themselves: plugins of          *)
(* OpenCode, and what the browser extension does for an agent.  They share *)
(* no variable of the code, so one of them moves and the others stay as    *)
(* they began.                                                             *)
(***************************************************************************)
EXTENDS Integers

CONSTANTS
  None, Nothing,
  Sessions, Messages, ToolCalls, Permissions, Owner, Filtered, MaxLines,     \* Recorder
  Hosts, Tasks, Ttl, MaxClock, MaxVersion,                                   \* ModelsInfo
  Chats, Providers, Configs, MaxBuilds, MaxResets,                           \* RepoAuth
  OAuth, Lightbridge, Signatures,                                            \* Schedulers
  Commands, Groups, MaxRebuilds,                                             \* TabGroups
  Requests,                                                                  \* Feedback
  Tabs

\* Messages, calls and permissions are told apart, and each is of a session.
ASSUME RecorderAssumption ==
  /\ Messages \cap ToolCalls = {} /\ Messages \cap Permissions = {} /\ ToolCalls \cap Permissions = {}
  /\ Owner \in [Messages \cup ToolCalls \cup Permissions -> Sessions]
  /\ MaxLines \in Nat
\* The server has a catalog.
ASSUME ModelsAssumption == MaxVersion \in Nat \ {0}
\* The providers are those the host configures.
ASSUME RepoAuthAssumption ==
  \A config \in Configs : \A i \in DOMAIN config : config[i].provider \in Providers
\* None is no token of a project.
ASSUME NoneAssumption == None \notin [era : Nat, usable : BOOLEAN]
\* None is no plugin.
ASSUME SchedulersAssumption == None \notin OAuth \cup Lightbridge
\* None is no group, and no command.
ASSUME TabGroupsAssumption ==
  /\ MaxRebuilds \in Nat /\ None \notin Groups
  /\ None \notin [at : {"loading", "navigating", "closing", "attaching", "acting"},
                  gen : 0 .. MaxRebuilds, group : Groups, tab : Tabs \cup {None},
                  closing : SUBSET Tabs, left : SUBSET Tabs, copy : SUBSET Tabs]
\* None is no request.
ASSUME FeedbackAssumption == None \notin Requests

VARIABLES plugin,
  kept, spans, counted, lines, host,
  clock, catalog, memory, disk, task, handles, running,
  plugins, signature, builds, exchanges, call, human, project, resets, resetting, crossed,
  hook, engine, started, owner, owns, sched, fading,
  gen, kind, rebuild, rows, tabsOf, db, home, alive, opened, attached, debugged, forgetting,
    command, overtaken, clobbered,
  state, tab, surface, raise, attention, badge, painted, keys, session, panelOnClick, answers,
    cancellers, late, takenOver

recorderVars == <<kept, spans, counted, lines, host>>
modelsVars   == <<clock, catalog, memory, disk, task, handles, running>>
repoVars     == <<plugins, signature, builds, exchanges, call, human, project,
                  resets, resetting, crossed>>
engineVars   == <<hook, engine, started, owner, owns, sched, fading>>
tabVars      == <<gen, kind, rebuild, rows, tabsOf, db, home, alive, opened, attached, debugged,
                  forgetting, command, overtaken, clobbered>>
feedbackVars == <<state, tab, surface, raise, attention, badge, painted, keys, session,
                  panelOnClick, answers, cancellers, late, takenOver>>
pluginVars   == <<recorderVars, modelsVars, repoVars, engineVars>>
vars         == <<plugin, pluginVars, tabVars, feedbackVars>>

-----------------------------------------------------------------------------
RE == INSTANCE Recorder
MI == INSTANCE ModelsInfo
RA == INSTANCE RepoAuth
SC == INSTANCE Schedulers WITH signature <- started
TG == INSTANCE TabGroups
FB == INSTANCE Feedback

Init ==
  /\ plugin \in {"recorder", "models-info", "repo-auth", "provider-sync", "tabs", "feedback"}
  /\ RE!Init /\ MI!Init /\ RA!Init /\ SC!Init /\ TG!Init /\ FB!Init

PluginNext ==
  \/ plugin = "recorder" /\ RE!Next /\ UNCHANGED <<modelsVars, repoVars, engineVars>>
  \/ plugin = "recorder" /\ host.disposed /\ UNCHANGED pluginVars
  \/ plugin = "models-info" /\ MI!Next /\ UNCHANGED <<recorderVars, repoVars, engineVars>>
  \/ plugin = "repo-auth" /\ RA!Next /\ UNCHANGED <<recorderVars, modelsVars, engineVars>>
  \/ plugin = "provider-sync" /\ SC!Next /\ UNCHANGED <<recorderVars, modelsVars, repoVars>>

Next ==
  /\ UNCHANGED plugin
  /\ \/ PluginNext /\ UNCHANGED <<tabVars, feedbackVars>>
     \/ plugin = "tabs" /\ TG!Next /\ UNCHANGED <<pluginVars, feedbackVars>>
     \/ plugin = "feedback" /\ FB!Next /\ UNCHANGED <<pluginVars, tabVars>>
     \/ plugin = "feedback" /\ (\A r \in Requests : state[r] = "done") /\ UNCHANGED <<pluginVars, tabVars, feedbackVars>>

Spec == Init /\ [][Next]_vars

-----------------------------------------------------------------------------
CountedOnce == RE!CountedOnce
NoSpanIsLost == RE!NoSpanIsLost
NothingOfADeletedSession == RE!NothingOfADeletedSession

FetchedAtIsHonest == MI!FetchedAtIsHonest
OneScheduler == MI!OneScheduler /\ SC!OneScheduler

OneExchangePerMiss == RA!OneExchangePerMiss
NothingSurvivesReset == RA!NothingSurvivesReset

BannerOnlyWhileDriven == TG!BannerOnlyWhileDriven
OpenTabsStayTracked == TG!OpenTabsStayTracked

SurfacesEndWithTheirRequest == FB!SurfacesEndWithTheirRequest
=============================================================================
