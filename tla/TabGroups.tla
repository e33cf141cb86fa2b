------------------------------ MODULE TabGroups ------------------------------
(***************************************************************************)
(* browser-extension: the background worker carries out the commands of    *)
(* the agents.  A registry keeps the tabs of every group and mirrors them  *)
(* into IndexedDB; an executor drives a tab through the browser's debugger *)
(* (CDP) or by scripts in the page.  rebuild() replaces both.              *)
(*                                                                         *)
(* A rebuild makes a generation; what was begun before goes on with the    *)
(* registry and the session of its own.  Requests to the browser take      *)
(* effect in the order they are sent; their callbacks come later.  Which   *)
(* tab of a group is active, and what a command does inside the page, are  *)
(* left out: a command without a tab drives any tab of its group.          *)
(***************************************************************************)
EXTENDS Naturals

CONSTANTS
  Commands,     \* bounds the commands in flight
  Tabs,         \* bounds the tabs ever opened
  Groups,
  MaxRebuilds,
  None

VARIABLES
  gen, kind,    \* the generation, and its executor: "cdp" or "content"
  rebuild,      \* "idle", "releasing" or "hydrating"
  rows,         \* the rows hydrate() has still to take over
  tabsOf,       \* the registry of each generation
  db,           \* the groups in IndexedDB
  home,         \* the group a tab was created for
  alive,        \* the tabs that exist
  opened,       \* the tabs whose open() has returned
  attached,     \* the tabs each generation's session holds to be attached
  debugged,     \* the tabs with the "being debugged" banner
  forgetting,   \* the onRemoved events: pending, or what forget() works with
  command,      \* the commands in flight
  overtaken,    \* tabs a command was driving when control was released
  clobbered     \* groups that were written from a copy or a registry out of date

tabVars == <<gen, kind, rebuild, rows, tabsOf, db, home, alive, opened, attached, debugged,
             forgetting, command, overtaken, clobbered>>
registryVars == <<tabsOf, db, clobbered>>
sessionVars == <<attached, debugged, overtaken>>
rebuildVars == <<gen, kind, rebuild, rows>>
browserVars == <<home, alive, opened>>

Generations == 0 .. MaxRebuilds
NoTabs == [g \in Groups |-> {}]

Init ==
  /\ gen = 0 /\ kind = "cdp" /\ rebuild = "idle" /\ rows = NoTabs
  /\ tabsOf = [n \in Generations |-> NoTabs] /\ db = NoTabs
  /\ home = [t \in Tabs |-> None] /\ alive = {} /\ opened = {}
  /\ attached = [n \in Generations |-> {}] /\ debugged = {}
  /\ forgetting = [t \in Tabs |-> [at |-> "none"]]
  /\ command = [c \in Commands |-> None]
  /\ overtaken = {} /\ clobbered = {}

-----------------------------------------------------------------------------
Begin(c, at, g, t) ==
  command' = [command EXCEPT ![c] = [at |-> at, gen |-> gen, group |-> g, tab |-> t,
                                     closing |-> {}, left |-> {}, copy |-> {}]]
Settle(c) == command' = [command EXCEPT ![c] = None]
At(c, at) == command[c] # None /\ command[c].at = at
Free(c) == command[c] = None

(* persist(), or the deletion of a group without tabs, in generation n;    *)
(* "meant" is what the group would be had nothing come in between.  A      *)
(* registry is out of date once it was replaced, and until hydrate() has   *)
(* taken the group over: what it writes then is not all of the group.      *)
Persist(n, g, tabs, meant) ==
  /\ tabsOf' = [tabsOf EXCEPT ![n][g] = tabs]
  /\ db' = [db EXCEPT ![g] = tabs]
  /\ clobbered' = IF n # gen \/ tabs # meant \/ rows[g] # {}
                   THEN clobbered \union {g} ELSE clobbered

(* A tab is gone: the debugger with it, and onRemoved is on its way.       *)
Remove(t) ==
  /\ alive' = alive \ {t}
  /\ debugged' = debugged \ {t} /\ overtaken' = overtaken \ {t}
  /\ forgetting' = IF t \in alive THEN [forgetting EXCEPT ![t].at = "removed"] ELSE forgetting

-----------------------------------------------------------------------------
(* open(): the tab is created, and joins its group once it has loaded.     *)
OpenTab(c, g, t) ==
  /\ Free(c) /\ home[t] = None
  /\ home' = [home EXCEPT ![t] = g] /\ alive' = alive \union {t}
  /\ Begin(c, "loading", g, t)
  /\ UNCHANGED <<rebuildVars, registryVars, opened, sessionVars, forgetting>>

LoadedAlone(c) ==
  /\ At(c, "loading")
  /\ LET r == command[c] IN
       IF r.tab \in alive
       THEN /\ Persist(r.gen, r.group, {r.tab}, {r.tab})
            /\ opened' = opened \union {r.tab}
       ELSE UNCHANGED <<registryVars, opened>>
  /\ Settle(c)
  /\ UNCHANGED <<rebuildVars, home, alive, sessionVars, forgetting>>

Loaded(c) ==
  /\ At(c, "loading")
  /\ LET r == command[c]
         tabs == tabsOf[r.gen][r.group] \union {r.tab}
     IN IF r.tab \in alive
        THEN Persist(r.gen, r.group, tabs, tabs) /\ opened' = opened \union {r.tab}
        ELSE UNCHANGED <<registryVars, opened>>
  /\ Settle(c)
  /\ UNCHANGED <<rebuildVars, home, alive, sessionVars, forgetting>>

(* navigate(), back(), forward(), reload(), activate() ...                 *)
Navigate(c, g, t) ==
  /\ Free(c) /\ t \in tabsOf[gen][g] /\ t \in alive
  /\ Begin(c, "navigating", g, t)
  /\ UNCHANGED <<rebuildVars, registryVars, browserVars, sessionVars, forgetting>>

(* ... write the group as it is by then.                                   *)
Navigated(c) ==
  /\ At(c, "navigating")
  /\ LET r == command[c]
         tabs == tabsOf[r.gen][r.group]
     IN IF r.tab \in alive /\ tabs # {}
        THEN Persist(r.gen, r.group, tabs, tabs)
        ELSE UNCHANGED registryVars
  /\ Settle(c)
  /\ UNCHANGED <<rebuildVars, browserVars, sessionVars, forgetting>>

(* close(): one tab or the group, from a copy of the group.                *)
Close(c, g) ==
  /\ Free(c) /\ tabsOf[gen][g] # {}
  /\ \E left \in {tabsOf[gen][g]} \union {{t} : t \in tabsOf[gen][g]} :
       command' = [command EXCEPT ![c] = [at |-> "closing", gen |-> gen, group |-> g, tab |-> None,
                                          closing |-> left, left |-> left, copy |-> tabsOf[gen][g]]]
  /\ UNCHANGED <<rebuildVars, registryVars, browserVars, sessionVars, forgetting>>

CloseTab(c, t) ==
  /\ At(c, "closing") /\ t \in command[c].left
  /\ attached' = [attached EXCEPT ![command[c].gen] = @ \ {t}]
  /\ Remove(t)
  /\ command' = [command EXCEPT ![c].left = @ \ {t}]
  /\ UNCHANGED <<rebuildVars, registryVars, home, opened>>

Closed(c) ==
  /\ At(c, "closing") /\ command[c].left = {}
  /\ LET r == command[c]
     IN Persist(r.gen, r.group, r.copy \ r.closing, tabsOf[r.gen][r.group] \ r.closing)
  /\ Settle(c)
  /\ UNCHANGED <<rebuildVars, browserVars, sessionVars, forgetting>>

-----------------------------------------------------------------------------
(* attach(): a tab that has a debugger, of whatever session, refuses.      *)
Attach(c, r) ==
  IF r.tab \in attached[r.gen]
  THEN command' = [command EXCEPT ![c] = [r EXCEPT !.at = "acting"]] /\ UNCHANGED sessionVars
  ELSE IF r.tab \in debugged \/ r.tab \notin alive
  THEN Settle(c) /\ UNCHANGED sessionVars
  ELSE /\ debugged' = debugged \union {r.tab}
       /\ overtaken' = IF r.gen # gen \/ rebuild = "releasing"
                       THEN overtaken \union {r.tab} ELSE overtaken
       /\ command' = [command EXCEPT ![c] = [r EXCEPT !.at = "attaching"]]
       /\ UNCHANGED attached

(* click, type, screenshot, ...: with CDP the tab is attached first.       *)
Drive(c, g, t) ==
  /\ Free(c) /\ kind = "cdp" /\ t \in tabsOf[gen][g]
  /\ Attach(c, [at |-> "acting", gen |-> gen, group |-> g, tab |-> t,
                closing |-> {}, left |-> {}, copy |-> {}])
  /\ UNCHANGED <<rebuildVars, registryVars, browserVars, forgetting>>

Attached(c) ==
  /\ At(c, "attaching")
  /\ LET r == command[c] IN
       attached' = [attached EXCEPT ![r.gen] = IF r.tab \in debugged THEN @ \union {r.tab} ELSE @]
  /\ command' = [command EXCEPT ![c].at = "acting"]
  /\ UNCHANGED <<rebuildVars, registryVars, browserVars, debugged, overtaken, forgetting>>

(* type() with submit presses Enter, and pressKey() attaches by itself.    *)
PressEnter(c) ==
  /\ At(c, "acting")
  /\ Attach(c, command[c])
  /\ UNCHANGED <<rebuildVars, registryVars, browserVars, forgetting>>

Acted(c) ==
  /\ At(c, "acting") /\ Settle(c)
  /\ UNCHANGED <<rebuildVars, registryVars, browserVars, sessionVars, forgetting>>

(* releaseAll() of the current executor.                                   *)
InFlight == {command[c].tab : c \in {k \in Commands : At(k, "attaching") \/ At(k, "acting")}}

ReleaseAll ==
  /\ attached' = [attached EXCEPT ![gen] = {}]
  /\ debugged' = debugged \ attached[gen]
  /\ overtaken' = (overtaken \ attached[gen]) \union (InFlight \intersect debugged')

(* The command or the frame "release"; onDisconnected does the same.       *)
Release ==
  /\ ReleaseAll
  /\ UNCHANGED <<rebuildVars, registryVars, browserVars, forgetting, command>>

-----------------------------------------------------------------------------
(* The user closes a tab, or dismisses the banner.                         *)
UserCloses(t) ==
  /\ t \in alive /\ Remove(t)
  /\ UNCHANGED <<rebuildVars, registryVars, home, opened, attached, command>>

BannerDismissed(t) ==
  /\ t \in debugged
  /\ debugged' = debugged \ {t} /\ overtaken' = overtaken \ {t}
  /\ attached' = [n \in Generations |-> attached[n] \ {t}]
  /\ UNCHANGED <<rebuildVars, registryVars, browserVars, forgetting, command>>

(* onDetach for a tab that is gone, before or after its onRemoved.         *)
OnDetach(t) ==
  /\ t \notin alive /\ \E n \in Generations : t \in attached[n]
  /\ attached' = [n \in Generations |-> attached[n] \ {t}]
  /\ UNCHANGED <<rebuildVars, registryVars, browserVars, debugged, overtaken, forgetting,
                 command>>

(* onRemoved: forget() has to detach a tab the session holds attached, and *)
(* writes the group from the copy it took before.                          *)
Forget(t) ==
  /\ forgetting[t].at = "removed"
  /\ LET in == {g \in Groups : t \in tabsOf[gen][g]} IN
       IF in = {}
       THEN forgetting' = [forgetting EXCEPT ![t] = [at |-> "none"]] /\ UNCHANGED <<registryVars, attached>>
       ELSE \E g \in in :
              IF t \in attached[gen]
              THEN /\ forgetting' = [forgetting EXCEPT ![t] =
                        [at |-> "forgetting", gen |-> gen, group |-> g, copy |-> tabsOf[gen][g]]]
                   /\ attached' = [attached EXCEPT ![gen] = @ \ {t}]
                   /\ UNCHANGED registryVars
              ELSE /\ Persist(gen, g, tabsOf[gen][g] \ {t}, tabsOf[gen][g] \ {t})
                   /\ forgetting' = [forgetting EXCEPT ![t] = [at |-> "none"]]
                   /\ UNCHANGED attached
  /\ UNCHANGED <<rebuildVars, browserVars, debugged, overtaken, command>>

Forgotten(t) ==
  /\ forgetting[t].at = "forgetting"
  /\ LET f == forgetting[t]
     IN Persist(f.gen, f.group, f.copy \ {t}, tabsOf[f.gen][f.group] \ {t})
  /\ forgetting' = [forgetting EXCEPT ![t] = [at |-> "none"]]
  /\ UNCHANGED <<rebuildVars, browserVars, sessionVars, command>>

-----------------------------------------------------------------------------
RebuildKeeping ==
  /\ rebuild = "idle" /\ gen < MaxRebuilds
  /\ rebuild' = "releasing"
  /\ UNCHANGED <<gen, kind, rows, registryVars, browserVars, sessionVars, forgetting, command>>

(* rebuild(): control is released ...                                      *)
Rebuild ==
  /\ rebuild = "idle" /\ gen < MaxRebuilds
  /\ rebuild' = "releasing"
  /\ ReleaseAll
  /\ UNCHANGED <<gen, kind, rows, registryVars, browserVars, forgetting, command>>

(* ... the executor and the registry are replaced, the rows are read ...   *)
Switch ==
  /\ rebuild = "releasing" /\ rebuild' = "hydrating"
  /\ gen' = gen + 1 /\ kind' \in {"cdp", "content"}
  /\ rows' = db
  /\ overtaken' = overtaken \union (InFlight \intersect debugged)
  /\ clobbered' = clobbered \union {g \in Groups : \E t \in Tabs :
                    forgetting[t].at = "forgetting" /\ forgetting[t].group = g}
  /\ UNCHANGED <<tabsOf, db, browserVars, attached, debugged, forgetting, command>>

(* ... and hydrate() takes over the tabs that exist.                       *)
Hydrate(g) ==
  LET tabs == rows[g] \intersect alive IN
  /\ rebuild = "hydrating" /\ rows[g] # {}
  /\ IF tabs = {}
     THEN db' = [db EXCEPT ![g] = {}] /\ UNCHANGED tabsOf
     ELSE tabsOf' = [tabsOf EXCEPT ![gen][g] = tabs] /\ UNCHANGED db
  /\ clobbered' = IF tabsOf[gen][g] \subseteq tabs THEN clobbered ELSE clobbered \union {g}
  /\ rows' = [rows EXCEPT ![g] = {}]
  /\ UNCHANGED <<gen, kind, rebuild, browserVars, sessionVars, forgetting, command>>

Hydrated ==
  /\ rebuild = "hydrating" /\ rows = NoTabs
  /\ rebuild' = "idle"
  /\ UNCHANGED <<gen, kind, rows, registryVars, browserVars, sessionVars, forgetting, command>>

Command(c) ==
  \/ \E g \in Groups, t \in Tabs : OpenTab(c, g, t) \/ Navigate(c, g, t) \/ Drive(c, g, t)
  \/ \E g \in Groups : Close(c, g)
  \/ \E t \in Tabs : CloseTab(c, t)
  \/ Loaded(c) \/ Navigated(c) \/ Closed(c) \/ Attached(c) \/ PressEnter(c) \/ Acted(c)

Next ==
  \/ \E c \in Commands : Command(c)
  \/ Release
  \/ \E t \in Tabs : UserCloses(t) \/ BannerDismissed(t) \/ OnDetach(t) \/ Forget(t) \/ Forgotten(t)
  \/ Rebuild \/ Switch \/ (\E g \in Groups : Hydrate(g)) \/ Hydrated

Spec == Init /\ [][Next]_tabVars

-----------------------------------------------------------------------------
(* Control is released "so the browser isn't left with the being debugged  *)
(* banner after the agent stops" (background.ts:73-75), and before an      *)
(* executor is replaced (:25-28): only a tab that a command was driving at *)
(* that moment keeps its banner, or one the current session can release.   *)
BannerOnlyWhileDriven ==
  \A t \in debugged \ overtaken :
    \/ t \in attached[gen]
    \/ \E c \in Commands : At(c, "attaching") /\ command[c].tab = t /\ command[c].gen = gen

(* A tab that open() has returned to an agent stays in its group, through  *)
(* rebuilds, closed neighbours and navigations (group-registry.ts:46-53),  *)
(* unless the group was written from a copy taken before another change of *)
(* it, by a command that began before a rebuild, or by one that did not    *)
(* wait for the rebuild to take the group over.                            *)
OpenTabsStayTracked ==
  \A t \in opened \intersect alive :
    t \in tabsOf[gen][home[t]] \union rows[home[t]] \/ home[t] \in clobbered
=============================================================================
