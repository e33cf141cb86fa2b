-------------------------- MODULE ExtensionProofs --------------------------
(***************************************************************************)
(* Theorems about what the browser extension does for the agents of        *)
(* Plugins: its requests for feedback, and the tabs it keeps.              *)
(***************************************************************************)
EXTENDS PluginsProofs

-----------------------------------------------------------------------------
(* Requests for feedback (Feedback).                                       *)

FeedbackTypes ==
  /\ state \in [Requests -> {"idle", "pending", "done"}]
  /\ surface \in [Requests -> {"none", "injecting", "capturing", "enabling", "shown", "panel"}]
  /\ raise \in [Requests -> {"none", "colour", "raised"}]
  /\ cancellers \subseteq FB!Pending /\ painted \subseteq FB!Pending

\* attentionCount is the number of the requests that wait.
AttentionIsCounted == IsFiniteSet(FB!Pending) /\ attention = Cardinality(FB!Pending)

\* What is still being set up is set up for a request that waits, or that settled late.
SetUpFor ==
  /\ \A r \in painted : surface[r] = "shown"
  /\ \A r \in Requests : surface[r] \in {"capturing", "enabling"} \/ raise[r] = "colour"
                         => r \in FB!Pending \cup late
  /\ \A r \in Requests : surface[r] = "enabling" => session = r \/ r \in late \/ takenOver # {}

PanelIsUsed ==
  panelOnClick => late # {} \/ takenOver # {} \/ (session \in Requests /\ surface[session] = "panel")

FeedbackOK ==
  FeedbackTypes /\ AttentionIsCounted /\ SetUpFor /\ PanelIsUsed /\ FB!SurfacesEndWithTheirRequest

LEMMA FeedbackInit == FB!Init => FeedbackOK
<1> SUFFICES ASSUME FB!Init PROVE FeedbackOK
  OBVIOUS
<1>1. FB!Pending = {}
  BY DEF FB!Init, FB!Pending
<1>2. FeedbackTypes /\ SetUpFor /\ PanelIsUsed /\ FB!SurfacesEndWithTheirRequest
  BY <1>1 DEF FB!Init, FeedbackTypes, SetUpFor, PanelIsUsed, FB!SurfacesEndWithTheirRequest
<1>3. AttentionIsCounted
  BY <1>1, FS_EmptySet DEF FB!Init, AttentionIsCounted
<1> QED
  BY <1>2, <1>3 DEF FeedbackOK

\* The last request that settles leaves none waiting.
LEMMA SettledCount ==
  ASSUME FeedbackOK, NEW r \in FB!Pending, state' = [state EXCEPT ![r] = "done"],
         FB!ClearAttention
  PROVE /\ FB!Pending' = FB!Pending \ {r} /\ AttentionIsCounted'
        /\ attention = 1 <=> FB!Pending' = {}
<1>1. FB!Pending' = FB!Pending \ {r}
  BY DEF FeedbackOK, FeedbackTypes, FB!Pending
<1>2. IsFiniteSet(FB!Pending \ {r}) /\ Cardinality(FB!Pending \ {r}) = Cardinality(FB!Pending) - 1
  BY FS_RemoveElement DEF FeedbackOK, AttentionIsCounted
<1>3. AttentionIsCounted'
  BY <1>1, <1>2 DEF FeedbackOK, AttentionIsCounted, FB!ClearAttention
<1>4. Cardinality(FB!Pending) \in Nat
  BY FS_CardinalityType DEF FeedbackOK, AttentionIsCounted
<1>5. Cardinality(FB!Pending \ {r}) = 0 <=> FB!Pending \ {r} = {}
  BY <1>2, FS_EmptySet
<1>6. attention = 1 <=> FB!Pending' = {}
  BY <1>1, <1>2, <1>4, <1>5 DEF FeedbackOK, AttentionIsCounted
<1> QED
  BY <1>1, <1>3, <1>6

LEMMA FinishStep ==
  ASSUME FeedbackOK, NEW r \in FB!Pending, FB!Finish(r), UNCHANGED <<surface, raise, takenOver>>
  PROVE FeedbackOK'
<1> USE FeedbackAssumption DEF FeedbackAssumption
<1>1. /\ FB!Pending' = FB!Pending \ {r} /\ AttentionIsCounted'
      /\ attention = 1 <=> FB!Pending' = {}
  BY SettledCount DEF FB!Finish
<1>2. /\ state' = [state EXCEPT ![r] = "done"] /\ painted' = painted \ {r}
      /\ cancellers' = cancellers \ {r} /\ badge' = (IF attention = 1 THEN FALSE ELSE badge)
      /\ late \subseteq late' /\ late' \subseteq late \cup {r}
      /\ surface[r] \in {"capturing", "enabling"} \/ raise[r] = "colour" => r \in late'
      /\ (IF session = r THEN session' = None /\ panelOnClick' = FALSE ELSE UNCHANGED <<session, panelOnClick>>)
  BY DEF FB!Finish, FB!ClearAttention, FB!ClearSession, FB!panelVars
<1>3. r \in Requests /\ FeedbackTypes
  BY DEF FB!Pending, FeedbackOK
<1>4. FeedbackTypes'
  BY <1>1, <1>2, <1>3 DEF FeedbackTypes
<1>5. SetUpFor'
  BY <1>1, <1>2, <1>3 DEF FeedbackOK, SetUpFor
<1>6. PanelIsUsed'
  BY <1>2 DEF FeedbackOK, PanelIsUsed
<1>7. FB!SurfacesEndWithTheirRequest'
  BY <1>1, <1>2, <1>3 DEF FeedbackOK, FB!SurfacesEndWithTheirRequest
<1> QED
  BY <1>1, <1>4, <1>5, <1>6, <1>7 DEF FeedbackOK

\* The steps that neither begin nor end a request.
LEMMA ShowStep ==
  ASSUME FeedbackOK, NEW r \in Requests,
         FB!BadgeText(r) \/ FB!Painted(r) \/ FB!CannotPaint(r) \/ FB!Captured(r) \/ FB!Enabled(r)
  PROVE FeedbackOK'
<1> USE FeedbackAssumption DEF FeedbackAssumption
<1> USE DEF FeedbackOK, FeedbackTypes, SetUpFor, PanelIsUsed, FB!SurfacesEndWithTheirRequest, FB!pageVars, FB!panelVars
<1>1. UNCHANGED <<state, attention, cancellers, late>>
  BY DEF FB!BadgeText, FB!Painted, FB!CannotPaint, FB!Captured, FB!Enabled
<1>2. FB!Pending' = FB!Pending /\ AttentionIsCounted'
  BY <1>1 DEF FB!Pending, AttentionIsCounted
<1>3. r \in FB!Pending <=> state[r] = "pending"
  BY DEF FB!Pending
<1>4. CASE FB!BadgeText(r)
  BY <1>1, <1>2, <1>4 DEF FB!BadgeText
<1>5. CASE FB!Painted(r)
  BY <1>1, <1>2, <1>3, <1>5 DEF FB!Painted
<1>6. CASE FB!CannotPaint(r)
  BY <1>1, <1>2, <1>3, <1>6 DEF FB!CannotPaint
<1>7. CASE FB!Captured(r)
  BY <1>1, <1>2, <1>7 DEF FB!Captured
<1>8. CASE FB!Enabled(r)
  BY <1>1, <1>2, <1>8 DEF FB!Enabled
<1> QED
  BY <1>4, <1>5, <1>6, <1>7, <1>8

LEMMA FallbackStep ==
  ASSUME FeedbackOK, NEW r \in Requests, FB!FallbackFails(r)
  PROVE FeedbackOK'
<1> USE FeedbackAssumption DEF FeedbackAssumption
<1> DEFINE s == IF surface[r] = "enabling" THEN None ELSE session
<1>1. /\ surface[r] \in {"capturing", "enabling"} /\ surface' = [surface EXCEPT ![r] = "none"]
      /\ takenOver' = (IF surface[r] = "enabling" /\ session \notin {None, r}
                       THEN takenOver \union {session} ELSE takenOver)
      /\ UNCHANGED <<tab, raise, painted, keys, answers>>
  BY DEF FB!FallbackFails, FB!pageVars
<1>2. CASE /\ state[r] = "pending" /\ state' = [state EXCEPT ![r] = "done"]
           /\ session' = (IF s = r THEN None ELSE s)
           /\ panelOnClick' = (IF s = r THEN FALSE ELSE panelOnClick)
           /\ FB!ClearAttention
           /\ cancellers' = cancellers \ {r}
           /\ late' = (IF raise[r] = "colour" THEN late \union {r} ELSE late)
  <2>1. r \in FB!Pending
    BY <1>2 DEF FB!Pending
  <2>2. /\ FB!Pending' = FB!Pending \ {r} /\ AttentionIsCounted'
        /\ attention = 1 <=> FB!Pending' = {}
    BY <1>2, <2>1, SettledCount
  <2>3. badge' = (IF attention = 1 THEN FALSE ELSE badge)
    BY <1>2 DEF FB!ClearAttention
  <2>4. r \notin painted
    BY <1>1 DEF FeedbackOK, SetUpFor
  <2>5. FeedbackTypes'
    BY <1>1, <1>2, <2>2, <2>4 DEF FeedbackOK, FeedbackTypes
  <2>6. SetUpFor'
    BY <1>1, <1>2, <2>2, <2>4 DEF FeedbackOK, FeedbackTypes, SetUpFor
  <2>7. PanelIsUsed'
    BY <1>1, <1>2 DEF FeedbackOK, FeedbackTypes, SetUpFor, PanelIsUsed, FB!SurfacesEndWithTheirRequest
  <2>8. FB!SurfacesEndWithTheirRequest'
    BY <1>1, <1>2, <2>2, <2>3, <2>4 DEF FeedbackOK, FeedbackTypes, SetUpFor, PanelIsUsed, FB!SurfacesEndWithTheirRequest
  <2> QED
    BY <2>2, <2>5, <2>6, <2>7, <2>8 DEF FeedbackOK
<1>3. CASE session' = s /\ UNCHANGED <<state, panelOnClick, attention, badge, cancellers, late>>
  <2>1. FB!Pending' = FB!Pending /\ AttentionIsCounted'
    BY <1>3 DEF FeedbackOK, FB!Pending, AttentionIsCounted
  <2>2. FeedbackTypes' /\ SetUpFor'
    BY <1>1, <1>3, <2>1 DEF FeedbackOK, FeedbackTypes, SetUpFor
  <2>3. PanelIsUsed'
    BY <1>1, <1>3 DEF FeedbackOK, FeedbackTypes, SetUpFor, PanelIsUsed, FB!SurfacesEndWithTheirRequest
  <2>4. FB!SurfacesEndWithTheirRequest'
    BY <1>1, <1>3, <2>1 DEF FeedbackOK, FeedbackTypes, SetUpFor, PanelIsUsed, FB!SurfacesEndWithTheirRequest
  <2> QED
    BY <2>1, <2>2, <2>3, <2>4 DEF FeedbackOK
<1> QED
  BY <1>2, <1>3 DEF FB!FallbackFails

LEMMA FeedbackStep == FeedbackOK /\ [FB!Next]_feedbackVars => FeedbackOK'
<1> SUFFICES ASSUME FeedbackOK, [FB!Next]_feedbackVars PROVE FeedbackOK'
  OBVIOUS
<1>1. ASSUME NEW r \in Requests, NEW t \in Tabs, FB!Start(r, t) PROVE FeedbackOK'
  <2>1. /\ state[r] = "idle" /\ state' = [state EXCEPT ![r] = "pending"] /\ attention' = attention + 1
        /\ surface' = [surface EXCEPT ![r] = "injecting"] /\ raise' = [raise EXCEPT ![r] = "colour"]
        /\ cancellers' = cancellers \union {r}
        /\ UNCHANGED <<badge, painted, session, panelOnClick, late, takenOver>>
    BY <1>1 DEF FB!Start, FB!pageVars, FB!panelVars
  <2>2. FB!Pending' = FB!Pending \cup {r} /\ r \notin FB!Pending
    BY <2>1 DEF FeedbackOK, FeedbackTypes, FB!Pending
  <2>3. AttentionIsCounted'
    BY <2>1, <2>2, FS_AddElement DEF FeedbackOK, AttentionIsCounted
  <2>4. FeedbackTypes' /\ SetUpFor'
    BY <2>1, <2>2 DEF FeedbackOK, FeedbackTypes, SetUpFor
  <2>5. PanelIsUsed' /\ FB!SurfacesEndWithTheirRequest'
    BY <2>1, <2>2 DEF FeedbackOK, FeedbackTypes, PanelIsUsed, FB!SurfacesEndWithTheirRequest
  <2> QED
    BY <2>3, <2>4, <2>5 DEF FeedbackOK
<1>2. ASSUME UNCHANGED <<state, surface, raise, attention, badge, session, panelOnClick, late, takenOver>>,
             painted' \subseteq painted, cancellers' \subseteq cancellers
      PROVE FeedbackOK'
  BY <1>2 DEF FeedbackOK, FeedbackTypes, AttentionIsCounted, SetUpFor, PanelIsUsed,
              FB!SurfacesEndWithTheirRequest, FB!Pending
<1>3. ASSUME NEW r \in Requests, FB!AnswerInPage(r) \/ FB!AnswerInPanel(r) PROVE FeedbackOK'
  BY <1>2, <1>3 DEF FB!AnswerInPage, FB!AnswerInPanel, FB!pageVars, FB!panelVars
<1>4. ASSUME NEW t \in Tabs, FB!Escape(t) \/ FB!PageNavigates(t) PROVE FeedbackOK'
  BY <1>2, <1>4 DEF FB!Escape, FB!PageNavigates, FB!panelVars
<1>5. CASE FB!Rebuild
  BY <1>2, <1>5 DEF FB!Rebuild, FB!pageVars, FB!panelVars
<1>6. CASE UNCHANGED feedbackVars
  BY <1>2, <1>6 DEF feedbackVars
<1>7. ASSUME NEW r \in Requests, FB!ResultArrives(r) PROVE FeedbackOK'
  <2>1. CASE state[r] = "pending"
    BY <1>7, <2>1, FinishStep DEF FB!ResultArrives, FB!Pending
  <2>2. CASE state[r] # "pending"
    BY <1>2, <1>7, <2>2 DEF FB!ResultArrives, FB!panelVars
  <2> QED
    BY <2>1, <2>2
<1>8. ASSUME NEW r \in Requests, FB!TimedOut(r) PROVE FeedbackOK'
  BY <1>8, FinishStep DEF FB!TimedOut, FB!Pending
<1>9. ASSUME NEW r \in Requests, FB!Cancel(r) PROVE FeedbackOK'
  BY <1>9, FinishStep DEF FB!Cancel, FeedbackOK, FeedbackTypes
<1> QED
  BY <1>1, <1>3, <1>4, <1>5, <1>6, <1>7, <1>8, <1>9, ShowStep, FallbackStep DEF FB!Next

(* What the user sees belongs to a request that waits (feedback.ts:7-8).   *)
THEOREM SurfacesAreTornDown == Spec => []SurfacesEndWithTheirRequest
<1>1. Init => FeedbackOK
  BY FeedbackInit DEF Init
<1>2. FeedbackOK /\ [Next]_vars => FeedbackOK'
  BY FeedbackStep, StepOfEach
<1>3. FeedbackOK => SurfacesEndWithTheirRequest
  BY DEF FeedbackOK, SurfacesEndWithTheirRequest
<1> QED
  BY <1>1, <1>2, <1>3, PTL DEF Spec

-----------------------------------------------------------------------------
(* The registry of tabs and the debugger sessions (TabGroups).             *)

CommandRecord ==
  [at : {"loading", "navigating", "closing", "attaching", "acting"}, gen : 0 .. MaxRebuilds,
   group : Groups, tab : Tabs \cup {None}, closing : SUBSET Tabs, left : SUBSET Tabs,
   copy : SUBSET Tabs]

\* An onRemoved that is not there, that is on its way, or that forget() works on.
Forgettings ==
  [at : {"none", "removed"}] \cup
  [at : {"forgetting"}, gen : 0 .. MaxRebuilds, group : Groups, copy : SUBSET Tabs]

\* The tabs that were ever created.
Known == {t \in Tabs : home[t] \in Groups}

BrowserOK ==
  /\ home \in [Tabs -> Groups \cup {None}]
  /\ alive \subseteq Known /\ opened \subseteq Known /\ debugged \subseteq alive
  /\ attached \in [0 .. MaxRebuilds -> SUBSET Tabs]
  /\ forgetting \in [Tabs -> Forgettings]

\* A tab whose removal is reported is gone, and only tabs that were created are kept.
RemovedAreGone ==
  \A t \in Tabs : /\ forgetting[t].at # "none" => t \in Known \ alive
                  /\ forgetting[t].at = "forgetting" => forgetting[t].copy \subseteq Known

RegistryOK ==
  /\ gen \in 0 .. MaxRebuilds /\ (rebuild = "releasing" => gen < MaxRebuilds)
  /\ tabsOf \in [0 .. MaxRebuilds -> [Groups -> SUBSET Tabs]]
  /\ db \in [Groups -> SUBSET Tabs] /\ rows \in [Groups -> SUBSET Tabs]
  /\ \A n \in 0 .. MaxRebuilds, g \in Groups : tabsOf[n][g] \subseteq Known
  /\ \A g \in Groups : db[g] \subseteq Known /\ rows[g] \subseteq Known

\* A tab loads for the group it was created for, and one that close() is done with is gone.
IsSound(r) ==
  /\ r \in CommandRecord
  /\ r.closing \subseteq Known /\ r.copy \subseteq Known
  /\ r.at # "closing" => r.tab \in Known
  /\ r.at = "loading" => home[r.tab] = r.group
  /\ r.at = "closing" => (r.closing \ r.left) \cap alive = {}

CommandsOK ==
  /\ command \in [Commands -> CommandRecord \cup {None}]
  /\ \A c \in Commands : command[c] # None => IsSound(command[c])

\* While the executor is about to be replaced, nothing but an overtaken tab has its banner.
ReleasedIsOvertaken == rebuild = "releasing" => debugged \subseteq overtaken

\* IndexedDB mirrors the registry, which is what the next one starts from.
Mirrored == \A t \in opened \cap alive : t \in db[home[t]] \/ home[t] \in clobbered

TabTypes == BrowserOK /\ RemovedAreGone /\ RegistryOK /\ CommandsOK
BannerOK == ReleasedIsOvertaken /\ TG!BannerOnlyWhileDriven
TrackingOK == Mirrored /\ TG!OpenTabsStayTracked

TabGroupsOK == TabTypes /\ BannerOK /\ TrackingOK

LEMMA TabGroupsInit == TG!Init => TabGroupsOK
<1> USE TabGroupsAssumption DEF TabGroupsAssumption
<1> SUFFICES ASSUME TG!Init PROVE TabGroupsOK
  OBVIOUS
<1> USE DEF TG!Init, TG!NoTabs, TG!Generations
<1>1. BrowserOK /\ RemovedAreGone
  BY DEF BrowserOK, RemovedAreGone, Known, Forgettings
<1>2. RegistryOK
  BY DEF RegistryOK
<1>3. CommandsOK
  BY DEF CommandsOK
<1>4. BannerOK /\ TrackingOK
  BY DEF BannerOK, ReleasedIsOvertaken, TG!BannerOnlyWhileDriven, TrackingOK, Mirrored,
         TG!OpenTabsStayTracked
<1> QED
  BY <1>1, <1>2, <1>3, <1>4 DEF TabGroupsOK, TabTypes

-----------------------------------------------------------------------------
(* What the parts of a step do.                                            *)

\* A command's record is replaced; the tabs that exist may become fewer.
LEMMA CommandStep ==
  ASSUME TabTypes, NEW c \in Commands, NEW r, r = None \/ IsSound(r),
         command' = [command EXCEPT ![c] = r], home' = home, alive' \subseteq alive
  PROVE CommandsOK'
<1>1. Known' = Known
  BY DEF Known
<1>2. r \in CommandRecord \cup {None} /\ command \in [Commands -> CommandRecord \cup {None}]
  BY DEF TabTypes, CommandsOK, IsSound
<1>3. \A k \in Commands : command'[k] = IF k = c THEN r ELSE command[k]
  BY <1>2
<1>4. ASSUME NEW k \in Commands, command'[k] # None PROVE IsSound(command'[k])
  BY <1>3, <1>4 DEF TabTypes, CommandsOK
<1>5. ASSUME NEW q, IsSound(q)
      PROVE /\ q \in CommandRecord /\ q.closing \subseteq Known' /\ q.copy \subseteq Known'
            /\ q.at # "closing" => q.tab \in Known'
            /\ q.at = "loading" => home'[q.tab] = q.group
            /\ q.at = "closing" => (q.closing \ q.left) \cap alive' = {}
  BY <1>1, <1>5 DEF IsSound
<1> QED
  BY <1>2, <1>4, <1>5 DEF CommandsOK, IsSound, CommandRecord

LEMMA CommandsKept ==
  ASSUME TabTypes, command' = command, home' = home, alive' \subseteq alive
  PROVE CommandsOK'
<1>1. Known' = Known
  BY DEF Known
<1> QED
  BY <1>1 DEF TabTypes, CommandsOK, IsSound, CommandRecord

LEMMA RegistryKept ==
  ASSUME TabTypes, UNCHANGED <<gen, rebuild, rows, tabsOf, db, home>>
  PROVE RegistryOK'
  BY DEF TabTypes, RegistryOK, Known

\* persist() writes a group of one registry, and its mirror.
LEMMA PersistStep ==
  ASSUME TabTypes, NEW n \in 0 .. MaxRebuilds, NEW g \in Groups, NEW tabs, NEW meant,
         tabs \subseteq Known, TG!Persist(n, g, tabs, meant), UNCHANGED <<gen, rebuild, rows, home>>
  PROVE /\ RegistryOK'
        /\ \A m \in 0 .. MaxRebuilds, h \in Groups :
             tabsOf'[m][h] = IF m = n /\ h = g THEN tabs ELSE tabsOf[m][h]
        /\ \A h \in Groups : db'[h] = IF h = g THEN tabs ELSE db[h]
        /\ clobbered \subseteq clobbered'
        /\ (n = gen /\ tabs = meant /\ rows[g] = {}) \/ g \in clobbered'
<1> DEFINE regn == [tabsOf[n] EXCEPT ![g] = tabs]
<1>1. Known' = Known /\ tabs \in SUBSET Tabs
  BY DEF Known
<1>2. /\ tabsOf \in [0 .. MaxRebuilds -> [Groups -> SUBSET Tabs]] /\ db \in [Groups -> SUBSET Tabs]
      /\ tabsOf' = [tabsOf EXCEPT ![n] = regn] /\ db' = [db EXCEPT ![g] = tabs]
      /\ clobbered' = IF n # gen \/ tabs # meant \/ rows[g] # {} THEN clobbered \union {g} ELSE clobbered
  BY DEF TabTypes, RegistryOK, TG!Persist
<1>3. regn \in [Groups -> SUBSET Tabs] /\ \A h \in Groups : regn[h] = IF h = g THEN tabs ELSE tabsOf[n][h]
  BY <1>1, <1>2
<1>4. \A m \in 0 .. MaxRebuilds, h \in Groups :
        tabsOf'[m][h] = IF m = n /\ h = g THEN tabs ELSE tabsOf[m][h]
  BY <1>2, <1>3
<1>5. \A h \in Groups : db'[h] = IF h = g THEN tabs ELSE db[h]
  BY <1>2
<1>6. /\ tabsOf' \in [0 .. MaxRebuilds -> [Groups -> SUBSET Tabs]]
      /\ db' \in [Groups -> SUBSET Tabs]
  BY <1>1, <1>2, <1>3
<1>7. RegistryOK'
  BY <1>1, <1>4, <1>5, <1>6 DEF TabTypes, RegistryOK
<1> QED
  BY <1>2, <1>4, <1>5, <1>7

\* A group is tracked as long as nothing open drops out of what is written.
LEMMA PersistTracks ==
  ASSUME TabGroupsOK, NEW n \in 0 .. MaxRebuilds, NEW g \in Groups, NEW tabs, NEW meant,
         tabs \subseteq Known, TG!Persist(n, g, tabs, meant),
         UNCHANGED <<gen, rebuild, rows, home, alive>>,
         \A t \in opened' \ opened : t \in tabs /\ home[t] = g,
         BrowserOK',
         tabs = meant /\ n = gen => tabsOf[n][g] \cap opened \cap alive \subseteq tabs
  PROVE TrackingOK'
<1>1. /\ \A m \in 0 .. MaxRebuilds, h \in Groups :
             tabsOf'[m][h] = IF m = n /\ h = g THEN tabs ELSE tabsOf[m][h]
      /\ \A h \in Groups : db'[h] = IF h = g THEN tabs ELSE db[h]
      /\ clobbered \subseteq clobbered'
      /\ (n = gen /\ tabs = meant /\ rows[g] = {}) \/ g \in clobbered'
  BY PersistStep DEF TabGroupsOK
<1>2. ASSUME NEW t \in opened' \cap alive'
      PROVE /\ t \in db'[home'[t]] \/ home'[t] \in clobbered'
            /\ t \in tabsOf'[gen'][home'[t]] \cup rows'[home'[t]] \/ home'[t] \in clobbered'
  <2>1. home[t] \in Groups /\ gen \in 0 .. MaxRebuilds
    BY <1>2 DEF BrowserOK, Known, TabGroupsOK, TabTypes, RegistryOK
  <2>2. CASE home[t] # g
    <3>1. t \in opened
      BY <2>2, <1>2
    <3> QED
      BY <1>1, <1>2, <2>1, <2>2, <3>1 DEF TabGroupsOK, TrackingOK, Mirrored, TG!OpenTabsStayTracked
  <2>3. CASE home[t] = g /\ g \notin clobbered'
    <3>1. n = gen /\ tabs = meant /\ rows[g] = {}
      BY <1>1, <2>3
    <3>2. t \in tabs
      BY <1>1, <1>2, <2>3, <3>1 DEF TabGroupsOK, TrackingOK, TG!OpenTabsStayTracked
    <3> QED
      BY <1>1, <2>1, <2>3, <3>1, <3>2
  <2> QED
    BY <2>2, <2>3
<1> QED
  BY <1>2 DEF TrackingOK, Mirrored, TG!OpenTabsStayTracked

LEMMA TrackingKept ==
  ASSUME TabGroupsOK, UNCHANGED <<gen, rows, tabsOf, db, clobbered, opened>>,
         alive' \subseteq alive \/ opened \cap alive' \subseteq alive,
         \A t \in opened : home'[t] = home[t]
  PROVE TrackingOK'
  BY DEF TabGroupsOK, TrackingOK, Mirrored, TG!OpenTabsStayTracked

LEMMA BannerKept ==
  ASSUME TabGroupsOK, UNCHANGED <<gen, rebuild, attached, debugged, overtaken>>,
         \A c \in Commands : TG!At(c, "attaching") => command'[c] = command[c]
  PROVE BannerOK'
  BY DEF TabGroupsOK, BannerOK, ReleasedIsOvertaken, TG!BannerOnlyWhileDriven, TG!At

LEMMA BrowserKept ==
  ASSUME TabTypes, UNCHANGED <<home, alive, opened, debugged, attached, forgetting>>
  PROVE BrowserOK' /\ RemovedAreGone'
  BY DEF TabTypes, BrowserOK, RemovedAreGone, Known

-----------------------------------------------------------------------------
(* The commands.                                                           *)

LEMMA OpenTabStep ==
  ASSUME TabGroupsOK, NEW c \in Commands, NEW g \in Groups, NEW t \in Tabs, TG!OpenTab(c, g, t)
  PROVE TabGroupsOK'
<1> USE TabGroupsAssumption DEF TabGroupsAssumption
<1> DEFINE r == [at |-> "loading", gen |-> gen, group |-> g, tab |-> t,
                 closing |-> {}, left |-> {}, copy |-> {}]
<1>1. /\ home[t] = None /\ home' = [home EXCEPT ![t] = g] /\ alive' = alive \cup {t}
      /\ command' = [command EXCEPT ![c] = r]
      /\ UNCHANGED <<gen, rebuild, rows, tabsOf, db, clobbered, opened, attached, debugged,
                     overtaken, forgetting>>
      /\ command[c] = None
  BY DEF TG!OpenTab, TG!Begin, TG!Free, TG!rebuildVars, TG!registryVars, TG!sessionVars
<1>2. /\ Known' = Known \cup {t} /\ t \notin Known
      /\ \A u \in Known : home'[u] = home[u]
      /\ home'[t] = g
  BY <1>1 DEF TabGroupsOK, TabTypes, BrowserOK, Known
<1>3. BrowserOK'
  BY <1>1, <1>2 DEF TabGroupsOK, TabTypes, BrowserOK
<1>4. RemovedAreGone'
  BY <1>1, <1>2 DEF TabGroupsOK, TabTypes, RemovedAreGone
<1>5. RegistryOK'
  BY <1>1, <1>2 DEF TabGroupsOK, TabTypes, RegistryOK
<1>6. CommandsOK'
  <2>1. command \in [Commands -> CommandRecord \cup {None}]
    BY DEF TabGroupsOK, TabTypes, CommandsOK
  <2>2. r \in CommandRecord
    BY DEF CommandRecord, TabGroupsOK, TabTypes, RegistryOK
  <2>3. ASSUME NEW q, IsSound(q)
        PROVE /\ q \in CommandRecord /\ q.closing \subseteq Known' /\ q.copy \subseteq Known'
              /\ q.at # "closing" => q.tab \in Known'
              /\ q.at = "loading" => home'[q.tab] = q.group
              /\ q.at = "closing" => (q.closing \ q.left) \cap alive' = {}
    BY <1>1, <1>2, <2>3 DEF IsSound
  <2>4. \A k \in Commands : command'[k] = IF k = c THEN r ELSE command[k]
    BY <1>1, <2>1
  <2>5. /\ r.closing \subseteq Known' /\ r.copy \subseteq Known' /\ r.tab \in Known'
        /\ home'[r.tab] = r.group /\ r.at = "loading"
    BY <1>2
  <2>6. command' \in [Commands -> CommandRecord \cup {None}]
    BY <1>1, <2>1, <2>2
  <2>7. ASSUME NEW k \in Commands, command'[k] # None
        PROVE LET q == command'[k] IN
              /\ q \in CommandRecord /\ q.closing \subseteq Known' /\ q.copy \subseteq Known'
              /\ q.at # "closing" => q.tab \in Known'
              /\ q.at = "loading" => home'[q.tab] = q.group
              /\ q.at = "closing" => (q.closing \ q.left) \cap alive' = {}
    <3> HIDE DEF r
    <3>1. CASE k = c
      BY <2>2, <2>4, <2>5, <3>1
    <3>2. CASE k # c
      BY <2>3, <2>4, <2>7, <3>2 DEF TabGroupsOK, TabTypes, CommandsOK
    <3> QED
      BY <3>1, <3>2
  <2> QED
    BY <2>6, <2>7 DEF CommandsOK, IsSound, CommandRecord
<1>7. BannerOK'
  BY <1>1, BannerKept DEF TG!At, TabGroupsOK, TabTypes, CommandsOK
<1>8. TrackingOK'
  BY <1>1, <1>2, TrackingKept DEF TabGroupsOK, TabTypes, BrowserOK
<1> QED
  BY <1>3, <1>4, <1>5, <1>6, <1>7, <1>8 DEF TabGroupsOK, TabTypes

\* What a command that is in flight may rely on.
LEMMA InFlightIsSound ==
  ASSUME TabTypes, NEW c \in Commands, command[c] # None
  PROVE /\ IsSound(command[c]) /\ command[c] \in CommandRecord
        /\ command[c].gen \in 0 .. MaxRebuilds /\ command[c].group \in Groups
  BY DEF TabTypes, CommandsOK, IsSound, CommandRecord

\* A command that ends, or begins, without touching tabs, registry and session.
LEMMA QuietCommand ==
  ASSUME TabGroupsOK, NEW c \in Commands, ~TG!At(c, "attaching"), NEW r, r = None \/ IsSound(r),
         command' = [command EXCEPT ![c] = r],
         UNCHANGED <<gen, rebuild, rows, tabsOf, db, clobbered, home, alive, opened, attached,
                     debugged, overtaken, forgetting>>
  PROVE TabGroupsOK'
<1>1. CommandsOK'
  BY CommandStep DEF TabGroupsOK
<1>2. \A k \in Commands : TG!At(k, "attaching") => command'[k] = command[k]
  BY DEF TabGroupsOK, TabTypes, CommandsOK
<1> QED
  BY <1>1, <1>2, BrowserKept, RegistryKept, BannerKept, TrackingKept DEF TabGroupsOK, TabTypes

LEMMA BeginStep ==
  ASSUME TabGroupsOK, NEW c \in Commands, NEW g \in Groups,
         TG!Close(c, g) \/ (\E t \in Tabs : TG!Navigate(c, g, t))
  PROVE TabGroupsOK'
<1> USE DEF TG!rebuildVars, TG!registryVars, TG!sessionVars, TG!browserVars, TG!Free
<1>1. gen \in 0 .. MaxRebuilds /\ tabsOf[gen][g] \subseteq Known /\ Known \subseteq Tabs
  BY DEF TabGroupsOK, TabTypes, RegistryOK, Known
<1>2. ASSUME TG!Close(c, g) PROVE TabGroupsOK'
  <2>1. PICK left \in {tabsOf[gen][g]} \union {{t} : t \in tabsOf[gen][g]} :
          command' = [command EXCEPT ![c] = [at |-> "closing", gen |-> gen, group |-> g, tab |-> None,
                                             closing |-> left, left |-> left, copy |-> tabsOf[gen][g]]]
    BY <1>2 DEF TG!Close
  <2> DEFINE r == [at |-> "closing", gen |-> gen, group |-> g, tab |-> None,
                   closing |-> left, left |-> left, copy |-> tabsOf[gen][g]]
  <2>2. left \subseteq Known
    BY <1>1, <2>1
  <2>3. IsSound(r)
    BY <1>1, <2>2 DEF IsSound, CommandRecord
  <2> HIDE DEF r
  <2> QED
    BY <1>2, <2>1, <2>3, QuietCommand DEF TG!Close, TG!At, r
<1>3. ASSUME NEW t \in Tabs, TG!Navigate(c, g, t) PROVE TabGroupsOK'
  <2> DEFINE r == [at |-> "navigating", gen |-> gen, group |-> g, tab |-> t,
                   closing |-> {}, left |-> {}, copy |-> {}]
  <2>1. IsSound(r)
    BY <1>1, <1>3 DEF IsSound, CommandRecord, TG!Navigate
  <2>2. command' = [command EXCEPT ![c] = r]
    BY <1>3 DEF TG!Navigate, TG!Begin
  <2> HIDE DEF r
  <2> QED
    BY <1>3, <2>1, <2>2, QuietCommand DEF TG!Navigate, TG!At
<1> QED
  BY <1>2, <1>3

\* A command writes its group and ends.
LEMMA WriteStep ==
  ASSUME TabGroupsOK, NEW c \in Commands,
         TG!At(c, "loading") \/ TG!At(c, "navigating") \/ TG!At(c, "closing"),
         NEW tabs, NEW meant, tabs \subseteq Known,
         TG!Persist(command[c].gen, command[c].group, tabs, meant), TG!Settle(c),
         tabs = meant /\ command[c].gen = gen
           => tabsOf[gen][command[c].group] \cap opened \cap alive \subseteq tabs,
         opened' = opened
           \/ (TG!At(c, "loading") /\ command[c].tab \in tabs /\ opened' = opened \cup {command[c].tab}),
         UNCHANGED <<gen, rebuild, rows, home, alive, attached, debugged, overtaken, forgetting>>
  PROVE TabGroupsOK'
<1> DEFINE r == command[c]
<1>1. /\ IsSound(r) /\ r.gen \in 0 .. MaxRebuilds /\ r.group \in Groups
      /\ ~TG!At(c, "attaching")
  BY InFlightIsSound DEF TG!At, TabGroupsOK
<1> HIDE DEF r
<1>2. CommandsOK'
  BY CommandStep DEF TG!Settle, TabGroupsOK
<1>3. RegistryOK'
  BY <1>1, PersistStep DEF TabGroupsOK, r
<1>4. BrowserOK' /\ RemovedAreGone' 
  BY DEF TabGroupsOK, TabTypes, BrowserOK, RemovedAreGone, Known
<1>5. BannerOK'
  <2>1. \A k \in Commands : TG!At(k, "attaching") => command'[k] = command[k]
    BY <1>1 DEF TG!Settle, TabGroupsOK, TabTypes, CommandsOK
  <2> QED
    BY <2>1, BannerKept
<1>6. TrackingOK'
  <2>1. \A t \in opened' \ opened : t \in tabs /\ home[t] = r.group
    BY <1>1 DEF IsSound, TG!At, r
  <2> QED
    BY <1>1, <1>4, <2>1, PersistTracks DEF r
<1> QED
  BY <1>2, <1>3, <1>4, <1>5, <1>6 DEF TabGroupsOK, TabTypes

LEMMA EndStep ==
  ASSUME TabGroupsOK, NEW c \in Commands, TG!Loaded(c) \/ TG!Navigated(c) \/ TG!Closed(c)
  PROVE TabGroupsOK'
<1> USE DEF TG!rebuildVars, TG!registryVars, TG!sessionVars, TG!browserVars
<1> DEFINE r == command[c]
<1>1. command[c] # None
  BY DEF TG!Loaded, TG!Navigated, TG!Closed, TG!At
<1>2. IsSound(r) /\ r.gen \in 0 .. MaxRebuilds /\ r.group \in Groups /\ tabsOf[r.gen][r.group] \subseteq Known
  BY <1>1, InFlightIsSound DEF TabGroupsOK, TabTypes, RegistryOK
<1>3. ASSUME TG!Settle(c), ~TG!At(c, "attaching"), UNCHANGED <<gen, rebuild, rows, tabsOf, db, clobbered, home, alive, opened,
               attached, debugged, overtaken, forgetting>>
      PROVE TabGroupsOK'
  BY <1>3, QuietCommand DEF TG!Settle
<1>4. ASSUME TG!Loaded(c) PROVE TabGroupsOK'
  <2>1. CASE r.tab \in alive
    <3> DEFINE tabs == tabsOf[r.gen][r.group] \union {r.tab}
    <3>1. tabs \subseteq Known
      BY <1>2, <1>4 DEF IsSound, TG!Loaded, TG!At
    <3>2. TG!Persist(r.gen, r.group, tabs, tabs) /\ opened' = opened \union {r.tab}
      BY <1>4, <2>1 DEF TG!Loaded
    <3>3. r.gen = gen => tabsOf[gen][r.group] \cap opened \cap alive \subseteq tabs
      OBVIOUS
    <3> HIDE DEF tabs
    <3>4. r.tab \in tabs
      BY DEF tabs
    <3> QED
      BY <1>4, <3>1, <3>2, <3>3, <3>4, WriteStep DEF TG!Loaded
  <2>2. CASE r.tab \notin alive
    BY <1>3, <1>4, <2>2 DEF TG!Loaded, TG!At
  <2> QED
    BY <2>1, <2>2
<1>5. ASSUME TG!Navigated(c) PROVE TabGroupsOK'
  <2> DEFINE tabs == tabsOf[r.gen][r.group]
  <2>1. CASE r.tab \in alive /\ tabs # {}
    <3>1. TG!Persist(r.gen, r.group, tabs, tabs)
      BY <1>5, <2>1 DEF TG!Navigated
    <3> QED
      BY <1>2, <1>5, <3>1, WriteStep DEF TG!Navigated
  <2>2. CASE ~(r.tab \in alive /\ tabs # {})
    BY <1>3, <1>5, <2>2 DEF TG!Navigated, TG!At
  <2> QED
    BY <2>1, <2>2
<1>6. ASSUME TG!Closed(c) PROVE TabGroupsOK'
  <2> DEFINE tabs == r.copy \ r.closing
             meant == tabsOf[r.gen][r.group] \ r.closing
  <2>1. TG!Persist(r.gen, r.group, tabs, meant) /\ r.left = {} /\ r.at = "closing"
    BY <1>6 DEF TG!Closed, TG!At
  <2>2. tabs \subseteq Known /\ r.closing \cap alive = {}
    BY <1>2, <2>1 DEF IsSound
  <2>3. tabs = meant /\ r.gen = gen => tabsOf[gen][r.group] \cap opened \cap alive \subseteq tabs
    BY <2>2
  <2> HIDE DEF tabs, meant
  <2> QED
    BY <1>6, <2>1, <2>2, <2>3, WriteStep DEF TG!Closed
<1> QED
  BY <1>4, <1>5, <1>6

-----------------------------------------------------------------------------
(* The debugger sessions.                                                  *)

\* Nothing but the sessions and the commands that drive a tab changes.
LEMMA DrivingTypes ==
  ASSUME TabGroupsOK, NEW c \in Commands, NEW r, r = None \/ IsSound(r),
         command' = [command EXCEPT ![c] = r],
         debugged' \subseteq alive, attached' \in [0 .. MaxRebuilds -> SUBSET Tabs],
         UNCHANGED <<gen, rebuild, rows, tabsOf, db, clobbered, home, alive, opened, forgetting>>
  PROVE TabTypes' /\ TrackingOK'
<1>1. CommandsOK'
  BY CommandStep DEF TabGroupsOK
<1>2. BrowserOK' /\ RemovedAreGone'
  BY DEF TabGroupsOK, TabTypes, BrowserOK, RemovedAreGone, Known
<1> QED
  BY <1>1, <1>2, RegistryKept, TrackingKept DEF TabGroupsOK, TabTypes

LEMMA AttachStep ==
  ASSUME TabGroupsOK, NEW c \in Commands, ~TG!At(c, "attaching"),
         NEW r, IsSound(r), r.at = "acting", TG!Attach(c, r),
         UNCHANGED <<gen, kind, rebuild, rows, tabsOf, db, clobbered, home, alive, opened, forgetting>>
  PROVE TabGroupsOK'
<1> USE TabGroupsAssumption DEF TabGroupsAssumption
<1> DEFINE acting == [r EXCEPT !.at = "acting"]
           attaching == [r EXCEPT !.at = "attaching"]
<1>1. r \in CommandRecord /\ r.tab \in Known /\ r.gen \in 0 .. MaxRebuilds
  BY DEF IsSound, CommandRecord
<1>2. acting \in CommandRecord /\ acting.closing = r.closing /\ acting.copy = r.copy
      /\ acting.at = "acting" /\ acting.tab = r.tab
  BY <1>1 DEF CommandRecord
<1>3. attaching \in CommandRecord /\ attaching.closing = r.closing /\ attaching.copy = r.copy
      /\ attaching.at = "attaching" /\ attaching.tab = r.tab /\ attaching.gen = r.gen
  BY <1>1 DEF CommandRecord
<1> HIDE DEF acting, attaching
<1>4. IsSound(acting)
  BY <1>1, <1>2 DEF IsSound
<1>5. IsSound(attaching)
  BY <1>1, <1>3 DEF IsSound
<1>6. /\ command \in [Commands -> CommandRecord \cup {None}]
      /\ attached \in [0 .. MaxRebuilds -> SUBSET Tabs] /\ debugged \subseteq alive
  BY DEF TabGroupsOK, TabTypes, CommandsOK, BrowserOK
<1>7. ASSUME NEW q, q = None \/ IsSound(q), command' = [command EXCEPT ![c] = q], UNCHANGED TG!sessionVars
      PROVE TabGroupsOK'
  <2>1. TabTypes' /\ TrackingOK'
    BY <1>6, <1>7, DrivingTypes DEF TG!sessionVars
  <2>2. \A k \in Commands : TG!At(k, "attaching") => command'[k] = command[k]
    BY <1>6, <1>7
  <2>3. BannerOK'
    BY <1>7, <2>2, BannerKept DEF TG!sessionVars
  <2> QED
    BY <2>1, <2>3 DEF TabGroupsOK
<1>8. CASE r.tab \in attached[r.gen]
  BY <1>4, <1>7, <1>8 DEF TG!Attach, acting
<1>9. CASE r.tab \notin attached[r.gen] /\ (r.tab \in debugged \/ r.tab \notin alive)
  BY <1>7, <1>9 DEF TG!Attach, TG!Settle
<1>10. CASE r.tab \notin attached[r.gen] /\ r.tab \notin debugged /\ r.tab \in alive
  <2>1. /\ debugged' = debugged \union {r.tab} /\ attached' = attached
        /\ overtaken' = IF r.gen # gen \/ rebuild = "releasing"
                        THEN overtaken \union {r.tab} ELSE overtaken
        /\ command' = [command EXCEPT ![c] = attaching]
    BY <1>10 DEF TG!Attach, attaching
  <2>2. TabTypes' /\ TrackingOK'
    BY <1>5, <1>6, <1>10, <2>1, DrivingTypes
  <2>3. \A k \in Commands : command'[k] = IF k = c THEN attaching ELSE command[k]
    BY <1>6, <2>1
  <2>4. attaching # None
    BY <1>3 DEF CommandRecord
  <2>5. ReleasedIsOvertaken'
    BY <2>1 DEF TabGroupsOK, BannerOK, ReleasedIsOvertaken
  <2>6. ASSUME NEW t \in debugged' \ overtaken'
        PROVE t \in attached'[gen'] \/
              \E k \in Commands : TG!At(k, "attaching")' /\ command'[k].tab = t /\ command'[k].gen = gen'
    <3>1. CASE t = r.tab /\ r.gen = gen
      BY <1>3, <2>3, <2>4, <3>1 DEF TG!At
    <3>2. CASE t # r.tab
      <4>1. t \in attached[gen] \/
            \E k \in Commands : TG!At(k, "attaching") /\ command[k].tab = t /\ command[k].gen = gen
        BY <2>1, <2>6, <3>2 DEF TabGroupsOK, BannerOK, TG!BannerOnlyWhileDriven
      <4> QED
        BY <2>1, <2>3, <4>1 DEF TG!At
    <3> QED
      BY <2>1, <2>6, <3>1, <3>2
  <2> QED
    BY <2>2, <2>5, <2>6 DEF TabGroupsOK, BannerOK, TG!BannerOnlyWhileDriven
<1> QED
  BY <1>8, <1>9, <1>10

LEMMA DriveStep ==
  ASSUME TabGroupsOK, NEW c \in Commands,
         \/ \E g \in Groups, t \in Tabs : TG!Drive(c, g, t)
         \/ TG!PressEnter(c) \/ TG!Acted(c)
  PROVE TabGroupsOK'
<1> USE DEF TG!rebuildVars, TG!registryVars, TG!sessionVars, TG!browserVars
<1>1. ASSUME NEW g \in Groups, NEW t \in Tabs, TG!Drive(c, g, t) PROVE TabGroupsOK'
  <2> DEFINE r == [at |-> "acting", gen |-> gen, group |-> g, tab |-> t,
                   closing |-> {}, left |-> {}, copy |-> {}]
  <2>1. gen \in 0 .. MaxRebuilds /\ t \in Known
    BY <1>1 DEF TG!Drive, TabGroupsOK, TabTypes, RegistryOK
  <2>2. IsSound(r) /\ r.at = "acting"
    BY <2>1 DEF IsSound, CommandRecord
  <2>3. TG!Attach(c, r)
    BY <1>1 DEF TG!Drive
  <2> HIDE DEF r
  <2> QED
    BY <1>1, <2>2, <2>3, AttachStep DEF TG!Drive, TG!Free, TG!At
<1>2. CASE TG!PressEnter(c)
  <2>1. IsSound(command[c]) /\ command[c].at = "acting" /\ ~TG!At(c, "attaching")
    BY <1>2, InFlightIsSound DEF TG!PressEnter, TG!At, TabGroupsOK
  <2> QED
    BY <1>2, <2>1, AttachStep DEF TG!PressEnter
<1>3. CASE TG!Acted(c)
  BY <1>3, QuietCommand DEF TG!Acted, TG!At, TG!Settle
<1> QED
  BY <1>1, <1>2, <1>3

LEMMA AttachedStep ==
  ASSUME TabGroupsOK, NEW c \in Commands, TG!Attached(c)
  PROVE TabGroupsOK'
<1> USE TabGroupsAssumption DEF TabGroupsAssumption
<1> DEFINE r == command[c]
           acting == [r EXCEPT !.at = "acting"]
           held == IF r.tab \in debugged THEN attached[r.gen] \union {r.tab} ELSE attached[r.gen]
<1>1. /\ r # None /\ r.at = "attaching" /\ attached' = [attached EXCEPT ![r.gen] = held]
      /\ command' = [command EXCEPT ![c] = acting]
      /\ UNCHANGED <<gen, rebuild, rows, tabsOf, db, clobbered, home, alive, opened, debugged,
                     overtaken, forgetting>>
  BY DEF TG!Attached, TG!At, TG!rebuildVars, TG!registryVars, TG!browserVars
<1>2. IsSound(r) /\ r \in CommandRecord /\ r.gen \in 0 .. MaxRebuilds /\ r.tab \in Known
  BY <1>1, InFlightIsSound DEF TabGroupsOK, IsSound
<1>3. acting \in CommandRecord /\ acting.closing = r.closing /\ acting.copy = r.copy
      /\ acting.at = "acting" /\ acting.tab = r.tab
  BY <1>2 DEF CommandRecord
<1>4. /\ command \in [Commands -> CommandRecord \cup {None}]
      /\ attached \in [0 .. MaxRebuilds -> SUBSET Tabs] /\ debugged \subseteq alive
      /\ gen \in 0 .. MaxRebuilds /\ Known \subseteq Tabs
  BY DEF TabGroupsOK, TabTypes, CommandsOK, BrowserOK, RegistryOK, Known
<1>5. held \in SUBSET Tabs
  BY <1>2, <1>4
<1> HIDE DEF acting, held
<1>6. IsSound(acting)
  BY <1>2, <1>3 DEF IsSound
<1>7. attached' \in [0 .. MaxRebuilds -> SUBSET Tabs]
  BY <1>1, <1>4, <1>5
<1>8. TabTypes' /\ TrackingOK'
  BY <1>1, <1>4, <1>6, <1>7, DrivingTypes
<1>9. /\ \A k \in Commands \ {c} : command'[k] = command[k]
      /\ attached[gen] \subseteq attached'[gen]
      /\ r.gen = gen /\ r.tab \in debugged => r.tab \in attached'[gen]
  BY <1>1, <1>2, <1>4 DEF held
<1>10. ASSUME NEW t \in debugged \ overtaken
       PROVE t \in attached'[gen] \/
             \E k \in Commands : TG!At(k, "attaching")' /\ command'[k].tab = t /\ command'[k].gen = gen
  <2>1. t \in attached[gen] \/
        \E k \in Commands : TG!At(k, "attaching") /\ command[k].tab = t /\ command[k].gen = gen
    BY <1>10 DEF TabGroupsOK, BannerOK, TG!BannerOnlyWhileDriven
  <2> QED
    BY <1>9, <1>10, <2>1 DEF TG!At
<1>11. BannerOK'
  BY <1>1, <1>10 DEF TabGroupsOK, BannerOK, ReleasedIsOvertaken, TG!BannerOnlyWhileDriven
<1> QED
  BY <1>8, <1>11 DEF TabGroupsOK

-----------------------------------------------------------------------------
(* Tabs that go, and control that is given back.                           *)

\* A tab goes, and no session gains or loses another.
LEMMA TabGoes ==
  ASSUME TabGroupsOK, NEW t \in Tabs, TG!Remove(t),
         UNCHANGED <<gen, rebuild, rows, tabsOf, db, clobbered, home, opened>>,
         attached' \in [0 .. MaxRebuilds -> SUBSET Tabs],
         \A n \in 0 .. MaxRebuilds : attached[n] \subseteq attached'[n] \cup {t},
         CommandsOK', \A c \in Commands : TG!At(c, "attaching") => command'[c] = command[c]
  PROVE TabGroupsOK'
<1>1. /\ alive' = alive \ {t} /\ debugged' = debugged \ {t} /\ overtaken' = overtaken \ {t}
      /\ forgetting' = IF t \in alive THEN [forgetting EXCEPT ![t].at = "removed"] ELSE forgetting
  BY DEF TG!Remove
<1>2. Known' = Known /\ gen \in 0 .. MaxRebuilds
  BY DEF Known, TabGroupsOK, TabTypes, RegistryOK
<1> DEFINE gone == [forgetting[t] EXCEPT !.at = "removed"]
<1>3. forgetting' \in [Tabs -> Forgettings] /\ RemovedAreGone'
  <2>1. forgetting \in [Tabs -> Forgettings]
    BY DEF TabGroupsOK, TabTypes, BrowserOK
  <2>2. CASE t \in alive
    <3>1. forgetting[t].at = "none" /\ t \in Known
      BY <2>2 DEF TabGroupsOK, TabTypes, RemovedAreGone, BrowserOK
    <3>2. forgetting[t] \in [at : {"none", "removed"}]
      BY <2>1, <3>1 DEF Forgettings
    <3>3. gone \in Forgettings /\ gone.at = "removed"
      BY <3>2 DEF Forgettings
    <3>4. forgetting' = [forgetting EXCEPT ![t] = gone]
      BY <1>1, <2>2
    <3> HIDE DEF gone
    <3>5. \A u \in Tabs : forgetting'[u] = IF u = t THEN gone ELSE forgetting[u]
      BY <2>1, <3>4
    <3>6. forgetting' \in [Tabs -> Forgettings]
      BY <2>1, <3>3, <3>4
    <3>7. RemovedAreGone'
      BY <1>1, <1>2, <3>1, <3>3, <3>5 DEF TabGroupsOK, TabTypes, RemovedAreGone
    <3> QED
      BY <3>6, <3>7
  <2>3. CASE t \notin alive
    BY <1>1, <1>2, <2>1, <2>3 DEF TabGroupsOK, TabTypes, RemovedAreGone
  <2> QED
    BY <2>2, <2>3
<1>4. BrowserOK'
  BY <1>1, <1>2, <1>3 DEF TabGroupsOK, TabTypes, BrowserOK
<1>5. RegistryOK'
  BY RegistryKept DEF TabGroupsOK
<1>6. BannerOK'
  BY <1>1, <1>2 DEF TabGroupsOK, BannerOK, ReleasedIsOvertaken, TG!BannerOnlyWhileDriven, TG!At
<1>7. TrackingOK'
  BY <1>1, TrackingKept
<1> QED
  BY <1>3, <1>4, <1>5, <1>6, <1>7 DEF TabGroupsOK, TabTypes

LEMMA CloseTabStep ==
  ASSUME TabGroupsOK, NEW c \in Commands, NEW t \in Tabs, TG!CloseTab(c, t)
  PROVE TabGroupsOK'
<1> USE DEF TG!rebuildVars, TG!registryVars
<1>1. attached \in [0 .. MaxRebuilds -> SUBSET Tabs] /\ command \in [Commands -> CommandRecord \cup {None}]
  BY DEF TabGroupsOK, TabTypes, BrowserOK, CommandsOK
<1> DEFINE r == command[c]
           left == r.left \ {t}
           rest == [r EXCEPT !.left = left]
<1>2. /\ r # None /\ r.at = "closing" /\ command' = [command EXCEPT ![c] = rest] /\ TG!Remove(t)
      /\ attached' = [attached EXCEPT ![r.gen] = @ \ {t}]
      /\ UNCHANGED <<gen, rebuild, rows, tabsOf, db, clobbered, home, opened>>
  BY DEF TG!CloseTab, TG!At
<1>3. IsSound(r) /\ r \in CommandRecord
  BY <1>2, InFlightIsSound DEF TabGroupsOK
<1>4. left \in SUBSET Tabs
  BY <1>3 DEF CommandRecord
<1>5. rest \in CommandRecord /\ rest.closing = r.closing /\ rest.copy = r.copy
      /\ rest.at = r.at /\ rest.left = left
  <2> HIDE DEF left
  <2> QED
    BY <1>3, <1>4 DEF CommandRecord
<1>6. alive' = alive \ {t}
  BY <1>2 DEF TG!Remove
<1> HIDE DEF rest
<1>7. CommandsOK'
  <2>1. Known' = Known /\ IsSound(r) /\ r.left \subseteq Tabs
    BY <1>2, <1>3 DEF Known, CommandRecord
  <2>2. \A k \in Commands : command'[k] = IF k = c THEN rest ELSE command[k]
    BY <1>1, <1>2
  <2>3. command' \in [Commands -> CommandRecord \cup {None}]
    BY <1>1, <1>2, <1>5
  <2>4. ASSUME NEW k \in Commands, command'[k] # None
        PROVE LET q == command'[k] IN
              /\ q \in CommandRecord /\ q.closing \subseteq Known' /\ q.copy \subseteq Known'
              /\ q.at # "closing" => q.tab \in Known'
              /\ q.at = "loading" => home'[q.tab] = q.group
              /\ q.at = "closing" => (q.closing \ q.left) \cap alive' = {}
    <3>1. CASE k = c
      BY <1>2, <1>3, <1>5, <1>6, <2>1, <2>2, <3>1 DEF IsSound
    <3>2. CASE k # c
      BY <1>2, <1>6, <2>1, <2>2, <2>4, <3>2 DEF IsSound, TabGroupsOK, TabTypes, CommandsOK
    <3> QED
      BY <3>1, <3>2
  <2> QED
    BY <2>3, <2>4 DEF CommandsOK, IsSound, CommandRecord
<1>8. \A k \in Commands : TG!At(k, "attaching") => command'[k] = command[k]
  BY <1>1, <1>2 DEF TG!At
<1>9. attached' \in [0 .. MaxRebuilds -> SUBSET Tabs]
      /\ \A n \in 0 .. MaxRebuilds : attached[n] \subseteq attached'[n] \cup {t}
  BY <1>1, <1>2
<1> QED
  BY <1>2, <1>7, <1>8, <1>9, TabGoes

\* Only sessions and banners change, and no banner appears.
LEMMA SessionTypes ==
  ASSUME TabGroupsOK, debugged' \subseteq debugged, attached' \in [0 .. MaxRebuilds -> SUBSET Tabs],
         UNCHANGED <<gen, rows, tabsOf, db, clobbered, home, alive, opened, forgetting, command>>,
         rebuild' = "releasing" => gen < MaxRebuilds
  PROVE TabTypes' /\ TrackingOK'
<1>1. CommandsOK'
  BY CommandsKept DEF TabGroupsOK
<1>2. BrowserOK' /\ RemovedAreGone'
  BY DEF TabGroupsOK, TabTypes, BrowserOK, RemovedAreGone, Known
<1>3. RegistryOK'
  BY DEF TabGroupsOK, TabTypes, RegistryOK, Known
<1> QED
  BY <1>1, <1>2, <1>3, TrackingKept DEF TabGroupsOK, TabTypes

\* Once control is released, the only banners are of tabs that were being driven.
LEMMA ReleaseLeaves ==
  ASSUME TabGroupsOK, TG!ReleaseAll
  PROVE /\ debugged' \subseteq debugged /\ debugged' \subseteq overtaken'
        /\ attached' \in [0 .. MaxRebuilds -> SUBSET Tabs]
<1>1. gen \in 0 .. MaxRebuilds /\ attached \in [0 .. MaxRebuilds -> SUBSET Tabs]
  BY DEF TabGroupsOK, TabTypes, RegistryOK, BrowserOK
<1>2. debugged' = debugged \ attached[gen] /\ attached' = [attached EXCEPT ![gen] = {}]
      /\ overtaken' = (overtaken \ attached[gen]) \union (TG!InFlight \intersect debugged')
  BY DEF TG!ReleaseAll
<1>3. ASSUME NEW t \in debugged', t \notin overtaken PROVE t \in TG!InFlight
  <2>1. PICK c \in Commands : TG!At(c, "attaching") /\ command[c].tab = t
    BY <1>2, <1>3 DEF TabGroupsOK, BannerOK, TG!BannerOnlyWhileDriven
  <2> QED
    BY <2>1 DEF TG!InFlight
<1> QED
  BY <1>1, <1>2, <1>3

LEMMA ReleaseStep ==
  ASSUME TabGroupsOK,
         \/ TG!Release \/ TG!Rebuild
         \/ \E t \in Tabs : TG!BannerDismissed(t) \/ TG!OnDetach(t)
  PROVE TabGroupsOK'
<1> USE DEF TG!rebuildVars, TG!registryVars, TG!browserVars
<1>1. CASE TG!Release \/ TG!Rebuild
  <2>1. TG!ReleaseAll /\ UNCHANGED <<gen, rows, tabsOf, db, clobbered, home, alive, opened, forgetting, command>>
        /\ (rebuild' = "releasing" => gen < MaxRebuilds)
    BY <1>1 DEF TG!Release, TG!Rebuild, TabGroupsOK, TabTypes, RegistryOK
  <2>2. BannerOK'
    BY <2>1, ReleaseLeaves DEF BannerOK, ReleasedIsOvertaken, TG!BannerOnlyWhileDriven
  <2> QED
    BY <2>1, <2>2, ReleaseLeaves, SessionTypes DEF TabGroupsOK
<1>2. ASSUME NEW t \in Tabs, TG!BannerDismissed(t) \/ TG!OnDetach(t) PROVE TabGroupsOK'
  <2>1. /\ attached' = [n \in 0 .. MaxRebuilds |-> attached[n] \ {t}]
        /\ debugged' = debugged \ {t} /\ debugged' \cap overtaken \subseteq overtaken'
        /\ UNCHANGED <<gen, rebuild, rows, tabsOf, db, clobbered, home, alive, opened, forgetting, command>>
    BY <1>2 DEF TG!BannerDismissed, TG!OnDetach, TG!Generations, TabGroupsOK, TabTypes, BrowserOK
  <2>2. gen \in 0 .. MaxRebuilds /\ attached \in [0 .. MaxRebuilds -> SUBSET Tabs]
        /\ (rebuild = "releasing" => gen < MaxRebuilds)
    BY DEF TabGroupsOK, TabTypes, RegistryOK, BrowserOK
  <2>3. attached' \in [0 .. MaxRebuilds -> SUBSET Tabs] /\ attached'[gen] = attached[gen] \ {t}
    BY <2>1, <2>2
  <2>4. BannerOK'
    BY <2>1, <2>3 DEF TabGroupsOK, BannerOK, ReleasedIsOvertaken, TG!BannerOnlyWhileDriven, TG!At
  <2> QED
    BY <2>1, <2>2, <2>3, <2>4, SessionTypes DEF TabGroupsOK
<1> QED
  BY <1>1, <1>2

-----------------------------------------------------------------------------
(* The removals that are reported.                                         *)

\* What forget() works with is replaced, and the tab is no longer attached.
LEMMA ForgettingStep ==
  ASSUME TabGroupsOK, NEW t \in Known, t \notin alive, NEW f \in Forgettings,
         f.at = "forgetting" => f.copy \subseteq Known,
         forgetting' = [forgetting EXCEPT ![t] = f],
         attached' = attached \/ attached' = [attached EXCEPT ![gen] = @ \ {t}],
         UNCHANGED <<gen, rebuild, rows, home, alive, opened, debugged, overtaken, command>>
  PROVE BrowserOK' /\ RemovedAreGone' /\ CommandsOK' /\ BannerOK'
<1>1. /\ gen \in 0 .. MaxRebuilds /\ attached \in [0 .. MaxRebuilds -> SUBSET Tabs]
      /\ debugged \subseteq alive /\ t \in Tabs /\ forgetting \in [Tabs -> Forgettings]
      /\ Known' = Known
  BY DEF TabGroupsOK, TabTypes, RegistryOK, BrowserOK, Known
<1>2. attached' \in [0 .. MaxRebuilds -> SUBSET Tabs] /\ attached[gen] \subseteq attached'[gen] \cup {t}
  BY <1>1
<1>3. forgetting' \in [Tabs -> Forgettings]
      /\ \A u \in Tabs : forgetting'[u] = IF u = t THEN f ELSE forgetting[u]
  BY <1>1
<1>4. BrowserOK'
  BY <1>1, <1>2, <1>3 DEF TabGroupsOK, TabTypes, BrowserOK
<1>5. RemovedAreGone'
  BY <1>1, <1>3 DEF TabGroupsOK, TabTypes, RemovedAreGone
<1>6. CommandsOK'
  BY CommandsKept DEF TabGroupsOK
<1>7. BannerOK'
  BY <1>1, <1>2 DEF TabGroupsOK, BannerOK, ReleasedIsOvertaken, TG!BannerOnlyWhileDriven, TG!At
<1> QED
  BY <1>4, <1>5, <1>6, <1>7

LEMMA ForgetStep ==
  ASSUME TabGroupsOK, NEW t \in Tabs, TG!Forget(t) \/ TG!Forgotten(t)
  PROVE TabGroupsOK'
<1> USE DEF TG!rebuildVars, TG!registryVars, TG!browserVars, TG!sessionVars
<1>1. /\ gen \in 0 .. MaxRebuilds /\ t \in Known /\ t \notin alive
      /\ forgetting[t].at = "forgetting" =>
           /\ forgetting[t].gen \in 0 .. MaxRebuilds /\ forgetting[t].group \in Groups
           /\ forgetting[t].copy \subseteq Known
      /\ forgetting[t].at # "none"
      /\ \A g \in Groups : tabsOf[gen][g] \subseteq Known
  BY DEF TG!Forget, TG!Forgotten, TabGroupsOK, TabTypes, RegistryOK, BrowserOK, RemovedAreGone, Forgettings
<1> DEFINE none == [at |-> "none"]
<1>2. none \in Forgettings /\ none.at = "none" /\ Known \subseteq Tabs
  BY DEF Forgettings, Known
<1> HIDE DEF none
<1>3. UNCHANGED <<gen, rebuild, rows, home, alive, opened, debugged, overtaken, command>>
  BY DEF TG!Forget, TG!Forgotten
<1>4. ASSUME NEW n \in 0 .. MaxRebuilds, NEW g \in Groups, NEW tabs, NEW meant, tabs \subseteq Known,
             TG!Persist(n, g, tabs, meant), n = gen /\ tabs = meant => tabsOf[n][g] \subseteq tabs \cup {t},
             forgetting' = [forgetting EXCEPT ![t] = none], UNCHANGED attached
      PROVE TabGroupsOK'
  <2>1. BrowserOK' /\ RemovedAreGone' /\ CommandsOK' /\ BannerOK'
    BY <1>1, <1>2, <1>3, <1>4, ForgettingStep
  <2>2. RegistryOK'
    BY <1>3, <1>4, PersistStep DEF TabGroupsOK
  <2>3. TrackingOK'
    BY <1>1, <1>3, <1>4, <2>1, PersistTracks
  <2> QED
    BY <2>1, <2>2, <2>3 DEF TabGroupsOK, TabTypes
<1>5. ASSUME TG!Forgotten(t) PROVE TabGroupsOK'
  <2> DEFINE f == forgetting[t]
             tabs == f.copy \ {t}
             meant == tabsOf[f.gen][f.group] \ {t}
  <2>1. TG!Persist(f.gen, f.group, tabs, meant) /\ f.at = "forgetting"
        /\ forgetting' = [forgetting EXCEPT ![t] = none] /\ UNCHANGED attached
    BY <1>5 DEF TG!Forgotten, none
  <2>2. tabs \subseteq Known /\ f.gen \in 0 .. MaxRebuilds /\ f.group \in Groups
    BY <1>1, <2>1
  <2>3. tabs = meant => tabsOf[f.gen][f.group] \subseteq tabs \cup {t}
    OBVIOUS
  <2> HIDE DEF tabs, meant
  <2> QED
    BY <1>4, <2>1, <2>2, <2>3
<1>6. ASSUME TG!Forget(t) PROVE TabGroupsOK'
  <2>1. ASSUME NEW f \in Forgettings, f.at = "forgetting" => f.copy \subseteq Known,
               forgetting' = [forgetting EXCEPT ![t] = f],
               attached' = attached \/ attached' = [attached EXCEPT ![gen] = @ \ {t}],
               UNCHANGED <<tabsOf, db, clobbered>>
        PROVE TabGroupsOK'
    <3>1. BrowserOK' /\ RemovedAreGone' /\ CommandsOK' /\ BannerOK'
      BY <1>1, <1>3, <2>1, ForgettingStep
    <3>2. RegistryOK' /\ TrackingOK'
      BY <1>3, <2>1, RegistryKept, TrackingKept DEF TabGroupsOK
    <3> QED
      BY <3>1, <3>2 DEF TabGroupsOK, TabTypes
  <2> DEFINE in == {g \in Groups : t \in tabsOf[gen][g]}
  <2>2. CASE in = {}
    <3>1. forgetting' = [forgetting EXCEPT ![t] = none] /\ UNCHANGED <<tabsOf, db, clobbered, attached>>
      BY <1>6, <2>2 DEF TG!Forget, none
    <3> QED
      BY <1>2, <2>1, <3>1
  <2>3. CASE in # {}
    <3>1. PICK g \in in :
            IF t \in attached[gen]
            THEN /\ forgetting' = [forgetting EXCEPT ![t] =
                      [at |-> "forgetting", gen |-> gen, group |-> g, copy |-> tabsOf[gen][g]]]
                 /\ attached' = [attached EXCEPT ![gen] = @ \ {t}]
                 /\ UNCHANGED <<tabsOf, db, clobbered>>
            ELSE /\ TG!Persist(gen, g, tabsOf[gen][g] \ {t}, tabsOf[gen][g] \ {t})
                 /\ forgetting' = [forgetting EXCEPT ![t] = none]
                 /\ UNCHANGED attached
      BY <1>6, <2>3 DEF TG!Forget, none
    <3> DEFINE f == [at |-> "forgetting", gen |-> gen, group |-> g, copy |-> tabsOf[gen][g]]
               tabs == tabsOf[gen][g] \ {t}
    <3>2. tabsOf[gen][g] \subseteq Known
      BY <1>1
    <3>3. f \in Forgettings /\ f.copy \subseteq Known
      BY <1>1, <1>2, <3>2 DEF Forgettings
    <3>4. CASE t \in attached[gen]
      <4> HIDE DEF f
      <4> QED
        BY <2>1, <3>1, <3>3, <3>4 DEF f
    <3>5. CASE t \notin attached[gen]
      <4>1. TG!Persist(gen, g, tabs, tabs) /\ forgetting' = [forgetting EXCEPT ![t] = none] /\ UNCHANGED attached
        BY <3>1, <3>5
      <4>2. tabs \subseteq Known /\ tabsOf[gen][g] \subseteq tabs \cup {t}
        BY <3>2
      <4> HIDE DEF tabs
      <4> QED
        BY <1>1, <1>4, <4>1, <4>2
    <3> QED
      BY <3>4, <3>5
  <2> QED
    BY <2>2, <2>3
<1> QED
  BY <1>5, <1>6

-----------------------------------------------------------------------------
(* The executor and the registry are replaced.                             *)

LEMMA SwitchStep == ASSUME TabGroupsOK, TG!Switch PROVE TabGroupsOK'
<1>1. /\ rebuild = "releasing" /\ rebuild' = "hydrating" /\ gen' = gen + 1 /\ rows' = db
      /\ overtaken \subseteq overtaken' /\ clobbered \subseteq clobbered'
      /\ UNCHANGED <<tabsOf, db, home, alive, opened, attached, debugged, forgetting, command>>
  BY DEF TG!Switch, TG!browserVars
<1>2. gen' \in 0 .. MaxRebuilds
  BY <1>1, TabGroupsAssumption DEF TabGroupsAssumption, TabGroupsOK, TabTypes, RegistryOK
<1>3. RegistryOK'
  BY <1>1, <1>2 DEF TabGroupsOK, TabTypes, RegistryOK, Known
<1>4. BannerOK'
  BY <1>1 DEF TabGroupsOK, BannerOK, ReleasedIsOvertaken, TG!BannerOnlyWhileDriven
<1>5. TrackingOK'
  BY <1>1 DEF TabGroupsOK, TrackingOK, Mirrored, TG!OpenTabsStayTracked
<1> QED
  BY <1>1, <1>3, <1>4, <1>5, BrowserKept, CommandsKept DEF TabGroupsOK, TabTypes

\* hydrate() keeps every tab of the group that exists.
LEMMA HydrateStep == ASSUME TabGroupsOK, NEW g \in Groups, TG!Hydrate(g) PROVE TabGroupsOK'
<1> DEFINE tabs == rows[g] \intersect alive
           regn == [tabsOf[gen] EXCEPT ![g] = tabs]
<1>1. /\ IF tabs = {} THEN db' = [db EXCEPT ![g] = {}] /\ tabsOf' = tabsOf
                      ELSE tabsOf' = [tabsOf EXCEPT ![gen] = regn] /\ db' = db
      /\ clobbered' = IF tabsOf[gen][g] \subseteq tabs THEN clobbered ELSE clobbered \union {g}
      /\ rows' = [rows EXCEPT ![g] = {}] /\ rebuild = "hydrating"
      /\ UNCHANGED <<gen, rebuild, home, alive, opened, attached, debugged, overtaken, forgetting, command>>
  BY DEF TG!Hydrate, TG!browserVars, TG!sessionVars
<1>2. /\ gen \in 0 .. MaxRebuilds /\ rows \in [Groups -> SUBSET Tabs] /\ db \in [Groups -> SUBSET Tabs]
      /\ tabsOf \in [0 .. MaxRebuilds -> [Groups -> SUBSET Tabs]]
      /\ tabs \subseteq Known /\ tabs \subseteq Tabs /\ Known' = Known
  BY <1>1 DEF TabGroupsOK, TabTypes, RegistryOK, Known
<1>3. /\ rows' \in [Groups -> SUBSET Tabs] /\ db' \in [Groups -> SUBSET Tabs]
      /\ tabsOf' \in [0 .. MaxRebuilds -> [Groups -> SUBSET Tabs]]
      /\ \A h \in Groups : rows'[h] = IF h = g THEN {} ELSE rows[h]
      /\ \A h \in Groups : db'[h] = IF h = g /\ tabs = {} THEN {} ELSE db[h]
      /\ \A n \in 0 .. MaxRebuilds, h \in Groups :
           tabsOf'[n][h] = IF n = gen /\ h = g /\ tabs # {} THEN tabs ELSE tabsOf[n][h]
  <2>1. regn \in [Groups -> SUBSET Tabs] /\ \A h \in Groups : regn[h] = IF h = g THEN tabs ELSE tabsOf[gen][h]
    BY <1>2
  <2> HIDE DEF regn
  <2>2. CASE tabs = {}
    BY <1>1, <1>2, <2>2
  <2>3. CASE tabs # {}
    <3> HIDE DEF tabs
    <3> QED
      BY <1>1, <1>2, <2>1, <2>3
  <2> QED
    BY <2>2, <2>3
<1>4. RegistryOK'
  BY <1>1, <1>2, <1>3 DEF TabGroupsOK, TabTypes, RegistryOK
<1>5. BannerOK'
  BY <1>1, BannerKept
<1>6. ASSUME NEW t \in opened \cap alive
      PROVE /\ t \in db'[home[t]] \/ home[t] \in clobbered'
            /\ t \in tabsOf'[gen][home[t]] \cup rows'[home[t]] \/ home[t] \in clobbered'
  <2>1. home[t] \in Groups /\ clobbered \subseteq clobbered'
    BY <1>1 DEF TabGroupsOK, TabTypes, BrowserOK, Known
  <2>2. /\ t \in db[home[t]] \/ home[t] \in clobbered
        /\ t \in tabsOf[gen][home[t]] \cup rows[home[t]] \/ home[t] \in clobbered
    BY DEF TabGroupsOK, TrackingOK, Mirrored, TG!OpenTabsStayTracked
  <2>3. CASE home[t] # g
    BY <1>2, <1>3, <2>1, <2>2, <2>3
  <2>4. CASE home[t] = g /\ g \notin clobbered'
    <3>1. t \in tabs
      BY <1>1, <2>1, <2>2, <2>4
    <3> QED
      BY <1>2, <1>3, <2>1, <2>2, <2>4, <3>1
  <2> QED
    BY <2>3, <2>4
<1>7. TrackingOK'
  BY <1>1, <1>6 DEF TrackingOK, Mirrored, TG!OpenTabsStayTracked
<1> QED
  BY <1>1, <1>4, <1>5, <1>7, BrowserKept, CommandsKept DEF TabGroupsOK, TabTypes

LEMMA TabGroupsStep == TabGroupsOK /\ [TG!Next]_tabVars => TabGroupsOK'
<1> SUFFICES ASSUME TabGroupsOK, [TG!Next]_tabVars PROVE TabGroupsOK'
  OBVIOUS
<1>1. ASSUME UNCHANGED <<gen, rows, tabsOf, db, home, alive, opened, attached, debugged, forgetting,
                         command, overtaken, clobbered>>,
             rebuild' = rebuild \/ rebuild' = "idle"
      PROVE TabGroupsOK'
  <2>1. TabTypes' /\ TrackingOK'
    BY <1>1, SessionTypes DEF TabGroupsOK, TabTypes, BrowserOK, RegistryOK
  <2>2. BannerOK'
    BY <1>1 DEF TabGroupsOK, BannerOK, ReleasedIsOvertaken, TG!BannerOnlyWhileDriven, TG!At
  <2> QED
    BY <2>1, <2>2 DEF TabGroupsOK
<1>2. CASE UNCHANGED tabVars
  BY <1>1, <1>2 DEF tabVars
<1>3. CASE TG!Hydrated
  BY <1>1, <1>3 DEF TG!Hydrated, TG!registryVars, TG!browserVars, TG!sessionVars
<1>4. ASSUME NEW c \in Commands, TG!Command(c) PROVE TabGroupsOK'
  BY <1>4, OpenTabStep, BeginStep, EndStep, DriveStep, AttachedStep, CloseTabStep DEF TG!Command
<1>5. ASSUME NEW t \in Tabs, TG!UserCloses(t) PROVE TabGroupsOK'
  <2>1. CommandsOK'
    BY <1>5, CommandsKept DEF TG!UserCloses, TG!Remove, TabGroupsOK
  <2> QED
    BY <1>5, <2>1, TabGoes DEF TG!UserCloses, TG!rebuildVars, TG!registryVars, TabGroupsOK, TabTypes, BrowserOK
<1> QED
  BY <1>2, <1>3, <1>4, <1>5, ReleaseStep, ForgetStep, SwitchStep, HydrateStep DEF TG!Next

THEOREM TabGroupsInvariance == Spec => []TabGroupsOK
<1>1. Init => TabGroupsOK
  BY TabGroupsInit DEF Init
<1>2. TabGroupsOK /\ [Next]_vars => TabGroupsOK'
  BY TabGroupsStep, StepOfEach
<1> QED
  BY <1>1, <1>2, PTL DEF Spec

(* The "being debugged" banner stays only where a command was overtaken    *)
(* (background.ts:25-28, :73-75).                                          *)
THEOREM ControlIsReleased == Spec => []BannerOnlyWhileDriven
  BY TabGroupsInvariance, PTL DEF TabGroupsOK, BannerOK, BannerOnlyWhileDriven

(* A tab that was opened stays in its group (group-registry.ts:46-78).     *)
THEOREM OpenedIsTracked == Spec => []OpenTabsStayTracked
  BY TabGroupsInvariance, PTL DEF TabGroupsOK, TrackingOK, OpenTabsStayTracked
=============================================================================
