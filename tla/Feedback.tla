------------------------------ MODULE Feedback ------------------------------
(***************************************************************************)
(* browser-extension: request_feedback asks the user of a tab and waits.   *)
(* The question is painted over the page, or shown in the side panel when  *)
(* the page cannot be painted on; the toolbar badge asks for attention.    *)
(* An answer, the timeout or a cancel of the broker settles the request.   *)
(*                                                                         *)
(* Scripts injected into one tab run in the order they were sent, so the   *)
(* one that removes an overlay comes after the one that paints it.         *)
(***************************************************************************)
EXTENDS Naturals

CONSTANTS Requests, Tabs, None

VARIABLES
  state,        \* "idle", "pending" or "done"
  tab,          \* the tab of each request
  surface,      \* how far the request has come with showing itself
  raise,        \* how far flagAttention() has come
  attention,    \* attentionCount
  badge,        \* whether the toolbar shows "?"
  painted,      \* the requests with an overlay in their page
  keys,         \* the requests with a keydown listener in their page
  session,      \* activeSession
  panelOnClick, \* whether the toolbar icon opens the panel instead of the popup
  answers,      \* the results on their way to the worker
  cancellers,   \* the requests the current router can cancel
  late,         \* settled while the badge or the panel was being set up
  takenOver     \* lost the panel to another request

feedbackVars == <<state, tab, surface, raise, attention, badge, painted, keys, session,
                  panelOnClick, answers, cancellers, late, takenOver>>
pageVars == <<painted, keys>>
panelVars == <<session, panelOnClick>>

Init ==
  /\ state = [r \in Requests |-> "idle"] /\ tab = [r \in Requests |-> None]
  /\ surface = [r \in Requests |-> "none"] /\ raise = [r \in Requests |-> "none"]
  /\ attention = 0 /\ badge = FALSE
  /\ painted = {} /\ keys = {}
  /\ session = None /\ panelOnClick = FALSE
  /\ answers = {} /\ cancellers = {} /\ late = {} /\ takenOver = {}

-----------------------------------------------------------------------------
(* startFeedback(), and the canceller the router registers.                *)
Start(r, t) ==
  /\ state[r] = "idle"
  /\ state' = [state EXCEPT ![r] = "pending"]
  /\ tab' = [tab EXCEPT ![r] = t]
  /\ surface' = [surface EXCEPT ![r] = "injecting"]
  /\ raise' = [raise EXCEPT ![r] = "colour"] /\ attention' = attention + 1
  /\ cancellers' = cancellers \union {r}
  /\ UNCHANGED <<badge, pageVars, panelVars, answers, late, takenOver>>

(* flagAttention(): the colour of the badge is set, then its text.         *)
BadgeText(r) ==
  /\ raise[r] = "colour"
  /\ raise' = [raise EXCEPT ![r] = "raised"] /\ badge' = TRUE
  /\ UNCHANGED <<state, tab, surface, attention, pageVars, panelVars, answers, cancellers,
                 late, takenOver>>

(* showFeedbackOverlay(): of a request that is settled by now the overlay  *)
(* goes at once, and the listener stays.                                   *)
Painted(r) ==
  /\ surface[r] = "injecting"
  /\ surface' = [surface EXCEPT ![r] = "shown"]
  /\ painted' = IF state[r] = "pending" THEN painted \union {r} ELSE painted
  /\ keys' = keys \union {r}
  /\ UNCHANGED <<state, tab, raise, attention, badge, panelVars, answers, cancellers, late, takenOver>>

(* The page refuses: the panel is tried, unless the request is settled.    *)
CannotPaint(r) ==
  /\ surface[r] = "injecting"
  /\ surface' = [surface EXCEPT ![r] = IF state[r] = "pending" THEN "capturing" ELSE "none"]
  /\ UNCHANGED <<state, tab, raise, attention, badge, pageVars, panelVars, answers, cancellers,
                 late, takenOver>>

-----------------------------------------------------------------------------
ClearSession(r) ==
  IF session = r THEN session' = None /\ panelOnClick' = FALSE ELSE UNCHANGED panelVars

ClearAttention ==
  /\ attention' = attention - 1
  /\ badge' = IF attention = 1 THEN FALSE ELSE badge

FinishKeepingSession(r) ==
  /\ state' = [state EXCEPT ![r] = "done"]
  /\ painted' = painted \ {r}
  /\ ClearAttention
  /\ cancellers' = cancellers \ {r}
  /\ late' = IF surface[r] \in {"capturing", "enabling"} \/ raise[r] = "colour"
             THEN late \union {r} ELSE late
  /\ UNCHANGED panelVars

(* finish(), and the router's "finally".                                   *)
Finish(r) ==
  /\ state' = [state EXCEPT ![r] = "done"]
  /\ painted' = painted \ {r}
  /\ ClearSession(r)
  /\ ClearAttention
  /\ cancellers' = cancellers \ {r}
  /\ late' = IF surface[r] \in {"capturing", "enabling"} \/ raise[r] = "colour"
             THEN late \union {r} ELSE late

(* openSidePanelFallback(): the tab is captured and the session is set,    *)
(* for a request that may be settled by now ...                            *)
Captured(r) ==
  /\ surface[r] = "capturing"
  /\ session' = r
  /\ takenOver' = IF session # None THEN takenOver \union {session} ELSE takenOver
  /\ surface' = [surface EXCEPT ![r] = "enabling"]
  /\ UNCHANGED <<state, tab, raise, attention, badge, pageVars, panelOnClick, answers, cancellers, late>>

(* ... and the panel is enabled.                                           *)
Enabled(r) ==
  /\ surface[r] = "enabling"
  /\ surface' = [surface EXCEPT ![r] = "panel"] /\ panelOnClick' = TRUE
  /\ UNCHANGED <<state, tab, raise, attention, badge, pageVars, session, answers, cancellers,
                 late, takenOver>>

(* No panel, no screenshot, or the panel cannot be enabled: the request    *)
(* ends with an error, and so does the session, whoever's it is by now.    *)
FallbackFails(r) ==
  /\ surface[r] \in {"capturing", "enabling"}
  /\ surface' = [surface EXCEPT ![r] = "none"]
  /\ LET s == IF surface[r] = "enabling" THEN None ELSE session IN
       IF state[r] = "pending"
       THEN /\ state' = [state EXCEPT ![r] = "done"]
            /\ session' = IF s = r THEN None ELSE s
            /\ panelOnClick' = IF s = r THEN FALSE ELSE panelOnClick
            /\ ClearAttention
            /\ cancellers' = cancellers \ {r}
            /\ late' = IF raise[r] = "colour" THEN late \union {r} ELSE late
       ELSE session' = s /\ UNCHANGED <<state, panelOnClick, attention, badge, cancellers, late>>
  /\ takenOver' = IF surface[r] = "enabling" /\ session \notin {None, r}
                  THEN takenOver \union {session} ELSE takenOver
  /\ UNCHANGED <<tab, raise, pageVars, answers>>

-----------------------------------------------------------------------------
(* The user answers in the page: the overlay goes, and its listener.       *)
AnswerInPage(r) ==
  /\ r \in painted
  /\ painted' = painted \ {r} /\ keys' = keys \ {r}
  /\ answers' = answers \union {r}
  /\ UNCHANGED <<state, tab, surface, raise, attention, badge, panelVars, cancellers, late, takenOver>>

(* Escape reaches every listener of the page, and skips all its requests.  *)
Escape(t) ==
  LET heard == {r \in keys : tab[r] = t} IN
  /\ heard # {}
  /\ painted' = painted \ heard /\ keys' = keys \ heard
  /\ answers' = answers \union heard
  /\ UNCHANGED <<state, tab, surface, raise, attention, badge, panelVars, cancellers, late, takenOver>>

AnswerInPanel(r) ==
  /\ session = r /\ surface[r] = "panel"
  /\ answers' = answers \union {r}
  /\ UNCHANGED <<state, tab, surface, raise, attention, badge, pageVars, panelVars, cancellers,
                 late, takenOver>>

(* The page navigates: what was injected is gone, the request waits on.    *)
PageNavigates(t) ==
  LET gone == {r \in painted \union keys : tab[r] = t} IN
  /\ gone # {}
  /\ painted' = painted \ gone /\ keys' = keys \ gone
  /\ UNCHANGED <<state, tab, surface, raise, attention, badge, panelVars, answers, cancellers,
                 late, takenOver>>

(* The listener of the request takes its first result.                     *)
ResultArrives(r) ==
  /\ r \in answers /\ answers' = answers \ {r}
  /\ IF state[r] = "pending" THEN Finish(r)
     ELSE UNCHANGED <<state, painted, panelVars, attention, badge, cancellers, late>>
  /\ UNCHANGED <<tab, surface, raise, keys, takenOver>>

TimedOut(r) ==
  /\ state[r] = "pending" /\ Finish(r)
  /\ UNCHANGED <<tab, surface, raise, keys, answers, takenOver>>

Cancel(r) ==
  /\ r \in cancellers /\ Finish(r)
  /\ UNCHANGED <<tab, surface, raise, keys, answers, takenOver>>

(* rebuild(): the new router knows no request, and a cancel is lost.       *)
Rebuild ==
  /\ cancellers # {} /\ cancellers' = {}
  /\ UNCHANGED <<state, tab, surface, raise, attention, badge, pageVars, panelVars, answers,
                 late, takenOver>>

Next ==
  \/ \E r \in Requests, t \in Tabs : Start(r, t)
  \/ \E r \in Requests :
       \/ BadgeText(r) \/ Painted(r) \/ CannotPaint(r) \/ Captured(r) \/ Enabled(r) \/ FallbackFails(r)
       \/ AnswerInPage(r) \/ AnswerInPanel(r) \/ ResultArrives(r) \/ TimedOut(r) \/ Cancel(r)
  \/ \E t \in Tabs : Escape(t) \/ PageNavigates(t)
  \/ Rebuild

Spec == Init /\ [][Next]_feedbackVars

-----------------------------------------------------------------------------
Pending == {r \in Requests : state[r] = "pending"}

(* "Whatever ends it, the overlay is torn down and the attention flag      *)
(* cleared" (feedback.ts:7-8), and the toolbar has its popup back          *)
(* (feedback-side-panel.ts:88-104): what the user sees belongs to a request*)
(* that waits, and the badge is up as long as one does.  A request that    *)
(* settled while badge or panel was being set up may leave them, and two   *)
(* requests that use the one panel may.                                    *)
SurfacesEndWithTheirRequest ==
  /\ painted \subseteq Pending
  /\ session \in Pending \union late \union {None}
  /\ panelOnClick => session # None \/ late # {} \/ takenOver # {}
  /\ badge => Pending # {} \/ late # {}
  /\ (\E r \in Pending : raise[r] = "raised") => badge
=============================================================================
