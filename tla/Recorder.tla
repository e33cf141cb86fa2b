------------------------------- MODULE Recorder -------------------------------
(***************************************************************************)
(* TelemetryRecorder of core-otel: what it keeps per session, message,     *)
(* tool call and permission while the events and hooks of the host arrive, *)
(* which spans are open, and what its counters have counted.  A handler    *)
(* runs to its end, so each is an action.                                  *)
(*                                                                         *)
(* The host is external.  It repeats its updates, in any order with those  *)
(* of other sessions; it is silent about a session it has deleted and      *)
(* after the instance is disposed.                                         *)
(***************************************************************************)
EXTENDS Integers, FiniteSets

CONSTANTS
  Sessions, Messages, ToolCalls, Permissions,
  Owner,      \* the session of each message, call and permission
  Filtered,   \* the calls of tools that get no span
  MaxLines    \* bound: the size of the diff of a session

VARIABLES
  kept,       \* the maps of the recorder
  spans,      \* how many spans are open
  counted,    \* per message, call, permission: how often its counter was raised (2: or more)
  lines,      \* per session: lines of code counted
  host        \* what the host has said

recorderVars == <<kept, spans, counted, lines, host>>

Items == Messages \cup ToolCalls \cup Permissions
Of(s) == {x \in Items : Owner[x] = s}

Init ==
  /\ kept = [sessions     |-> [s \in Sessions |-> "unknown"],
             busy         |-> {},
             pendingChats |-> {}, chats |-> {}, tools |-> {},
             finalizedMessages |-> {}, finishedTools |-> {}, responseLengths |-> {},
             permissions  |-> {}, autoDecided |-> {},
             diffs        |-> [s \in Sessions |-> 0]]
  /\ spans = 0
  /\ counted = [x \in Items |-> 0]
  /\ lines = [s \in Sessions |-> 0]
  /\ host = [created |-> {}, deleted |-> {}, disposed |-> FALSE,
             started |-> {}, ended |-> {}, settled |-> {}, repeated |-> {},
             diff |-> [s \in Sessions |-> 0], grown |-> [s \in Sessions |-> 0]]

Count(x) == counted' = [counted EXCEPT ![x] = IF @ < 2 THEN @ + 1 ELSE 2]

(* The state of a session, made without a span when it was not created.    *)
Session(s) ==
  [kept EXCEPT !.sessions[s] = IF @ = "unknown" THEN "plain" ELSE @]

Live(s) == ~host.disposed /\ s \notin host.deleted

(* The host reports that x has ended, once more or for the first time.     *)
Ends(x) ==
  host' = [host EXCEPT !.ended = @ \cup {x},
                       !.repeated = IF x \in host.settled THEN @ \cup {x} ELSE @]

SessionCreated(s) ==
  /\ Live(s) /\ s \notin host.created
  /\ kept' = [kept EXCEPT !.sessions[s] = "span", !.busy = @ \ {s}]
  /\ spans' = spans + 1
  /\ host' = [host EXCEPT !.created = @ \cup {s}]
  /\ UNCHANGED <<counted, lines>>

(* The handlers that need no more of a session than its context.           *)
Mention(s) ==
  /\ Live(s) /\ kept' = Session(s)
  /\ UNCHANGED <<spans, counted, lines, host>>

Compacted(s)              == Mention(s)
SessionError(s)           == Mention(s)
CommandExecuted(s)        == Mention(s)
TodoUpdated(s)            == Mention(s)
ChatMessage(s)            == Mention(s)
CompactionAutocontinue(s) == Mention(s)

SessionStatus(s, status) ==
  /\ Live(s)
  /\ kept' = [Session(s) EXCEPT !.busy = CASE status = "busy"  -> @ \cup {s}
                                           [] status = "retry" -> @
                                           [] status = "idle"  -> @ \ {s}]
  /\ UNCHANGED <<spans, counted, lines, host>>

(* pruneCompleted: the ids that keep an update from being counted again.   *)
Prune(k, s) ==
  [k EXCEPT !.finalizedMessages = @ \ Of(s),
            !.responseLengths = @ \ (k.finalizedMessages \cap Of(s)),
            !.finishedTools = @ \ Of(s)]

SpanOf(s) == IF kept.sessions[s] = "span" THEN 1 ELSE 0

SessionIdle(s) ==
  /\ Live(s)
  /\ IF kept.sessions[s] = "unknown" THEN UNCHANGED <<kept, spans, host>>
     ELSE /\ kept' = Prune([kept EXCEPT !.sessions[s] = "unknown", !.busy = @ \ {s}], s)
          /\ spans' = spans - SpanOf(s)
          /\ host' = [host EXCEPT !.settled = @ \cup (host.ended \cap Of(s))]
  /\ UNCHANGED <<counted, lines>>

(* Cumulative: only what is new since the last report is counted.          *)
SessionDiff(s, n) ==
  LET grew(old) == IF n > old THEN n - old ELSE 0
  IN  /\ Live(s) /\ host.grown[s] + grew(host.diff[s]) <= MaxLines
      /\ kept' = [Session(s) EXCEPT !.diffs[s] = n]
      /\ lines' = [lines EXCEPT ![s] = @ + grew(kept.diffs[s])]
      /\ host' = [host EXCEPT !.diff[s] = n, !.grown[s] = @ + grew(host.diff[s])]
      /\ UNCHANGED <<spans, counted>>

(* The chat of a message: the one it has, the one chat.params opened for   *)
(* its session, or a new one.                                              *)
WithChat(m) ==
  [Session(Owner[m]) EXCEPT !.chats = @ \cup {m},
                            !.pendingChats = IF m \in kept.chats THEN @ ELSE @ \ {Owner[m]}]

NewSpan(m) == IF m \in kept.chats \/ Owner[m] \in kept.pendingChats THEN 0 ELSE 1

MessageUpdated(m) ==
  /\ Live(Owner[m]) /\ m \notin host.ended
  /\ kept' = WithChat(m) /\ spans' = spans + NewSpan(m)
  /\ UNCHANGED <<counted, lines, host>>

MessageCompletedUnmarked(m) ==
  /\ Live(Owner[m]) /\ Ends(m)
  /\ kept' = [WithChat(m) EXCEPT !.chats = @ \ {m}, !.responseLengths = @ \ {m}]
  /\ spans' = spans + NewSpan(m) - 1
  /\ Count(m) /\ UNCHANGED lines

MessageCompleted(m) ==
  /\ Live(Owner[m]) /\ Ends(m)
  /\ IF m \in kept.finalizedMessages THEN UNCHANGED <<kept, spans, counted>>
     ELSE /\ kept' = [WithChat(m) EXCEPT !.finalizedMessages = @ \cup {m}, !.chats = @ \ {m},
                                         !.responseLengths = @ \ {m}]
          /\ spans' = spans + NewSpan(m) - 1
          /\ Count(m)
  /\ UNCHANGED lines

ChatParamsLeavesOldSpan(s) ==
  /\ Live(s)
  /\ kept' = [Session(s) EXCEPT !.pendingChats = @ \cup {s}]
  /\ spans' = spans + 1
  /\ UNCHANGED <<counted, lines, host>>

(* A pending chat of the session never got its message: its span ends.     *)
ChatParams(s) ==
  /\ Live(s)
  /\ kept' = [Session(s) EXCEPT !.pendingChats = @ \cup {s}]
  /\ spans' = IF s \in kept.pendingChats THEN spans ELSE spans + 1
  /\ UNCHANGED <<counted, lines, host>>

TextComplete(m) ==
  /\ Live(Owner[m]) /\ m \notin host.ended
  /\ kept' = [kept EXCEPT !.responseLengths = @ \cup {m}]
  /\ UNCHANGED <<spans, counted, lines, host>>

ToolBefore(c) ==
  /\ Live(Owner[c]) /\ c \notin host.started \cup host.ended
  /\ kept' = [Session(Owner[c]) EXCEPT !.tools = @ \cup {c}]
  /\ spans' = IF c \in Filtered THEN spans ELSE spans + 1
  /\ host' = [host EXCEPT !.started = @ \cup {c}]
  /\ UNCHANGED <<counted, lines>>

(* finishTool: reported by the hook, by the part, or by both.              *)
Finish(c) ==
  /\ Live(Owner[c]) /\ Ends(c)
  /\ IF c \in kept.finishedTools THEN UNCHANGED <<kept, spans, counted>>
     ELSE /\ kept' = [Session(Owner[c]) EXCEPT !.tools = @ \ {c},
                                               !.finishedTools = @ \cup {c}]
          /\ spans' = IF c \in kept.tools \ Filtered THEN spans - 1 ELSE spans
          /\ Count(c)
  /\ UNCHANGED lines

ToolAfter(c)   == c \in host.started /\ Finish(c)
PartUpdated(c) == Finish(c)

PermissionUpdated(p) ==
  /\ Live(Owner[p]) /\ p \notin host.started
  /\ kept' = [kept EXCEPT !.permissions = @ \cup {p}]
  /\ host' = [host EXCEPT !.started = @ \cup {p}]
  /\ UNCHANGED <<spans, counted, lines>>

(* permission.ask of a prompt that the configuration decides.              *)
PermissionAsk(p) ==
  /\ Live(Owner[p]) /\ p \notin host.started \cup host.ended
  /\ host' = [host EXCEPT !.ended = @ \cup {p}]
  /\ kept' = [Session(Owner[p]) EXCEPT !.autoDecided = @ \cup {p}]
  /\ Count(p)
  /\ UNCHANGED <<spans, lines>>

(* A reply to a prompt, or to one that was decided already.                *)
PermissionReplied(p) ==
  /\ Live(Owner[p])
  /\ p \in (host.started \ host.ended) \cup kept.autoDecided
  /\ host' = [host EXCEPT !.ended = @ \cup {p}]
  /\ IF p \in kept.autoDecided
     THEN kept' = [kept EXCEPT !.autoDecided = @ \ {p}] /\ UNCHANGED counted
     ELSE kept' = [Session(Owner[p]) EXCEPT !.permissions = @ \ {p}] /\ Count(p)
  /\ UNCHANGED <<spans, lines>>

ForgottenSpans(s) ==
  SpanOf(s) + Cardinality(kept.pendingChats \cap {s})
            + Cardinality((kept.chats \cup (kept.tools \ Filtered)) \cap Of(s))

SessionDeletedKeepsTools(s) ==
  /\ Live(s) /\ s \in host.created
  /\ kept' = Prune([kept EXCEPT !.sessions[s] = "unknown", !.busy = @ \ {s},
                      !.pendingChats = @ \ {s}, !.chats = @ \ Of(s),
                      !.permissions = @ \ Of(s)], s)
  /\ spans' = spans - SpanOf(s) - Cardinality(kept.pendingChats \cap {s})
                    - Cardinality(kept.chats \cap Of(s))
  /\ host' = [host EXCEPT !.deleted = @ \cup {s}]
  /\ UNCHANGED <<counted, lines>>

(* forgetSession: the ids of auto-decided permissions and the lengths of   *)
(* unfinished messages are found through other maps.                       *)
SessionDeleted(s) ==
  /\ Live(s) /\ s \in host.created
  /\ kept' = Prune([kept EXCEPT !.sessions[s] = "unknown", !.busy = @ \ {s},
                      !.pendingChats = @ \ {s}, !.chats = @ \ Of(s), !.tools = @ \ Of(s),
                      !.diffs[s] = 0,
                      !.permissions = @ \ Of(s),
                      !.autoDecided = @ \ (kept.permissions \cap Of(s))], s)
  /\ spans' = spans - ForgottenSpans(s)
  /\ host' = [host EXCEPT !.deleted = @ \cup {s}]
  /\ UNCHANGED <<counted, lines>>

SpansHeld ==
  Cardinality({s \in Sessions : kept.sessions[s] = "span"}) + Cardinality(kept.pendingChats)
  + Cardinality(kept.chats) + Cardinality(kept.tools \ Filtered)

(* server.instance.disposed: shutdown ends what is open.                   *)
Shutdown ==
  /\ ~host.disposed
  /\ kept' = [kept EXCEPT !.sessions = [s \in Sessions |-> "unknown"], !.busy = {},
                          !.chats = {}, !.pendingChats = {}, !.tools = {}]
  /\ spans' = spans - SpansHeld
  /\ host' = [host EXCEPT !.disposed = TRUE]
  /\ UNCHANGED <<counted, lines>>

Next ==
  \/ \E s \in Sessions :
       \/ SessionCreated(s) \/ SessionIdle(s) \/ SessionDeleted(s) \/ ChatParams(s)
       \/ Compacted(s) \/ SessionError(s) \/ CommandExecuted(s) \/ TodoUpdated(s)
       \/ ChatMessage(s) \/ CompactionAutocontinue(s)
       \/ \E status \in {"busy", "retry", "idle"} : SessionStatus(s, status)
       \/ \E n \in 0..MaxLines : SessionDiff(s, n)
  \/ \E m \in Messages : MessageUpdated(m) \/ MessageCompleted(m) \/ TextComplete(m)
  \/ \E c \in ToolCalls : ToolBefore(c) \/ ToolAfter(c) \/ PartUpdated(c)
  \/ \E p \in Permissions : PermissionUpdated(p) \/ PermissionAsk(p) \/ PermissionReplied(p)
  \/ Shutdown

Spec == Init /\ [][Next]_recorderVars

-----------------------------------------------------------------------------
(* Messages, calls and decisions are counted exactly once, however often   *)
(* and by whichever path they are reported (recorder.ts:116-124), and    *)
(* the lines as often as the diff grew, across idle sessions.  Only an     *)
(* update that is repeated after the session went idle is counted again:   *)
(* pruneCompleted has forgotten the id (recorder.ts:765).                  *)
CountedOnce ==
  /\ \A x \in Items \ host.repeated : counted[x] = IF x \in host.ended THEN 1 ELSE 0
  /\ \A s \in Sessions : lines[s] = host.grown[s]

(* Every open span is held by an entry that will end it: sessions resume,  *)
(* chats are adopted, requests are abandoned, calls finish twice.          *)
NoSpanIsLost == spans = SpansHeld

(* "Drop every per-session entry" (recorder.ts:724), except for the ids of *)
(* auto-decided prompts and the lengths of messages that never completed.  *)
NothingOfADeletedSession ==
  \A s \in host.deleted \ (IF host.disposed THEN Sessions ELSE {}) :
    /\ kept.sessions[s] = "unknown" /\ s \notin kept.busy \cup kept.pendingChats
    /\ (kept.chats \cup kept.tools \cup kept.finalizedMessages \cup kept.finishedTools
        \cup kept.permissions) \cap Of(s) = {}
=============================================================================
