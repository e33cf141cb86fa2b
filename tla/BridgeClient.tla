---------------------------- MODULE BridgeClient ----------------------------
(***************************************************************************)
(* browser-extension: the socket a browser keeps to the bridge.            *)
(*                                                                         *)
(* Every openSocket() reads the settings and writes the status row before  *)
(* it creates a socket, and several of them can be on their way at once:   *)
(* a call is a member of Dials.  The client looks only at the last socket  *)
(* created (this.ws), so that one is all there is of a socket: one that is *)
(* replaced, or closed by disconnect() or reconnect(), has no effect left. *)
(* The heartbeat is left out: a ping has no effect but the pong.           *)
(***************************************************************************)
EXTENDS Naturals

CONSTANTS
  Dials,       \* bounds the openSocket() calls on their way
  MaxEvents,   \* bounds what the user and the browser do
  MaxFaults    \* bounds the IndexedDB requests that fail

VARIABLES
  stopped, rejected,  \* the fields of the client
  link,        \* this.ws
  dial,        \* where each openSocket() call is
  timer,       \* the reconnect timer
  rebuilding,  \* the worker boots, or has a reconnect message in hand
  settings,    \* what the dashboard has saved
  host,        \* who listens on the port: nobody, or a broker that takes the token or not
  silenced,    \* a status row could not be written on the way to a socket
  events, faults

clientVars == <<stopped, rejected, link, dial, timer, rebuilding, settings, host, silenced,
                events, faults>>

Idle == [d \in Dials |-> "idle"]

Init ==
  /\ stopped = TRUE /\ rejected = FALSE
  /\ link = "none" /\ dial = Idle /\ timer = "none"
  /\ rebuilding = TRUE
  /\ settings \in {"empty", "saved"}
  /\ host \in {"down", "good", "bad"}
  /\ silenced = FALSE /\ events = 0 /\ faults = 0

-----------------------------------------------------------------------------
ScheduleReconnect == timer' = IF rejected THEN "slow" ELSE "fast"

(* connect(), of the boot or of a reconnect message: rebuild() is over.    *)
Connect ==
  /\ rebuilding
  /\ \E d \in Dials : dial[d] = "idle" /\ dial' = [dial EXCEPT ![d] = "config"]
  /\ rebuilding' = FALSE
  /\ stopped' = FALSE /\ rejected' = FALSE /\ timer' = "none" /\ link' = "none"
  /\ UNCHANGED <<settings, host, silenced, events, faults>>

FailUnchecked(d) ==
  /\ dial' = [dial EXCEPT ![d] = "idle"]
  /\ ScheduleReconnect

Fail(d) ==
  /\ dial' = [dial EXCEPT ![d] = "idle"]
  /\ IF stopped THEN UNCHANGED timer ELSE ScheduleReconnect

(* openSocket(): the settings are read ...                                 *)
GetConfig(d) ==
  /\ dial[d] = "config"
  /\ \/ /\ faults < MaxFaults /\ faults' = faults + 1
        /\ Fail(d)
     \/ /\ dial' = [dial EXCEPT ![d] = CASE settings = "empty"  -> "idle"
                                        [] settings = "badUrl" -> "badUrl"
                                        [] settings = "saved"  -> "status"]
        /\ UNCHANGED <<timer, faults>>
  /\ UNCHANGED <<stopped, rejected, link, rebuilding, settings, host, silenced, events>>

(* ... the status row says connecting, and the socket is created, whether  *)
(* or not disconnect() has been called since.                              *)
StatusWritten(d) ==
  /\ \/ dial[d] = "status" /\ link' = "connecting"
        /\ dial' = [dial EXCEPT ![d] = "idle"] /\ UNCHANGED timer
     \/ dial[d] = "badUrl" /\ Fail(d) /\ UNCHANGED link
  /\ UNCHANGED <<stopped, rejected, rebuilding, settings, host, silenced, events, faults>>

(* A rejected setStatus ends the call: nothing retries.                    *)
StatusLost(d) ==
  /\ dial[d] \in {"status", "badUrl"} /\ faults < MaxFaults
  /\ faults' = faults + 1 /\ silenced' = TRUE
  /\ dial' = [dial EXCEPT ![d] = "idle"]
  /\ UNCHANGED <<stopped, rejected, link, timer, rebuilding, settings, host, events>>

-----------------------------------------------------------------------------
(* The socket opens and hello is sent, or the port refuses.                *)
Open ==
  /\ link = "connecting"
  /\ link' = IF host = "down" THEN "dropped" ELSE "hello"
  /\ UNCHANGED <<stopped, rejected, dial, timer, rebuilding, settings, host, silenced, events, faults>>

(* The broker's answer: ready, or rejected and then a close.               *)
Ready ==
  /\ link = "hello" /\ host = "good"
  /\ link' = "ready" /\ rejected' = FALSE
  /\ UNCHANGED <<stopped, dial, timer, rebuilding, settings, host, silenced, events, faults>>

Rejected ==
  /\ link = "hello" /\ host = "bad"
  /\ link' = "dropped" /\ rejected' = TRUE
  /\ UNCHANGED <<stopped, dial, timer, rebuilding, settings, host, silenced, events, faults>>

OnCloseDormant ==
  /\ link = "dropped" /\ link' = "closed"
  /\ IF stopped \/ rejected THEN UNCHANGED timer ELSE ScheduleReconnect
  /\ UNCHANGED <<stopped, rejected, dial, rebuilding, settings, host, silenced, events, faults>>

OnClose ==
  /\ link = "dropped" /\ link' = "closed"
  /\ IF stopped THEN UNCHANGED timer ELSE ScheduleReconnect
  /\ UNCHANGED <<stopped, rejected, dial, rebuilding, settings, host, silenced, events, faults>>

(* The reconnect timer calls openSocket().                                 *)
Retry ==
  /\ timer # "none" /\ timer' = "none"
  /\ \E d \in Dials : dial[d] = "idle" /\ dial' = [dial EXCEPT ![d] = "config"]
  /\ UNCHANGED <<stopped, rejected, link, rebuilding, settings, host, silenced, events, faults>>

-----------------------------------------------------------------------------
Event == events < MaxEvents /\ events' = events + 1

Disconnect ==
  /\ Event
  /\ stopped' = TRUE /\ timer' = "none" /\ link' = "none"
  /\ UNCHANGED <<rejected, dial, rebuilding, settings, host, silenced, faults>>

(* The popup asks for a reconnect, the dashboard after it has saved.       *)
Reconnect ==
  /\ Event /\ ~rebuilding
  /\ rebuilding' = TRUE
  /\ settings' \in {settings, "saved", "badUrl"}
  /\ UNCHANGED <<stopped, rejected, link, dial, timer, host, silenced, faults>>

(* The browser ends the worker and starts it for the next event: the       *)
(* memory is lost, a disconnect of the user's with it.                     *)
WorkerRestart ==
  /\ Event
  /\ stopped' = TRUE /\ rejected' = FALSE /\ link' = "none" /\ dial' = Idle /\ timer' = "none"
  /\ rebuilding' = TRUE
  /\ UNCHANGED <<settings, host, silenced, faults>>

(* The process on the port leaves, or another takes it; a broker that      *)
(* stays may come to refuse the token, and keeps the links it has.         *)
HostChanges(h) ==
  /\ host # h /\ host' = h
  /\ link' = IF h = "down" /\ link \in {"hello", "ready"} THEN "dropped" ELSE link
  /\ UNCHANGED <<stopped, rejected, dial, timer, rebuilding, settings, silenced, events, faults>>

Own ==
  \/ Connect \/ Open \/ Ready \/ Rejected \/ OnClose \/ Retry
  \/ \E d \in Dials : GetConfig(d) \/ StatusWritten(d)

Next ==
  \/ Own
  \/ \E d \in Dials : StatusLost(d)
  \/ Disconnect \/ Reconnect \/ WorkerRestart
  \/ \E h \in {"down", "good", "bad"} : HostChanges(h)

(* Requests and sockets answer and timers fire.                            *)
Fairness ==
  /\ WF_clientVars(Connect) /\ WF_clientVars(Open) /\ WF_clientVars(Ready)
  /\ WF_clientVars(Rejected) /\ WF_clientVars(OnClose) /\ WF_clientVars(Retry)
  /\ \A d \in Dials : WF_clientVars(GetConfig(d)) /\ WF_clientVars(StatusWritten(d))

Spec == Init /\ [][Next]_clientVars /\ Fairness

-----------------------------------------------------------------------------
(* "NOT dormant: we keep retrying at this cadence so the link self-heals   *)
(* the moment a good host comes back" (bridge-client.ts:14-18): whatever   *)
(* drops, rejections and replaced sockets there were.  A status row that   *)
(* could not be written is the one thing that leaves a client dormant.     *)
LinkHeals ==
  (~stopped /\ link # "ready") ~>
    (link = "ready" \/ stopped \/ host # "good" \/ settings # "saved" \/ silenced)

(* disconnect() is the user's last word (bridge-client.ts:98-106): until   *)
(* somebody connects, no event or failure of what was under way begins an  *)
(* openSocket().  The one on its way at that moment still connects.        *)
NoDialWhileStopped ==
  [][stopped /\ stopped' => \A d \in Dials : dial[d] = "idle" => dial'[d] = "idle"]_clientVars
=============================================================================
