---------------------------- MODULE WaitersProofs ----------------------------
(***************************************************************************)
(* Theorems about the components of Waiters.  Each has an inductive        *)
(* invariant of its own, and every step of the whole is a step of each     *)
(* component or leaves it alone.                                           *)
(***************************************************************************)
EXTENDS Waiters, WellFoundedInduction, TLAPS

LEMMA StepOfEach ==
  ASSUME [WaitingNext]_allVars
  PROVE /\ [RL!Next]_rateVars /\ [EX!Next]_exportVars /\ [EP!Next]_endpointVars
        /\ [BC!Next]_clientVars /\ [LO!Next]_loginVars
<1>1. CASE UNCHANGED allVars
  BY <1>1 DEF allVars
<1>2. CASE WaitingNext
  BY <1>2 DEF WaitingNext
<1> QED
  BY <1>1, <1>2

-----------------------------------------------------------------------------
(* The socket of the extension (BridgeClient): a client that was told to   *)
(* stop has no timer that could dial.                                      *)

ClientOK ==
  /\ dial \in [Dials -> {"idle", "config", "status", "badUrl"}]
  /\ settings \in {"empty", "saved", "badUrl"}
  /\ stopped => timer = "none"

LEMMA ClientStep ==
  ASSUME ClientOK, [BC!Next]_clientVars
  PROVE /\ ClientOK'
        /\ stopped /\ stopped' => \A d \in Dials : dial[d] = "idle" => dial'[d] = "idle"
<1> USE DEF ClientOK
<1>1. CASE UNCHANGED clientVars
  BY <1>1 DEF clientVars
<1>2. CASE BC!Connect \/ BC!Retry
  BY <1>2 DEF BC!Connect, BC!Retry
<1>3. CASE BC!Open \/ BC!Ready \/ BC!Rejected
  BY <1>3 DEF BC!Open, BC!Ready, BC!Rejected
<1>4. CASE BC!OnClose
  BY <1>4 DEF BC!OnClose, BC!ScheduleReconnect
<1>5. ASSUME NEW d \in Dials, BC!GetConfig(d) \/ BC!StatusWritten(d) \/ BC!StatusLost(d)
      PROVE /\ ClientOK'
            /\ stopped /\ stopped' => \A e \in Dials : dial[e] = "idle" => dial'[e] = "idle"
  <2>1. CASE BC!GetConfig(d)
    <3>1. PICK v : dial' = [dial EXCEPT ![d] = v] /\ v \in {"idle", "config", "status", "badUrl"}
      BY <2>1 DEF BC!GetConfig, BC!Fail
    <3> QED
      BY <2>1, <3>1 DEF BC!GetConfig, BC!Fail, BC!ScheduleReconnect
  <2>2. CASE BC!StatusWritten(d)
    BY <2>2 DEF BC!StatusWritten, BC!Fail, BC!ScheduleReconnect
  <2>3. CASE BC!StatusLost(d)
    BY <2>3 DEF BC!StatusLost
  <2> QED
    BY <1>5, <2>1, <2>2, <2>3
<1>6. CASE BC!Disconnect \/ BC!Reconnect \/ BC!WorkerRestart
  BY <1>6 DEF BC!Disconnect, BC!Reconnect, BC!WorkerRestart, BC!Event, BC!Idle
<1>7. ASSUME NEW h, BC!HostChanges(h)
      PROVE /\ ClientOK'
            /\ stopped /\ stopped' => \A e \in Dials : dial[e] = "idle" => dial'[e] = "idle"
  BY <1>7 DEF BC!HostChanges
<1> QED
  BY <1>1, <1>2, <1>3, <1>4, <1>5, <1>6, <1>7 DEF BC!Next, BC!Own

(* disconnect() is the user's last word (bridge-client.ts:98-106).         *)
THEOREM DisconnectIsTheLastWord == WaitingSpec => NoDialWhileStopped
<1>1. WaitingInit => ClientOK
  BY DEF WaitingInit, BC!Init, BC!Idle, ClientOK
<1>2. ClientOK /\ [WaitingNext]_allVars => ClientOK'
  BY StepOfEach, ClientStep
<1>3. ClientOK /\ [WaitingNext]_allVars =>
        [stopped /\ stopped' => \A d \in Dials : dial[d] = "idle" => dial'[d] = "idle"]_clientVars
  BY StepOfEach, ClientStep
<1> QED
  BY <1>1, <1>2, <1>3, PTL
     DEF WaitingSpec, NoDialWhileStopped, BC!NoDialWhileStopped, clientVars, BC!clientVars

-----------------------------------------------------------------------------
(* Credentials for telemetry (Exporters): a helper runs only while no      *)
(* token is usable, and a batch that has passed the gate has one, unless   *)
(* it was disturbed.                                                       *)

Usable == token # None /\ valid

BatchRecord ==
  [pc : {"none", "buffered", "gate", "gate_waits", "send", "send_waits", "sent", "skipped",
         "exported", "failed"},
   header : Nat \cup {None}, disturbed : BOOLEAN]

ExportersOK ==
  /\ issued \in Nat /\ helper \in BOOLEAN /\ valid \in BOOLEAN
  /\ batch \in [Batches -> BatchRecord]
  /\ token \in Nat \cup {None}
  /\ helper => ~Usable
  /\ \A b \in Batches : /\ batch[b].pc = "send" /\ ~batch[b].disturbed => Usable
                        /\ batch[b].pc = "send_waits" => batch[b].disturbed
  /\ EX!FailClosed

LEMMA Resumed ==
  ASSUME NEW r \in BatchRecord, NEW h \in Nat \cup {None}
  PROVE /\ EX!Resume(r, h) \in BatchRecord /\ EX!Resume(r, h).disturbed = r.disturbed
        /\ r.pc \in {"gate", "gate_waits"} =>
             EX!Resume(r, h).pc = IF h = None THEN "skipped" ELSE "send"
        /\ r.pc \notin {"gate", "gate_waits"} =>
             EX!Resume(r, h).pc = "sent" /\ EX!Resume(r, h).header = h
<1>1. CASE r.pc \in {"gate", "gate_waits"} /\ h = None
  BY <1>1 DEF EX!Resume, BatchRecord
<1>2. CASE r.pc \in {"gate", "gate_waits"} /\ h # None
  BY <1>2 DEF EX!Resume, BatchRecord
<1>3. CASE r.pc \notin {"gate", "gate_waits"}
  BY <1>3 DEF EX!Resume, BatchRecord
<1> QED
  BY <1>1, <1>2, <1>3

\* A disturbance marks the batches between the gate and their request.
LEMMA Disturbed ==
  ASSUME batch \in [Batches -> BatchRecord]
  PROVE /\ EX!Disturb \in [Batches -> BatchRecord]
        /\ \A b \in Batches :
             /\ EX!Disturb[b].pc = batch[b].pc /\ EX!Disturb[b].header = batch[b].header
             /\ EX!Disturb[b].disturbed = (batch[b].disturbed \/ batch[b].pc \in {"send", "send_waits"})
<1> DEFINE d(b) == batch[b].disturbed \/ batch[b].pc \in {"send", "send_waits"}
           r(b) == [batch[b] EXCEPT !.disturbed = d(b)]
<1>1. EX!Disturb = [b \in Batches |-> r(b)]
  BY DEF EX!Disturb
<1>2. ASSUME NEW b \in Batches
      PROVE r(b) \in BatchRecord /\ r(b).pc = batch[b].pc /\ r(b).header = batch[b].header
            /\ r(b).disturbed = d(b)
  <2>1. d(b) \in BOOLEAN /\ batch[b] \in BatchRecord
    BY DEF BatchRecord
  <2> HIDE DEF d
  <2> QED
    BY <2>1 DEF BatchRecord
<1> QED
  BY <1>1, <1>2

LEMMA ExportersStep == ExportersOK /\ [EX!Next]_exportVars => ExportersOK'
<1> USE RateLimitAssumption DEF RateLimitAssumption
<1> SUFFICES ASSUME ExportersOK, [EX!Next]_exportVars PROVE ExportersOK'
  OBVIOUS
<1> USE DEF ExportersOK, Usable, EX!FailClosed
<1>1. CASE UNCHANGED exportVars
  BY <1>1 DEF exportVars
<1>2. ASSUME NEW b \in Batches, EX!Collect(b) \/ EX!Export(b) \/ EX!Accepted(b) PROVE ExportersOK'
  <2>1. PICK s \in {"buffered", "gate", "exported"} :
          /\ batch' = [batch EXCEPT ![b].pc = s] /\ (s = "exported" => batch[b].pc = "sent")
          /\ UNCHANGED <<token, valid, issued, helper>>
    BY <1>2 DEF EX!Collect, EX!Export, EX!Accepted
  <2> DEFINE r == [batch[b] EXCEPT !.pc = s]
  <2>2. r \in BatchRecord /\ r.pc = s /\ r.header = batch[b].header /\ r.disturbed = batch[b].disturbed
    BY DEF BatchRecord
  <2>3. batch' = [batch EXCEPT ![b] = r]
    BY <2>1
  <2> HIDE DEF r
  <2> QED
    BY <2>1, <2>2, <2>3
<1>3. ASSUME NEW b \in Batches, EX!HeadersCached(b) PROVE ExportersOK'
  <2> DEFINE r == EX!Resume(batch[b], token)
  <2>1. /\ batch' = [batch EXCEPT ![b] = r] /\ token # None /\ valid /\ batch[b].pc \in {"gate", "send"}
        /\ UNCHANGED <<token, valid, issued, helper>>
    BY <1>3 DEF EX!HeadersCached
  <2>2. /\ r \in BatchRecord /\ r.disturbed = batch[b].disturbed /\ r.pc \in {"send", "sent"}
        /\ r.pc = "sent" => r.header = token
    <3>1. batch[b] \in BatchRecord /\ token \in Nat \cup {None}
      OBVIOUS
    <3>2. /\ r \in BatchRecord /\ r.disturbed = batch[b].disturbed
          /\ batch[b].pc \in {"gate", "gate_waits"} => r.pc = IF token = None THEN "skipped" ELSE "send"
          /\ batch[b].pc \notin {"gate", "gate_waits"} => r.pc = "sent" /\ r.header = token
      BY <3>1, Resumed
    <3> HIDE DEF r
    <3> QED
      BY <2>1, <3>2
  <2> HIDE DEF r
  <2> QED
    BY <2>1, <2>2 DEF BatchRecord
<1>4. ASSUME NEW b \in Batches, EX!HeadersRefresh(b) PROVE ExportersOK'
  BY <1>4 DEF EX!HeadersRefresh, BatchRecord
<1>5. ASSUME NEW b \in Batches, EX!Failed(b) PROVE ExportersOK'
  <2> DEFINE r == [EX!Disturb[b] EXCEPT !.pc = "failed"]
  <2>1. /\ batch' = [EX!Disturb EXCEPT ![b] = r] /\ token' = None /\ valid' = FALSE
        /\ batch[b].pc = "sent" /\ UNCHANGED <<issued, helper>>
    BY <1>5 DEF EX!Failed
  <2>2. r \in BatchRecord /\ r.pc = "failed" /\ r.header = batch[b].header /\ r.disturbed = batch[b].disturbed
    BY <2>1, Disturbed DEF BatchRecord
  <2>3. /\ batch' \in [Batches -> BatchRecord]
        /\ \A c \in Batches : batch'[c] = IF c = b THEN r ELSE EX!Disturb[c]
    BY <2>1, <2>2, Disturbed
  <2> HIDE DEF r
  <2> QED
    BY <2>1, <2>2, <2>3, Disturbed
<1>6. ASSUME NEW h \in Nat \cup {None}, helper, token' = h, valid' \in BOOLEAN, issued' \in Nat, helper' = FALSE,
             h # None => valid',
             batch' = [b \in Batches |-> IF EX!Waiting(b) THEN EX!Resume(batch[b], h) ELSE batch[b]]
      PROVE ExportersOK'
  <2>1. ASSUME NEW b \in Batches
        PROVE /\ batch'[b] \in BatchRecord /\ batch'[b].disturbed = batch[b].disturbed
              /\ batch'[b].pc = "send" /\ ~batch'[b].disturbed => h # None
              /\ batch'[b].pc # "send_waits"
              /\ batch'[b].pc \in {"sent", "exported", "failed"} /\ batch'[b].header = None
                   => batch'[b].disturbed
    <3>1. CASE EX!Waiting(b)
      <4> DEFINE r == EX!Resume(batch[b], h)
      <4>1. batch'[b] = r /\ batch[b] \in BatchRecord
        BY <1>6, <3>1
      <4>2. CASE batch[b].pc = "gate_waits"
        <5>1. r \in BatchRecord /\ r.disturbed = batch[b].disturbed /\ r.pc = IF h = None THEN "skipped" ELSE "send"
          BY <4>1, <4>2, Resumed
        <5> HIDE DEF r
        <5> QED
          BY <4>1, <5>1
      <4>3. CASE batch[b].pc = "send_waits"
        <5>1. r \in BatchRecord /\ r.disturbed = batch[b].disturbed /\ r.pc = "sent"
          BY <4>1, <4>3, Resumed
        <5> HIDE DEF r
        <5> QED
          BY <4>1, <4>3, <5>1
      <4> QED
        BY <3>1, <4>2, <4>3 DEF EX!Waiting
    <3>2. CASE ~EX!Waiting(b)
      BY <1>6, <3>2 DEF EX!Waiting
    <3> QED
      BY <3>1, <3>2
  <2>2. batch' \in [Batches -> BatchRecord]
    BY <1>6, <2>1
  <2> QED
    BY <1>6, <2>1, <2>2
<1>7. CASE EX!HelperSucceeds
  <2>1. PICK fresh \in BOOLEAN :
          /\ valid' = fresh /\ token' = IF fresh THEN issued + 1 ELSE None
          /\ batch' = [b \in Batches |-> IF EX!Waiting(b) THEN EX!Resume(batch[b], token') ELSE batch[b]]
    BY <1>7 DEF EX!HelperSucceeds
  <2>2. token' \in Nat \cup {None} /\ (token' # None => valid') /\ helper /\ helper' = FALSE /\ issued' \in Nat
    BY <1>7, <2>1 DEF EX!HelperSucceeds
  <2> QED
    BY <1>6, <2>1, <2>2
<1>8. CASE EX!HelperFails
  BY <1>6, <1>8 DEF EX!HelperFails
<1>9. CASE EX!Expire
  BY <1>9, Disturbed DEF EX!Expire
<1>10. CASE EX!Drain \/ \E a \in Attributes : EX!Settle(a)
  BY <1>10 DEF EX!Drain, EX!Settle
<1> QED
  BY <1>1, <1>2, <1>3, <1>4, <1>5, <1>7, <1>8, <1>9, <1>10 DEF EX!Next, EX!Request

(* No export leaves without a credential, but in the race the code names   *)
(* (export-logging.ts:24, providers.ts:73).                                *)
THEOREM ExportsFailClosed == WaitingSpec => []FailClosed
<1>1. WaitingInit => ExportersOK
  <2> SUFFICES ASSUME EX!Init PROVE ExportersOK
    BY DEF WaitingInit
  <2> DEFINE r == [pc |-> "none", header |-> None, disturbed |-> FALSE]
  <2>1. r \in BatchRecord /\ r.pc = "none"
    BY DEF BatchRecord
  <2>2. batch = [b \in Batches |-> r] /\ token = None /\ valid = FALSE /\ issued = 0 /\ helper = FALSE
    BY DEF EX!Init
  <2> HIDE DEF r
  <2> QED
    BY <2>1, <2>2 DEF ExportersOK, EX!FailClosed, Usable
<1>2. ExportersOK /\ [WaitingNext]_allVars => ExportersOK'
  BY StepOfEach, ExportersStep
<1>3. ExportersOK => FailClosed
  BY DEF ExportersOK, FailClosed
<1> QED
  BY <1>1, <1>2, <1>3, PTL DEF WaitingSpec

-----------------------------------------------------------------------------
(* The shared bridge token (Endpoint): what a process took from the file   *)
(* is what the file said.                                                  *)

EndpointOK ==
  /\ pc \in [Endpoints -> {"off", "write", "elect", "onHost", "host", "dial", "hello", "guest",
                           "rejected", "waiting", "gone"}]
  /\ bridgeToken = [p \in Endpoints |-> bridgeToken[p]]
  /\ source = [p \in Endpoints |-> source[p]] /\ read = [p \in Endpoints |-> read[p]]
  /\ \A p \in Endpoints : source[p] = "file" => read[p] # None /\ bridgeToken[p] = read[p].token
  
LEMMA EndpointStep ==
  ASSUME EndpointOK, [EP!Next]_endpointVars
  PROVE /\ EndpointOK'
        /\ \A p \in Endpoints :
             pc[p] = "hello" /\ pc'[p] = "rejected" /\ source[p] = "file" =>
               port \notin Plugins \/ source[port] = "explicit" \/ read[p] # bridge
<1> USE DEF EndpointOK
<1>1. CASE UNCHANGED endpointVars
  BY <1>1 DEF endpointVars
<1>2. ASSUME NEW p \in Endpoints, EP!Hello(p)
      PROVE /\ EndpointOK'
            /\ \A q \in Endpoints :
                 pc[q] = "hello" /\ pc'[q] = "rejected" /\ source[q] = "file" =>
                   port \notin Plugins \/ source[port] = "explicit" \/ read[q] # bridge
  BY <1>2 DEF EP!Hello, EP!Reloaded
<1>3. ASSUME NEW p \in Endpoints, EP!ResolveSharedToken(p)
      PROVE /\ EndpointOK'
            /\ \A q \in Endpoints : pc[q] = "hello" => pc'[q] # "rejected"
  BY <1>3 DEF EP!ResolveSharedToken
<1>4. ASSUME NEW p \in Endpoints,
             EP!WriteBridgeFile(p) \/ EP!Bind(p) \/ EP!AdvertiseToken(p) \/ EP!BindLost(p) \/ EP!Dial(p)
               \/ EP!SocketCloses(p) \/ EP!Reelect(p) \/ EP!Exit(p)
      PROVE /\ EndpointOK'
            /\ \A q \in Endpoints : pc[q] = "hello" => pc'[q] # "rejected"
  BY <1>4 DEF EP!WriteBridgeFile, EP!Bind, EP!AdvertiseToken, EP!BindLost, EP!Dial, EP!Reelecting,
              EP!SocketCloses, EP!Reelect, EP!Exit
<1> QED
  BY <1>1, <1>2, <1>3, <1>4 DEF EP!Next, EP!Elect

(* A rotation of the shared token reaches a running host (broker.ts:222-225). *)
THEOREM TokenFileIsHonoured == WaitingSpec => NewcomerIsAccepted
<1>1. WaitingInit => EndpointOK
  BY EndpointAssumption DEF EndpointAssumption, WaitingInit, EP!Init, EndpointOK
<1>2. EndpointOK /\ [WaitingNext]_allVars => EndpointOK'
  BY StepOfEach, EndpointStep
<1>3. EndpointOK /\ [WaitingNext]_allVars =>
        [\A p \in Endpoints :
           pc[p] = "hello" /\ pc'[p] = "rejected" /\ source[p] = "file" =>
             port \notin Plugins \/ source[port] = "explicit" \/ read[p] # bridge]_endpointVars
  BY StepOfEach, EndpointStep
<1> QED
  BY <1>1, <1>2, <1>3, PTL
     DEF WaitingSpec, NewcomerIsAccepted, EP!NewcomerIsAccepted, endpointVars, EP!endpointVars
-----------------------------------------------------------------------------
(* The polls of the device code flow (Login).                              *)

LEMMA MinOfTwo ==
  ASSUME NEW a \in Int, NEW b \in Int
  PROVE LO!Min({a, b}) = IF a <= b THEN a ELSE b
<1>1. CASE a <= b
  <2>1. \A x \in {a, b} : (\A y \in {a, b} : x <= y) <=> x = a
    BY <1>1
  <2> QED
    BY <1>1, <2>1 DEF LO!Min
<1>2. CASE ~(a <= b)
  <2>1. \A x \in {a, b} : (\A y \in {a, b} : x <= y) <=> x = b
    BY <1>2
  <2> QED
    BY <1>2, <2>1 DEF LO!Min
<1> QED
  BY <1>1, <1>2

LoginTypes ==
  /\ step = [l \in Logins |-> step[l]]
  /\ timeLeft \in [Logins -> Nat] /\ deadline \in [Logins -> Nat] /\ interval \in [Logins -> Nat]
  /\ asked \in [Logins -> Nat] /\ slept \in [Logins -> Nat]

\* The interval follows what the provider asks for, up to the cap.
IntervalIsKept == \A l \in Logins : asked[l] <= interval[l] \/ Cap <= interval[l]

\* A sleep lasts for the interval, or until the device code expires.
SleepLasts ==
  \A l \in Logins :
    /\ deadline[l] <= ExpiresIn
    /\ step[l] = "sleeping" =>
         \/ slept[l] + timeLeft[l] >= interval[l] /\ interval[l] <= ExpiresIn
         \/ deadline[l] <= timeLeft[l]

LoginOK == LoginTypes /\ IntervalIsKept /\ SleepLasts

PollsInTime ==
  \A l \in Logins :
    step[l] = "sleeping" /\ step'[l] = "polling" => slept[l] >= LO!Min({asked[l], Cap}) \/ deadline[l] = 0

\* A login goes where it does not sleep.
LEMMA GotoStep ==
  ASSUME LoginOK, NEW l \in Logins, NEW s, NEW time \in Nat, LO!Goto(l, s, time), s # "sleeping",
         step[l] # "sleeping" \/ s # "polling", UNCHANGED LO!deviceVars
  PROVE LoginOK' /\ PollsInTime
<1>1. /\ step' = [step EXCEPT ![l] = s] /\ timeLeft' = [timeLeft EXCEPT ![l] = time]
      /\ UNCHANGED <<deadline, interval, asked, slept>>
  BY DEF LO!Goto, LO!deviceVars
<1> QED
  BY <1>1 DEF LoginOK, LoginTypes, IntervalIsKept, SleepLasts, PollsInTime

LEMMA EndStep ==
  ASSUME LoginOK, NEW l \in Logins, NEW outcome, LO!End(l, outcome) PROVE LoginOK' /\ PollsInTime
BY GotoStep DEF LO!End

\* The answer to a poll changes what was asked for and the interval.
LEMMA AnswerStep ==
  ASSUME LoginOK, NEW l \in Logins, NEW i \in Nat, NEW a \in Nat, LO!Goto(l, "loop", 0),
         interval' = [interval EXCEPT ![l] = i], asked' = [asked EXCEPT ![l] = a],
         a <= i \/ Cap <= i,
         deadline' = deadline \/ deadline' = [deadline EXCEPT ![l] = ExpiresIn], slept' = slept
  PROVE LoginOK' /\ PollsInTime
<1> USE LoginAssumption DEF LoginAssumption
<1>1. step' = [step EXCEPT ![l] = "loop"] /\ timeLeft' = [timeLeft EXCEPT ![l] = 0]
  BY DEF LO!Goto
<1> QED
  BY <1>1 DEF LoginOK, LoginTypes, IntervalIsKept, SleepLasts, PollsInTime

LEMMA DeviceStep ==
  ASSUME LoginOK, NEW l \in Logins,
         LO!Authorized(l) \/ LO!SlowDown(l) \/ LO!BackOff(l) \/ LO!Sleep(l) \/ LO!Poll(l)
  PROVE LoginOK' /\ PollsInTime
<1> USE LoginAssumption DEF LoginAssumption
<1>1. /\ timeLeft[l] \in Nat /\ deadline[l] \in Nat /\ interval[l] \in Nat /\ asked[l] \in Nat /\ slept[l] \in Nat
      /\ deadline[l] <= ExpiresIn /\ (asked[l] <= interval[l] \/ Cap <= interval[l])
      /\ asked = [asked EXCEPT ![l] = asked[l]]
  BY DEF LoginOK, LoginTypes, SleepLasts, IntervalIsKept
<1>2. CASE LO!Authorized(l)
  <2>1. PICK i \in Intervals : interval' = [interval EXCEPT ![l] = i] /\ asked' = [asked EXCEPT ![l] = i]
    BY <1>2 DEF LO!Authorized
  <2>2. /\ LO!Goto(l, "loop", 0) /\ deadline' = [deadline EXCEPT ![l] = ExpiresIn] /\ slept' = slept
        /\ i \in Nat /\ i <= i
    BY <1>2 DEF LO!Authorized
  <2> QED
    BY <2>1, <2>2, AnswerStep
<1>3. CASE LO!SlowDown(l)
  <2> DEFINE i == interval[l] + 1
             a == asked[l] + 1
  <2>1. /\ LO!Goto(l, "loop", 0) /\ UNCHANGED <<deadline, slept>>
        /\ interval' = [interval EXCEPT ![l] = i] /\ asked' = [asked EXCEPT ![l] = a]
    BY <1>3 DEF LO!SlowDown
  <2>2. i \in Nat /\ a \in Nat /\ (a <= i \/ Cap <= i)
    BY <1>1
  <2> HIDE DEF i, a
  <2> QED
    BY <2>1, <2>2, AnswerStep
<1>4. CASE LO!BackOff(l)
  <2> DEFINE i == LO!Min({interval[l] + 1, Cap})
  <2>1. i = IF interval[l] + 1 <= Cap THEN interval[l] + 1 ELSE Cap
    BY <1>1, MinOfTwo
  <2>2. /\ LO!Goto(l, "loop", 0) /\ interval' = [interval EXCEPT ![l] = i]
        /\ UNCHANGED <<deadline, asked, slept>>
    BY <1>4 DEF LO!BackOff
  <2> HIDE DEF i
  <2>3. i \in Nat /\ (asked[l] <= i \/ Cap <= i) /\ asked' = [asked EXCEPT ![l] = asked[l]]
    BY <1>1, <2>1, <2>2
  <2> QED
    BY <1>1, <2>2, <2>3, AnswerStep
<1>5. CASE LO!Sleep(l)
  <2> DEFINE time == LO!Min({interval[l], deadline[l]})
  <2>1. time = IF interval[l] <= deadline[l] THEN interval[l] ELSE deadline[l]
    BY <1>1, MinOfTwo
  <2>2. /\ step' = [step EXCEPT ![l] = "sleeping"] /\ timeLeft' = [timeLeft EXCEPT ![l] = time]
        /\ slept' = [slept EXCEPT ![l] = 0] /\ UNCHANGED <<deadline, interval, asked>>
    BY <1>5 DEF LO!Sleep, LO!Goto
  <2> HIDE DEF time
  <2> QED
    BY <1>1, <2>1, <2>2 DEF LoginOK, LoginTypes, IntervalIsKept, SleepLasts, PollsInTime
<1>6. CASE LO!Poll(l)
  <2>1. /\ step[l] = "sleeping" /\ timeLeft[l] = 0 /\ step' = [step EXCEPT ![l] = "polling"]
        /\ timeLeft' = [timeLeft EXCEPT ![l] = Timeout]
        /\ UNCHANGED <<deadline, interval, asked, slept>>
    BY <1>6 DEF LO!Poll, LO!Goto, LO!deviceVars
  <2>2. slept[l] >= LO!Min({asked[l], Cap}) \/ deadline[l] = 0
    BY <1>1, <2>1, MinOfTwo DEF LoginOK, SleepLasts
  <2> QED
    BY <2>1, <2>2 DEF LoginOK, LoginTypes, IntervalIsKept, SleepLasts, PollsInTime
<1> QED
  BY <1>2, <1>3, <1>4, <1>5, <1>6

LEMMA TickStep == ASSUME LoginOK, LO!Tick PROVE LoginOK' /\ PollsInTime
<1> USE LoginAssumption DEF LoginAssumption
<1> DEFINE s(l) == LO!Min({slept[l] + 1, ExpiresIn})
<1>1. /\ timeLeft' = [l \in Logins |-> IF timeLeft[l] > 0 THEN timeLeft[l] - 1 ELSE 0]
      /\ deadline' = [l \in Logins |-> IF deadline[l] > 0 THEN deadline[l] - 1 ELSE 0]
      /\ slept' = [l \in Logins |-> IF step[l] = "sleeping" THEN s(l) ELSE slept[l]]
      /\ UNCHANGED <<step, interval, asked>>
  BY DEF LO!Tick, LO!Less
<1>2. \A l \in Logins : s(l) = IF slept[l] + 1 <= ExpiresIn THEN slept[l] + 1 ELSE ExpiresIn
  <2> SUFFICES ASSUME NEW l \in Logins
               PROVE s(l) = IF slept[l] + 1 <= ExpiresIn THEN slept[l] + 1 ELSE ExpiresIn
    OBVIOUS
  <2>1. slept[l] + 1 \in Int /\ ExpiresIn \in Int
    BY DEF LoginOK, LoginTypes
  <2> QED
    BY <2>1, MinOfTwo
<1> HIDE DEF s
<1>3. LoginTypes'
  BY <1>1, <1>2 DEF LoginOK, LoginTypes
<1>4. ASSUME NEW l \in Logins
      PROVE /\ deadline'[l] <= ExpiresIn
            /\ step'[l] = "sleeping" =>
                 \/ slept'[l] + timeLeft'[l] >= interval'[l] /\ interval'[l] <= ExpiresIn
                 \/ deadline'[l] <= timeLeft'[l]
  <2>1. /\ timeLeft'[l] = (IF timeLeft[l] > 0 THEN timeLeft[l] - 1 ELSE 0)
        /\ deadline'[l] = (IF deadline[l] > 0 THEN deadline[l] - 1 ELSE 0)
        /\ step[l] = "sleeping" => slept'[l] = (IF slept[l] + 1 <= ExpiresIn THEN slept[l] + 1 ELSE ExpiresIn)
        /\ step'[l] = step[l] /\ interval'[l] = interval[l]
    BY <1>1, <1>2
  <2>2. timeLeft[l] \in Nat /\ deadline[l] \in Nat /\ interval[l] \in Nat /\ slept[l] \in Nat
    BY DEF LoginOK, LoginTypes
  <2> QED
    BY <2>1, <2>2 DEF LoginOK, SleepLasts
<1> QED
  BY <1>1, <1>3, <1>4 DEF LoginOK, IntervalIsKept, SleepLasts, PollsInTime

LEMMA LoginStep ==
  ASSUME LoginOK, [LO!Next]_loginVars PROVE LoginOK' /\ PollsInTime
<1> USE LoginAssumption DEF LoginAssumption, LO!serverVars
<1>1. CASE UNCHANGED loginVars
  BY <1>1 DEF loginVars, LoginOK, LoginTypes, IntervalIsKept, SleepLasts, PollsInTime
<1>2. ASSUME NEW l \in Logins,
             \/ LO!Abort(l) \/ LO!Mismatch(l) \/ LO!WaitTimesOut(l) \/ LO!Expired(l) \/ LO!RequestFails(l)
             \/ LO!CannotOpen(l) \/ LO!PollIsRefused(l) \/ LO!PostClientCredentials(l)
             \/ LO!PostFederatedGrant(l) \/ LO!ExchangeCode(l) \/ LO!PollSucceeds(l)
      PROVE LoginOK' /\ PollsInTime
  BY <1>2, EndStep DEF LO!Abort, LO!Mismatch, LO!WaitTimesOut, LO!Expired, LO!RequestFails, LO!CannotOpen,
       LO!PollIsRefused, LO!PostClientCredentials, LO!PostFederatedGrant, LO!ExchangeCode, LO!PollSucceeds,
       LO!ToTokenSet
<1>3. ASSUME NEW l \in Logins,
             \/ LO!OpenExternalUrl(l) \/ LO!WaitForCode(l) \/ LO!ReceiveCode(l) \/ LO!Closed(l)
             \/ LO!AuthorizationPending(l)
      PROVE LoginOK' /\ PollsInTime
  BY <1>3, GotoStep DEF LO!OpenExternalUrl, LO!WaitForCode, LO!ReceiveCode, LO!Closed, LO!AuthorizationPending,
       LO!deviceVars
<1>4. ASSUME NEW l \in Logins, LO!StartLocalCallbackServer(l) PROVE LoginOK' /\ PollsInTime
  BY <1>4, EndStep, GotoStep DEF LO!StartLocalCallbackServer, LO!deviceVars
<1>5. ASSUME NEW l \in Logins, LO!ResolveEndpoints(l), UNCHANGED LO!deviceVars PROVE LoginOK' /\ PollsInTime
  BY <1>5, GotoStep DEF LO!ResolveEndpoints, LO!ResolvedEndpoints
<1>6. ASSUME NEW l \in Logins, LO!Start(l) \/ LO!ResolveSubjectToken(l) \/ LO!DiscoverOidcMetadata(l)
      PROVE LoginOK' /\ PollsInTime
  BY <1>5, <1>6, GotoStep DEF LO!Start, LO!ResolveSubjectToken, LO!DiscoverOidcMetadata, LO!ResolveEndpoints
<1>7. ASSUME NEW l \in Logins, LO!Callback(l) PROVE LoginOK' /\ PollsInTime
  BY <1>7 DEF LO!Callback, LO!deviceVars, LoginOK, LoginTypes, IntervalIsKept, SleepLasts, PollsInTime
<1> QED
  BY <1>1, <1>2, <1>3, <1>4, <1>6, <1>7, DeviceStep, TickStep DEF LO!Next, LO!Proceed, LO!PollAborts, LO!PollFails

(* The device code flow polls no faster than the provider has asked for.   *)
THEOREM PollsAreSpaced == WaitingSpec => PollsKeepTheInterval
<1>1. WaitingInit => LoginOK
  BY LoginAssumption DEF LoginAssumption, WaitingInit, LO!Init, LoginOK, LoginTypes, IntervalIsKept, SleepLasts
<1>2. LoginOK /\ [WaitingNext]_allVars => LoginOK'
  BY StepOfEach, LoginStep
<1>3. LoginOK /\ [WaitingNext]_allVars =>
        [\A l \in Logins :
           step[l] = "sleeping" /\ step'[l] = "polling"
             => slept[l] >= LO!Min({asked[l], Cap}) \/ deadline[l] = 0]_(LO!loginVars)
  <2>1. UNCHANGED loginVars => UNCHANGED LO!loginVars
    BY DEF loginVars, LO!loginVars, LO!serverVars, LO!deviceVars
  <2> QED
    BY <2>1, StepOfEach, LoginStep DEF PollsInTime
<1> QED
  BY <1>1, <1>2, <1>3, PTL DEF WaitingSpec, PollsKeepTheInterval, LO!PollsKeepTheInterval
-----------------------------------------------------------------------------
(* The tier that is selected (RateLimit) is one of the configured tiers.   *)

LEMMA NatHasMin ==
  ASSUME NEW S \in SUBSET Nat, S # {} PROVE \E x \in S : \A y \in S : x <= y
<1> DEFINE R == OpToRel(<, Nat)
<1>1. IsWellFoundedOn(R, Nat)
  BY NatLessThanWellFounded
<1>2. \A x, y \in Nat : y < x => <<y, x>> \in R
  BY DEF OpToRel
<1> HIDE DEF R
<1>3. PICK x \in S : \A y \in S : ~ (<<y, x>> \in R)
  BY <1>1, WFMin
<1>4. \A y \in S : ~ (y < x)
  BY <1>2, <1>3
<1> QED
  BY <1>4

TierRecord == [bound : Nat, action : {"error", "wait"}, maxWait : Nat, maxRetries : Nat]

LEMMA TiersAreParsed ==
  /\ DOMAIN RL!Tiers \subseteq Nat /\ RL!CatchAll \in TierRecord
  /\ \A i \in DOMAIN RL!Tiers : RL!Tiers[i] \in TierRecord
<1> USE RateLimitAssumption DEF RateLimitAssumption
<1>1. DOMAIN RawTiers \subseteq Nat
  OBVIOUS
<1>2. ASSUME NEW i \in DOMAIN RawTiers PROVE RL!ParseTier(RawTiers[i]) \in TierRecord
  <2>1. \A R : RawTiers \in Seq(R) => RawTiers[i] \in R
    OBVIOUS
  <2>2. RawTiers[i] \in [bound : Int, action : {"error", "wait"}, maxWait : Int, maxRetries : Int]
    BY <2>1
  <2> QED
    BY <2>2 DEF RL!ParseTier, TierRecord, RL!DefaultMaxRetries
<1> QED
  BY <1>1, <1>2 DEF RL!Tiers, RL!CatchAll, RL!DefaultMaxRetries, TierRecord

\* Of the tiers that cover a reset there is a first one among the tightest.
LEMMA TightestExists ==
  ASSUME NEW covers \in SUBSET DOMAIN RL!Tiers, covers # {}
  PROVE \E i \in covers : \A j \in covers \ {i} :
          \/ RL!Tighter(RL!Tiers[i].bound, RL!Tiers[j].bound)
          \/ RL!Tiers[i].bound = RL!Tiers[j].bound /\ i < j
<1> DEFINE bound(i) == RL!Tiers[i].bound
           Bounds == {bound(i) : i \in covers} \ {0}
<1>1. covers \in SUBSET Nat /\ \A i \in covers : bound(i) \in Nat
  BY TiersAreParsed DEF TierRecord
<1> HIDE DEF bound
<1>2. \A b \in Nat : {i \in covers : bound(i) = b} # {} =>
        \E i \in covers : bound(i) = b /\ \A j \in covers \ {i} : bound(j) = b => i < j
  <2> SUFFICES ASSUME NEW b \in Nat, {i \in covers : bound(i) = b} # {}
               PROVE \E i \in covers : bound(i) = b /\ \A j \in covers \ {i} : bound(j) = b => i < j
    OBVIOUS
  <2>1. {i \in covers : bound(i) = b} \in SUBSET Nat
    BY <1>1
  <2>2. PICK i \in {k \in covers : bound(k) = b} : \A j \in {k \in covers : bound(k) = b} : i <= j
    BY <2>1, NatHasMin
  <2> QED
    BY <1>1, <2>2
<1>3. \E i \in covers : \A j \in covers \ {i} :
        RL!Tighter(bound(i), bound(j)) \/ (bound(i) = bound(j) /\ i < j)
  <2>1. CASE Bounds = {}
    <3>1. \A i \in covers : bound(i) = 0
      BY <2>1
    <3> QED
      BY <1>2, <3>1
  <2>2. CASE Bounds # {}
    <3>1. Bounds \in SUBSET Nat
      BY <1>1
    <3>2. PICK b \in Bounds : \A c \in Bounds : b <= c
      BY <2>2, <3>1, NatHasMin
    <3>3. b \in Nat \ {0} /\ {i \in covers : bound(i) = b} # {}
      BY <1>1, <3>2
    <3>4. PICK i \in covers : bound(i) = b /\ \A j \in covers \ {i} : bound(j) = b => i < j
      BY <1>2, <3>3
    <3>5. \A j \in covers : bound(j) = 0 \/ (bound(j) \in Nat /\ b <= bound(j))
      BY <1>1, <3>2
    <3>6. ASSUME NEW j \in covers \ {i}
          PROVE RL!Tighter(bound(i), bound(j)) \/ (bound(i) = bound(j) /\ i < j)
      BY <3>3, <3>4, <3>5 DEF RL!Tighter
    <3> QED
      BY <3>6
  <2> QED
    BY <2>1, <2>2
<1> QED
  BY <1>3 DEF bound

LEMMA TierIsSelected == \A reset : RL!SelectTier(reset) \in TierRecord
<1> SUFFICES ASSUME NEW reset PROVE RL!SelectTier(reset) \in TierRecord
  OBVIOUS
<1> DEFINE covers == {i \in DOMAIN RL!Tiers : RL!Tiers[i].bound = 0 \/ reset <= RL!Tiers[i].bound}
           first(i) == \A j \in covers \ {i} :
                         \/ RL!Tighter(RL!Tiers[i].bound, RL!Tiers[j].bound)
                         \/ RL!Tiers[i].bound = RL!Tiers[j].bound /\ i < j
<1>1. RL!SelectTier(reset) =
        IF covers = {} THEN RL!CatchAll ELSE RL!Tiers[CHOOSE i \in covers : first(i)]
  BY DEF RL!SelectTier
<1>2. covers # {} => \E i \in covers : first(i)
  BY TightestExists
<1>3. covers \subseteq DOMAIN RL!Tiers
  OBVIOUS
<1> HIDE DEF covers, first
<1>4. covers # {} => (CHOOSE i \in covers : first(i)) \in covers
  BY <1>2
<1> QED
  BY <1>1, <1>3, <1>4, TiersAreParsed

LEMMA WaitsAreNumbers ==
  ASSUME NEW a \in RL!Snapshots, NEW m \in Nat
  PROVE /\ RL!Clamp(RL!Backoff(a), m) \in Int
        /\ a.reset # None => a.reset \in Int
<1> USE RateLimitAssumption DEF RateLimitAssumption
<1>1. PICK h \in Answers : a = [h EXCEPT !.retryAfter = IF h.retryAfter # None /\ h.retryAfter < 0 THEN 0 ELSE h.retryAfter]
  BY DEF RL!Snapshots, RL!ParseRateLimit
<1>2. h \in [status : Nat, remaining : Int \cup {None}, reset : Int \cup {None}, retryAfter : Int \cup {None}]
  OBVIOUS
<1>3. a.reset \in Int \cup {None} /\ a.retryAfter \in Int \cup {None}
  BY <1>1, <1>2
<1> QED
  BY <1>3 DEF RL!Clamp, RL!Backoff, RL!DefaultBackoff
-----------------------------------------------------------------------------
(* The shared timers of the gate (RateLimit).  A timer is never late, its  *)
(* creator waits on it or was aborted, and the shared one of a bucket      *)
(* belongs to a call of that bucket.                                       *)

TimersInTime == \A t \in Callers : due[t] # None => due[t] >= now

TimersHaveCreators ==
  \A t \in Callers : due[t] # None =>
    (call[t].pc = "sleeping" /\ call[t].on = t) \/ call[t].pc = "thrown"

SharedTimersRun ==
  \A k \in RL!Keys : bucket[k].shared # None =>
    due[bucket[k].shared] # None /\ RL!Key(bucket[k].shared) = k

RateOK ==
  /\ RL!TypeOK /\ TimersInTime /\ TimersHaveCreators /\ SharedTimersRun
  /\ TimersBoundWaits

BucketTypes == [until : Int, maxWait : Nat, shared : Callers \cup {None}]
CallTypes == [pc : {"idle", "gate", "sleeping", "sent", "done", "thrown"},
              phase : {"request", "backoff"}, attempt : Nat, deadline : RL!Times,
              on : Callers \cup {None}]

\* What leaves every timer alone, and puts nobody to sleep.
LEMMA QuietStep ==
  ASSUME RateOK, UNCHANGED <<now, due>>,
         bucket' \in [RL!Keys -> BucketTypes],
         \A k \in RL!Keys : bucket'[k].shared = bucket[k].shared,
         call' \in [Callers -> CallTypes],
         \A c \in Callers :
           \/ call'[c] = call[c]
           \/ call'[c].pc # "sleeping" /\ (due[c] = None \/ call'[c].pc = "thrown")
  PROVE RateOK'
<1> USE DEF RateOK
<1>1. RL!TypeOK'
  BY DEF RL!TypeOK, BucketTypes, CallTypes
<1>2. TimersInTime' /\ TimersHaveCreators'
  BY DEF TimersInTime, TimersHaveCreators
<1>3. SharedTimersRun'
  BY DEF SharedTimersRun
<1>4. RL!WaitsAreBounded'
  BY DEF TimersBoundWaits, RL!WaitsAreBounded, RL!Sleeping
<1>5. \A c \in Callers : RL!Key(c) \in RL!Keys
  BY DEF RL!Keys
<1>6. RL!OneTimerPerBurst'
  BY <1>5 DEF TimersBoundWaits, RL!OneTimerPerBurst
<1> QED
  BY <1>1, <1>2, <1>3, <1>4, <1>6 DEF TimersBoundWaits

LEMMA WindowStep ==
  ASSUME RL!TypeOK, NEW k \in RL!Keys, NEW u \in Int, NEW m \in Nat,
         bucket' = [bucket EXCEPT ![k].until = u, ![k].maxWait = m]
  PROVE /\ bucket' \in [RL!Keys -> BucketTypes]
        /\ \A j \in RL!Keys : bucket'[j].shared = bucket[j].shared
<1> DEFINE b == [bucket[k] EXCEPT !.until = u, !.maxWait = m]
<1>1. bucket[k] \in BucketTypes
  BY DEF RL!TypeOK, BucketTypes
<1>2. b \in BucketTypes /\ b.shared = bucket[k].shared
  BY <1>1 DEF BucketTypes
<1>3. bucket' = [bucket EXCEPT ![k] = b]
  OBVIOUS
<1> HIDE DEF b
<1> QED
  BY <1>2, <1>3 DEF RL!TypeOK, BucketTypes

LEMMA GateIsTyped ==
  ASSUME RL!TypeOK, NEW c \in Callers, NEW phase \in {"request", "backoff"}, NEW m \in Nat
  PROVE RL!InGate(c, phase, m) \in CallTypes /\ RL!InGate(c, phase, m).pc = "gate"
<1>1. call[c] \in CallTypes /\ now \in Nat
  BY DEF RL!TypeOK, CallTypes
<1>2. (IF m > 0 THEN now + m ELSE None) \in RL!Times
  BY <1>1 DEF RL!Times
<1> QED
  BY <1>1, <1>2 DEF RL!InGate, CallTypes

\* A call has no timer before it sleeps for the first time, nor after it woke.
LEMMA NoTimerAwake ==
  ASSUME RateOK, NEW c \in Callers, call[c].pc \notin {"sleeping", "thrown"} PROVE due[c] = None
BY DEF RateOK, TimersHaveCreators

LEMMA KeysAreKeys == \A c \in Callers : RL!Key(c) \in RL!Keys
BY DEF RL!Keys

LEMMA GatewayStep ==
  ASSUME RateOK, NEW c \in Callers, NEW a \in RL!Snapshots,
         RL!Pass(c, a) \/ RL!FailFast(c, a) \/ RL!GiveUp(c, a) \/ RL!BackOff(c, a)
  PROVE RateOK'
<1> DEFINE tier == RL!SelectTier(RL!EffectiveReset(a))
           k == RL!Key(c)
<1>1. tier \in TierRecord /\ tier.maxWait \in Nat /\ tier.action \in {"error", "wait"}
  BY TierIsSelected DEF TierRecord
<1>2. k \in RL!Keys /\ RL!TypeOK /\ now \in Nat /\ bucket \in [RL!Keys -> BucketTypes]
  BY KeysAreKeys DEF RateOK, RL!TypeOK, BucketTypes
<1>3. RL!Clamp(RL!Backoff(a), tier.maxWait) \in Int /\ (a.reset # None => a.reset \in Int)
  BY <1>1, WaitsAreNumbers
<1>4. call \in [Callers -> CallTypes]
  BY DEF RateOK, RL!TypeOK, CallTypes
<1>5. due[c] = None
  BY NoTimerAwake DEF RL!Pass, RL!FailFast, RL!GiveUp, RL!BackOff
<1>6. UNCHANGED <<now, due>>
  BY DEF RL!Pass, RL!FailFast, RL!GiveUp, RL!BackOff
<1> HIDE DEF tier, k
<1> DEFINE moved(u, m) == [bucket EXCEPT ![k].until = u, ![k].maxWait = m]
<1>7. bucket' \in [RL!Keys -> BucketTypes] /\ \A j \in RL!Keys : bucket'[j].shared = bucket[j].shared
  <2>1. CASE bucket' = bucket
    BY <1>2, <2>1
  <2>2. ASSUME NEW u \in Int, NEW m \in Nat, bucket' = moved(u, m)
        PROVE bucket' \in [RL!Keys -> BucketTypes] /\ \A j \in RL!Keys : bucket'[j].shared = bucket[j].shared
    BY <1>2, <2>2, WindowStep
  <2>3. CASE RL!Pass(c, a)
    <3>1. \/ bucket' = bucket \/ bucket' = moved(0, 0)
          \/ a.reset # None /\ bucket' = moved(now + a.reset, tier.maxWait)
      BY <1>1, <2>3 DEF RL!Pass, tier, k
    <3> HIDE DEF moved
    <3> QED
      BY <1>1, <1>2, <1>3, <2>1, <2>2, <3>1
  <2>4. CASE RL!FailFast(c, a)
    <3>1. bucket' = moved(0, 0)
      BY <2>4 DEF RL!FailFast, k
    <3> HIDE DEF moved
    <3> QED
      BY <2>2, <3>1
  <2>5. CASE RL!GiveUp(c, a)
    BY <2>1, <2>5 DEF RL!GiveUp
  <2>6. CASE RL!BackOff(c, a)
    <3>1. bucket' = moved(now + RL!Clamp(RL!Backoff(a), tier.maxWait), tier.maxWait)
      BY <2>6 DEF RL!BackOff, tier, k
    <3> HIDE DEF moved
    <3> QED
      BY <1>1, <1>2, <1>3, <2>2, <3>1
  <2> QED
    BY <2>3, <2>4, <2>5, <2>6
<1>8. call' \in [Callers -> CallTypes] /\ \A d \in Callers : call'[d] = call[d] \/ (d = c /\ call'[d].pc # "sleeping")
  <2>1. CASE RL!BackOff(c, a)
    <3>1. call' = [call EXCEPT ![c] = RL!InGate(c, "backoff", tier.maxWait)]
      BY <2>1 DEF RL!BackOff, tier
    <3>2. RL!InGate(c, "backoff", tier.maxWait) \in CallTypes /\ RL!InGate(c, "backoff", tier.maxWait).pc = "gate"
      BY <1>1, <1>2, GateIsTyped
    <3> QED
      BY <1>4, <3>1, <3>2
  <2>2. CASE RL!Return(c)
    BY <1>4, <2>2 DEF RL!Return, CallTypes
  <2> QED
    BY <2>1, <2>2 DEF RL!Pass, RL!FailFast, RL!GiveUp
<1> QED
  BY <1>5, <1>6, <1>7, <1>8, QuietStep

LEMMA CallerStep ==
  ASSUME RateOK, NEW c \in Callers, RL!Start(c) \/ RL!LeaveGate(c) \/ RL!Abort(c)
  PROVE RateOK'
<1>1. /\ UNCHANGED <<now, due, bucket>> /\ bucket \in [RL!Keys -> BucketTypes]
      /\ call \in [Callers -> CallTypes] /\ RL!TypeOK
  BY DEF RL!Start, RL!LeaveGate, RL!Abort, RateOK, RL!TypeOK, BucketTypes, CallTypes
<1>2. CASE RL!Start(c)
  <2>1. due[c] = None
    BY <1>2, NoTimerAwake DEF RL!Start
  <2>2. bucket[RL!Key(c)].maxWait \in Nat
    BY <1>1, KeysAreKeys DEF BucketTypes
  <2>3. LET in == RL!InGate(c, "request", bucket[RL!Key(c)].maxWait) IN in \in CallTypes /\ in.pc = "gate"
    BY <1>1, <2>2, GateIsTyped
  <2>4. call' \in [Callers -> CallTypes] /\ \A d \in Callers : call'[d] = call[d] \/ (d = c /\ call'[d].pc # "sleeping")
    <3>1. CASE call' = [call EXCEPT ![c] = RL!InGate(c, "request", bucket[RL!Key(c)].maxWait)]
      BY <1>1, <2>3, <3>1
    <3>2. CASE call' = [call EXCEPT ![c] = [@ EXCEPT !.pc = "sent"]]
      BY <1>1, <3>2 DEF CallTypes
    <3> QED
      BY <1>2, <3>1, <3>2 DEF RL!Start
  <2> QED
    BY <1>1, <2>1, <2>4, QuietStep
<1>3. CASE RL!LeaveGate(c)
  <2>1. due[c] = None
    BY <1>3, NoTimerAwake DEF RL!LeaveGate
  <2> DEFINE n == IF call[c].phase = "backoff" THEN call[c].attempt + 1 ELSE call[c].attempt
             sent == [call[c] EXCEPT !.pc = "sent", !.on = None, !.deadline = None, !.attempt = n]
  <2>2. call[c] \in CallTypes /\ n \in Nat
    BY <1>1 DEF CallTypes
  <2>3. call' = [call EXCEPT ![c] = sent]
    BY <1>3 DEF RL!LeaveGate
  <2> HIDE DEF n
  <2>4. sent \in CallTypes /\ sent.pc = "sent"
    BY <2>2 DEF CallTypes, RL!Times
  <2> HIDE DEF sent
  <2>5. call' \in [Callers -> CallTypes] /\ \A d \in Callers : call'[d] = call[d] \/ (d = c /\ call'[d].pc # "sleeping")
    BY <1>1, <2>3, <2>4
  <2> QED
    BY <1>1, <2>1, <2>5, QuietStep
<1>4. CASE RL!Abort(c)
  <2>1. call' \in [Callers -> CallTypes] /\ \A d \in Callers : call'[d] = call[d] \/ (d = c /\ call'[d].pc = "thrown")
    BY <1>1, <1>4 DEF RL!Abort, CallTypes
  <2> QED
    BY <1>1, <2>1, QuietStep
<1> QED
  BY <1>2, <1>3, <1>4

LEMMA RateTypes ==
  ASSUME RateOK
  PROVE /\ now \in Nat /\ bucket \in [RL!Keys -> BucketTypes] /\ call \in [Callers -> CallTypes]
        /\ due \in [Callers -> Nat \cup {None}] /\ None \notin Nat /\ None \notin Callers
BY RateLimitAssumption DEF RateLimitAssumption, RateOK, RL!TypeOK, RL!Times, BucketTypes, CallTypes

\* A call that joins the shared timer does so because it fires soon enough.
LEMMA JoinStep == ASSUME RateOK, NEW c \in Callers, RL!JoinTimer(c) PROVE RateOK'
<1> DEFINE k == RL!Key(c)
           t == bucket[k].shared
           joined == [call[c] EXCEPT !.pc = "sleeping", !.on = t]
<1>1. /\ call[c].pc = "gate" /\ t # None /\ due[t] <= RL!Target(c) /\ UNCHANGED <<now, bucket, due>>
      /\ call' = [call EXCEPT ![c] = joined]
  BY DEF RL!JoinTimer, RL!Reuses
<1>2. due[c] = None
  BY <1>1, NoTimerAwake
<1>3. k \in RL!Keys /\ t \in Callers /\ due[t] \in Nat
  <2>1. k \in RL!Keys
    BY KeysAreKeys
  <2> HIDE DEF k
  <2>2. bucket[k] \in BucketTypes
    BY <2>1, RateTypes
  <2>3. t \in Callers
    BY <1>1, <2>2 DEF BucketTypes
  <2>4. due[t] # None
    BY <1>1, <2>1 DEF RateOK, SharedTimersRun
  <2> QED
    BY <2>1, <2>3, <2>4, RateTypes
<1>4. /\ joined \in CallTypes /\ joined.pc = "sleeping" /\ joined.on = t
      /\ joined.deadline = call[c].deadline
  BY <1>3, RateTypes DEF CallTypes
<1>5. joined.deadline # None => due[t] <= joined.deadline
  <2>1. bucket[k].until \in Int /\ call[c].deadline \in Nat \cup {None}
    BY <1>3, RateTypes DEF BucketTypes, CallTypes, RL!Times
  <2>2. call[c].deadline # None => RL!Target(c) <= call[c].deadline /\ RL!Target(c) \in Int
    BY <2>1 DEF RL!Target
  <2> HIDE DEF joined, t
  <2> QED
    BY <1>1, <1>3, <1>4, <2>1, <2>2
<1> HIDE DEF joined, t, k
<1>6. call' \in [Callers -> CallTypes] /\ call'[c] = joined /\ \A d \in Callers \ {c} : call'[d] = call[d]
  BY <1>1, <1>4, RateTypes
<1>7. RL!TypeOK'
  BY <1>1, <1>6 DEF RateOK, RL!TypeOK, CallTypes
<1>8. TimersInTime' /\ SharedTimersRun' /\ RL!OneTimerPerBurst'
  BY <1>1 DEF RateOK, TimersInTime, SharedTimersRun, TimersBoundWaits, RL!OneTimerPerBurst
<1>9. TimersHaveCreators'
  BY <1>1, <1>2, <1>6 DEF RateOK, TimersHaveCreators
<1>10. RL!WaitsAreBounded'
  <2>1. ASSUME NEW d \in Callers, RL!Sleeping(d)'
        PROVE (/\ call[d].on # None /\ due[call[d].on] # None
               /\ call[d].deadline # None => due[call[d].on] <= call[d].deadline)'
    <3>1. CASE d = c
      BY <1>1, <1>3, <1>4, <1>5, <1>6, <3>1, RateTypes
    <3>2. CASE d # c
      BY <1>1, <1>6, <2>1, <3>2 DEF RateOK, TimersBoundWaits, RL!WaitsAreBounded, RL!Sleeping
    <3> QED
      BY <3>1, <3>2
  <2> QED
    BY <2>1 DEF RL!WaitsAreBounded
<1> QED
  BY <1>7, <1>8, <1>9, <1>10 DEF RateOK, TimersBoundWaits

\* A call that cannot wait for the shared timer creates one of its own, which
\* fires before it.
LEMMA CreateStep == ASSUME RateOK, NEW c \in Callers, RL!CreateTimer(c) PROVE RateOK'
<1> DEFINE k == RL!Key(c)
           t == bucket[k].shared
           target == RL!Target(c)
           asleep == [call[c] EXCEPT !.pc = "sleeping", !.on = c]
           own == IF t = None THEN c ELSE t
           b == [bucket[k] EXCEPT !.shared = own]
<1>1. /\ call[c].pc = "gate" /\ target > now /\ ~ (t # None /\ due[t] <= target) /\ now' = now
      /\ due' = [due EXCEPT ![c] = target]
      /\ call' = [call EXCEPT ![c] = asleep] /\ bucket' = [bucket EXCEPT ![k] = b]
  BY DEF RL!CreateTimer, RL!Reuses
<1>2. due[c] = None
  BY <1>1, NoTimerAwake
<1>3. k \in RL!Keys /\ bucket[k] \in BucketTypes
  BY KeysAreKeys, RateTypes
<1>4. target \in Nat /\ (call[c].deadline # None => target <= call[c].deadline)
  <2>1. bucket[k].until \in Int /\ call[c].deadline \in Nat \cup {None}
    BY <1>3, RateTypes DEF BucketTypes, CallTypes, RL!Times
  <2>2. target \in Int /\ (call[c].deadline # None => target <= call[c].deadline)
    BY <2>1, RateTypes DEF RL!Target
  <2> HIDE DEF target
  <2> QED
    BY <1>1, <2>2, RateTypes
<1>5. /\ asleep \in CallTypes /\ asleep.pc = "sleeping" /\ asleep.on = c
      /\ asleep.deadline = call[c].deadline
  BY RateTypes DEF CallTypes
<1>6. own \in Callers /\ b \in BucketTypes /\ b.shared = own
  BY <1>3 DEF BucketTypes
<1>7. t # None => t \in Callers /\ due[t] \in Nat /\ target < due[t] /\ t # c /\ RL!Key(t) = k
  <2>1. ASSUME t # None PROVE t \in Callers /\ due[t] # None /\ RL!Key(t) = k
    <3>1. t \in Callers
      BY <1>3, <2>1 DEF BucketTypes
    <3> HIDE DEF k
    <3> QED
      BY <1>3, <2>1, <3>1 DEF RateOK, SharedTimersRun
  <2> HIDE DEF t, target, k
  <2> QED
    BY <1>1, <1>2, <1>4, <2>1, RateTypes
<1> HIDE DEF k, t, target, asleep, b
<1>8. call' \in [Callers -> CallTypes] /\ call'[c] = asleep /\ \A d \in Callers \ {c} : call'[d] = call[d]
  BY <1>1, <1>5, RateTypes
<1>9. due' \in [Callers -> Nat \cup {None}] /\ due'[c] = target /\ \A d \in Callers \ {c} : due'[d] = due[d]
  BY <1>1, <1>4, RateTypes
<1>10. /\ bucket' \in [RL!Keys -> BucketTypes] /\ bucket'[k].shared = own
       /\ \A j \in RL!Keys \ {k} : bucket'[j] = bucket[j]
  BY <1>1, <1>3, <1>6, RateTypes
<1>11. RL!TypeOK'
  BY <1>1, <1>8, <1>9, <1>10, RateTypes DEF RL!TypeOK, RL!Times, CallTypes, BucketTypes
<1>12. TimersInTime'
  BY <1>1, <1>4, <1>9, RateTypes DEF RateOK, TimersInTime
<1>13. TimersHaveCreators'
  BY <1>5, <1>8, <1>9 DEF RateOK, TimersHaveCreators
<1>14. SharedTimersRun'
  <2>1. ASSUME NEW j \in RL!Keys, bucket'[j].shared # None
        PROVE due'[bucket'[j].shared] # None /\ RL!Key(bucket'[j].shared) = j
    <3>1. CASE j = k
      <4>1. RL!Key(own) = k
        BY <1>7 DEF k
      <4>2. due'[own] # None
        BY <1>4, <1>7, <1>9, RateTypes
      <4> QED
        BY <1>10, <3>1, <4>1, <4>2
    <3>2. CASE j # k
      <4>1. bucket[j].shared # None /\ bucket'[j].shared = bucket[j].shared
        BY <1>10, <2>1, <3>2
      <4>2. bucket[j].shared \in Callers
        BY <4>1, RateTypes DEF BucketTypes
      <4>3. due[bucket[j].shared] # None /\ RL!Key(bucket[j].shared) = j
        BY <4>1 DEF RateOK, SharedTimersRun
      <4> QED
        BY <1>2, <1>9, <4>1, <4>2, <4>3
    <3> QED
      BY <3>1, <3>2
  <2> QED
    BY <2>1 DEF SharedTimersRun
<1>15. RL!WaitsAreBounded'
  <2>1. ASSUME NEW d \in Callers, RL!Sleeping(d)'
        PROVE (/\ call[d].on # None /\ due[call[d].on] # None
               /\ call[d].deadline # None => due[call[d].on] <= call[d].deadline)'
    <3>1. CASE d = c
      BY <1>4, <1>5, <1>8, <1>9, <3>1, RateTypes
    <3>2. CASE d # c
      <4>1. /\ call'[d] = call[d] /\ call[d].on \in Callers /\ due[call[d].on] # None
            /\ call[d].deadline # None => due[call[d].on] <= call[d].deadline
        BY <1>8, <2>1, <3>2, RateTypes
           DEF RateOK, TimersBoundWaits, RL!WaitsAreBounded, RL!Sleeping, CallTypes
      <4> QED
        BY <1>2, <1>9, <4>1, RateTypes
    <3> QED
      BY <3>1, <3>2
  <2> QED
    BY <2>1 DEF RL!WaitsAreBounded
<1>16. RL!OneTimerPerBurst'
  <2>1. ASSUME NEW u \in Callers, due'[u] # None, bucket'[RL!Key(u)].shared # u
        PROVE bucket'[RL!Key(u)].shared # None /\ due'[u] < due'[bucket'[RL!Key(u)].shared]
    <3>1. RL!Key(u) \in RL!Keys
      BY KeysAreKeys
    <3>2. CASE u = c
      BY <1>7, <1>9, <1>10, <2>1, <3>2, RateTypes DEF k, own
    <3>3. CASE u # c /\ RL!Key(u) = k
      <4>1. due'[u] = due[u]
        BY <1>9, <3>3
      <4>2. u = t \/ (t # None /\ due[u] < due[t])
        BY <2>1, <3>3, <4>1 DEF RateOK, TimersBoundWaits, RL!OneTimerPerBurst, t
      <4>3. own = t /\ t # None
        BY <3>3, <4>2, RateTypes DEF own
      <4> QED
        BY <1>7, <1>9, <1>10, <2>1, <3>3, <4>1, <4>2, <4>3
    <3>4. CASE u # c /\ RL!Key(u) # k
      <4>1. bucket'[RL!Key(u)] = bucket[RL!Key(u)] /\ due'[u] = due[u]
        BY <1>9, <1>10, <3>1, <3>4
      <4>2. bucket[RL!Key(u)].shared # None /\ due[u] < due[bucket[RL!Key(u)].shared]
        BY <2>1, <4>1 DEF RateOK, TimersBoundWaits, RL!OneTimerPerBurst
      <4>3. bucket[RL!Key(u)].shared \in Callers /\ due[bucket[RL!Key(u)].shared] # None
        BY <3>1, <4>2, RateTypes DEF BucketTypes, RateOK, SharedTimersRun
      <4> QED
        BY <1>2, <1>9, <4>1, <4>2, <4>3
    <3> QED
      BY <3>2, <3>3, <3>4
  <2> QED
    BY <2>1 DEF RL!OneTimerPerBurst
<1> QED
  BY <1>11, <1>12, <1>13, <1>14, <1>15, <1>16 DEF RateOK, TimersBoundWaits

\* When the shared timer of a bucket fires, no other timer of the bucket runs:
\* it would have been due before, and no timer is late.
LEMMA FireStep == ASSUME RateOK, NEW t \in Callers, RL!Fire(t) PROVE RateOK'
<1> DEFINE k == RL!Key(t)
           rest == IF bucket[k].shared = t THEN None ELSE bucket[k].shared
           b == [bucket[k] EXCEPT !.shared = rest]
           woken(c) == [call[c] EXCEPT !.pc = "gate"]
<1>1. /\ due[t] # None /\ due[t] <= now /\ now' = now
      /\ due' = [due EXCEPT ![t] = None] /\ bucket' = [bucket EXCEPT ![k] = b]
      /\ call' = [c \in Callers |-> IF call[c].pc = "sleeping" /\ call[c].on = t THEN woken(c) ELSE call[c]]
  BY DEF RL!Fire
<1>2. k \in RL!Keys /\ bucket[k] \in BucketTypes
  BY KeysAreKeys, RateTypes
<1>3. b \in BucketTypes /\ b.shared = rest
  BY <1>2 DEF BucketTypes
<1>4. \A c \in Callers : woken(c) \in CallTypes /\ woken(c).pc = "gate"
  BY RateTypes DEF CallTypes
<1> HIDE DEF b, woken, k
<1>5. /\ call' \in [Callers -> CallTypes]
      /\ \A c \in Callers : IF call[c].pc = "sleeping" /\ call[c].on = t THEN call'[c].pc = "gate"
                             ELSE call'[c] = call[c]
  BY <1>1, <1>4, RateTypes
<1>6. due' \in [Callers -> Nat \cup {None}] /\ due'[t] = None /\ \A d \in Callers \ {t} : due'[d] = due[d]
  BY <1>1, RateTypes
<1>7. /\ bucket' \in [RL!Keys -> BucketTypes] /\ bucket'[k].shared = rest
      /\ \A j \in RL!Keys \ {k} : bucket'[j] = bucket[j]
  BY <1>1, <1>2, <1>3, RateTypes
<1>8. RL!TypeOK'
  BY <1>1, <1>5, <1>6, <1>7, RateTypes DEF RL!TypeOK, RL!Times, CallTypes, BucketTypes
<1>9. TimersInTime'
  BY <1>1, <1>6 DEF RateOK, TimersInTime
<1>10. TimersHaveCreators'
  BY <1>5, <1>6 DEF RateOK, TimersHaveCreators
<1>11. \A j \in RL!Keys : bucket'[j].shared # None => bucket'[j].shared = bucket[j].shared /\ bucket'[j].shared # t
  <2>1. ASSUME NEW j \in RL!Keys \ {k}, bucket[j].shared = t PROVE FALSE
    BY <2>1, RateTypes DEF RateOK, SharedTimersRun, k
  <2> QED
    BY <1>7, <2>1
<1>12. SharedTimersRun'
  <2>1. \A j \in RL!Keys : bucket[j].shared \in Callers \cup {None}
    BY RateTypes DEF BucketTypes
  <2> QED
    BY <1>6, <1>11, <2>1 DEF RateOK, SharedTimersRun
<1>13. RL!WaitsAreBounded'
  <2>1. ASSUME NEW d \in Callers, RL!Sleeping(d)'
        PROVE (/\ call[d].on # None /\ due[call[d].on] # None
               /\ call[d].deadline # None => due[call[d].on] <= call[d].deadline)'
    <3>1. call'[d] = call[d] /\ call[d].pc = "sleeping" /\ call[d].on # t
      BY <1>5, <2>1 DEF RL!Sleeping
    <3>2. /\ call[d].on \in Callers /\ due[call[d].on] # None
          /\ call[d].deadline # None => due[call[d].on] <= call[d].deadline
      BY <3>1, RateTypes DEF RateOK, TimersBoundWaits, RL!WaitsAreBounded, RL!Sleeping, CallTypes
    <3> QED
      BY <1>6, <3>1, <3>2, RateTypes
  <2> QED
    BY <2>1 DEF RL!WaitsAreBounded
<1>14. RL!OneTimerPerBurst'
  <2>1. ASSUME NEW u \in Callers, due'[u] # None, bucket'[RL!Key(u)].shared # u
        PROVE bucket'[RL!Key(u)].shared # None /\ due'[u] < due'[bucket'[RL!Key(u)].shared]
    <3>1. RL!Key(u) \in RL!Keys /\ u # t /\ due'[u] = due[u]
      BY <1>6, <2>1, KeysAreKeys
    <3>2. bucket[RL!Key(u)].shared # u
      <4>1. CASE RL!Key(u) = k
        BY <1>7, <2>1, <3>1, <4>1
      <4>2. CASE RL!Key(u) # k
        BY <1>7, <2>1, <3>1, <4>2
      <4> QED
        BY <4>1, <4>2
    <3>3. bucket[RL!Key(u)].shared # None /\ due[u] < due[bucket[RL!Key(u)].shared]
      BY <2>1, <3>1, <3>2 DEF RateOK, TimersBoundWaits, RL!OneTimerPerBurst
    <3>4. bucket[RL!Key(u)].shared # t
      <4>1. due[u] \in Nat /\ due[t] \in Nat /\ now <= due[u] /\ now \in Nat
        BY <1>1, <2>1, <3>1, RateTypes DEF RateOK, TimersInTime
      <4> QED
        BY <1>1, <3>3, <4>1
    <3>5. bucket'[RL!Key(u)].shared = bucket[RL!Key(u)].shared
      <4>1. CASE RL!Key(u) = k
        BY <1>7, <3>4, <4>1
      <4>2. CASE RL!Key(u) # k
        BY <1>7, <3>1, <4>2
      <4> QED
        BY <4>1, <4>2
    <3>6. bucket[RL!Key(u)].shared \in Callers
      BY <3>1, <3>3, RateTypes DEF BucketTypes
    <3> QED
      BY <1>6, <3>1, <3>3, <3>4, <3>5, <3>6
  <2> QED
    BY <2>1 DEF RL!OneTimerPerBurst
<1> QED
  BY <1>8, <1>9, <1>10, <1>12, <1>13, <1>14 DEF RateOK, TimersBoundWaits

\* Time stops for a timer that is due.
LEMMA ClockStep == ASSUME RateOK, RL!Tick PROVE RateOK'
<1>1. now' = now + 1 /\ UNCHANGED <<bucket, call, due>> /\ \A c \in Callers : due[c] # None => due[c] > now
  BY DEF RL!Tick
<1>2. TimersInTime'
  BY <1>1, RateTypes DEF TimersInTime
<1>3. RL!TypeOK'
  BY <1>1, RateTypes DEF RateOK, RL!TypeOK
<1> QED
  BY <1>1, <1>2, <1>3 DEF RateOK, TimersHaveCreators, SharedTimersRun, TimersBoundWaits, RL!WaitsAreBounded,
       RL!OneTimerPerBurst, RL!Sleeping

LEMMA RateStep == RateOK /\ [RL!Next]_rateVars => RateOK'
<1> SUFFICES ASSUME RateOK, [RL!Next]_rateVars PROVE RateOK'
  OBVIOUS
<1>1. CASE UNCHANGED rateVars
  BY <1>1 DEF rateVars, RateOK, RL!TypeOK, TimersInTime, TimersHaveCreators, SharedTimersRun, TimersBoundWaits,
       RL!WaitsAreBounded, RL!OneTimerPerBurst, RL!Sleeping
<1> QED
  BY <1>1, CallerStep, JoinStep, CreateStep, FireStep, GatewayStep, ClockStep DEF RL!Next, RL!Turn

(* A call that waits for a window wakes within its own maxWait whoever     *)
(* created its timer, and a burst of calls waits on one timer.             *)
THEOREM TheGateKeepsTime == WaitingSpec => []TimersBoundWaits
<1>1. WaitingInit => RateOK
  <2> SUFFICES ASSUME RL!Init PROVE RateOK
    BY DEF WaitingInit
  <2> USE RateLimitAssumption DEF RateLimitAssumption, RL!Init
  <2>1. RL!TypeOK
    BY DEF RL!TypeOK, RL!Times
  <2>2. TimersInTime /\ TimersHaveCreators /\ SharedTimersRun
    BY DEF TimersInTime, TimersHaveCreators, SharedTimersRun
  <2>3. TimersBoundWaits
    BY DEF TimersBoundWaits, RL!WaitsAreBounded, RL!OneTimerPerBurst, RL!Sleeping
  <2> QED
    BY <2>1, <2>2, <2>3 DEF RateOK
<1>2. RateOK /\ [WaitingNext]_allVars => RateOK'
  BY StepOfEach, RateStep
<1>3. RateOK => TimersBoundWaits
  BY DEF RateOK
<1> QED
  BY <1>1, <1>2, <1>3, PTL DEF WaitingSpec
=============================================================================
