------------------------------ MODULE RateLimit ------------------------------
(***************************************************************************)
(* The fetch wrapper of opencode-ratelimit.  The calls to one model share  *)
(* a bucket: the window until which requests are held back, and the timer  *)
(* on which they wait for it.  Answers move the window while others wait.  *)
(*                                                                         *)
(* Time is counted in seconds.  Nothing happens between a timer that fires *)
(* and the continuations of those who wait for it (microtasks), and no     *)
(* timer is late; the latency of a request is arbitrary.                   *)
(***************************************************************************)
EXTENDS Integers, Sequences

CONSTANTS
  Callers,    \* the calls of the wrapped fetch
  Scope,      \* "model" or "provider"
  Model,      \* the model a request names, None when it names none
  RawTiers,   \* the tiers of options.meta.rateLimit as they are configured
  Answers,    \* the answers of the gateway: status and headers
  None

VARIABLES
  now,        \* seconds
  bucket,     \* ProviderRateState per key: until, maxWait, and whose timer is shared
  call,       \* where each call is
  due         \* when the timer that a call created fires, None without one

vars == <<now, bucket, call, due>>

DefaultMaxRetries == 5
DefaultBackoff == 1

(* A bound of 0 covers every reset; the flat form of the configuration is  *)
(* one such tier with action "wait".                                       *)
ParseTier(raw) ==
  [bound      |-> IF raw.bound > 0 THEN raw.bound ELSE 0,
   action     |-> IF raw.action = "error" THEN "error" ELSE "wait",
   maxWait    |-> IF raw.maxWait > 0 THEN raw.maxWait ELSE 0,
   maxRetries |-> IF raw.maxRetries > 0 THEN raw.maxRetries ELSE DefaultMaxRetries]

Tiers == [i \in DOMAIN RawTiers |-> ParseTier(RawTiers[i])]

CatchAll == [bound |-> 0, action |-> "wait", maxWait |-> 0, maxRetries |-> DefaultMaxRetries]

(* What selectTier finds in the tiers that normalizeTiers has sorted: the  *)
(* tightest one that covers the reset, the first of equal ones.            *)
Tighter(s, t) == s # 0 /\ (t = 0 \/ s < t)

SelectTier(reset) ==
  LET covers == {i \in DOMAIN Tiers : Tiers[i].bound = 0 \/ reset <= Tiers[i].bound}
  IN  IF covers = {} THEN CatchAll
      ELSE Tiers[CHOOSE i \in covers : \A j \in covers \ {i} :
                   \/ Tighter(Tiers[i].bound, Tiers[j].bound)
                   \/ Tiers[i].bound = Tiers[j].bound /\ i < j]

(* A header is None when it is missing or is not a number; Retry-After is  *)
(* given by how far away it is, and a date in the past is no wait.         *)
ParseRateLimit(headers) ==
  [headers EXCEPT !.retryAfter = IF @ # None /\ @ < 0 THEN 0 ELSE @]

Snapshots == {ParseRateLimit(headers) : headers \in Answers}

EffectiveReset(a) ==
  IF a.reset # None THEN a.reset ELSE IF a.retryAfter # None THEN a.retryAfter ELSE 0

Backoff(a) ==
  IF a.reset # None THEN (IF a.reset > 0 THEN a.reset ELSE 0)
  ELSE IF a.retryAfter # None THEN a.retryAfter ELSE DefaultBackoff

Clamp(wait, maxWait) == IF maxWait > 0 /\ maxWait < wait THEN maxWait ELSE wait

Key(c) == IF Scope = "model" /\ Model[c] # None THEN Model[c] ELSE "provider"
Keys == {Key(c) : c \in Callers}

Init ==
  /\ now = 0
  /\ bucket = [k \in Keys |-> [until |-> 0, maxWait |-> 0, shared |-> None]]
  /\ call = [c \in Callers |->
       [pc |-> "idle", phase |-> "request", attempt |-> 0, deadline |-> None, on |-> None]]
  /\ due = [c \in Callers |-> None]

(* Continuations run before the next timer, answer or call does.           *)
Idle == \A c \in Callers : call[c].pc # "gate"

InGate(c, phase, maxWait) ==
  [call[c] EXCEPT !.pc = "gate", !.phase = phase,
                  !.deadline = IF maxWait > 0 THEN now + maxWait ELSE None]

Start(c) ==
  LET b == bucket[Key(c)]
  IN  /\ Idle /\ call[c].pc = "idle"
      /\ call' = [call EXCEPT ![c] = IF b.until > now THEN InGate(c, "request", b.maxWait)
                                                      ELSE [@ EXCEPT !.pc = "sent"]]
      /\ UNCHANGED <<now, bucket, due>>

(* One turn of the loop of waitGate.                                       *)
Target(c) ==
  LET until == bucket[Key(c)].until
      deadline == call[c].deadline
  IN  IF deadline # None /\ deadline < until THEN deadline ELSE until

LeaveGate(c) ==
  /\ call[c].pc = "gate" /\ Target(c) <= now
  /\ call' = [call EXCEPT ![c].pc = "sent", ![c].on = None, ![c].deadline = None,
                          ![c].attempt = IF call[c].phase = "backoff" THEN @ + 1 ELSE @]
  /\ UNCHANGED <<now, bucket, due>>

ReusesAnyTimer(c) == bucket[Key(c)].shared # None

Reuses(c) ==
  LET shared == bucket[Key(c)].shared IN shared # None /\ due[shared] <= Target(c)

JoinTimer(c) ==
  /\ call[c].pc = "gate" /\ Target(c) > now /\ Reuses(c)
  /\ call' = [call EXCEPT ![c].pc = "sleeping", ![c].on = bucket[Key(c)].shared]
  /\ UNCHANGED <<now, bucket, due>>

CreateTimerAndPublish(c) ==
  /\ call[c].pc = "gate" /\ Target(c) > now /\ ~Reuses(c)
  /\ due' = [due EXCEPT ![c] = Target(c)]
  /\ bucket' = [bucket EXCEPT ![Key(c)].shared = c]
  /\ call' = [call EXCEPT ![c].pc = "sleeping", ![c].on = c]
  /\ UNCHANGED now

CreateTimer(c) ==
  /\ call[c].pc = "gate" /\ Target(c) > now /\ ~Reuses(c)
  /\ due' = [due EXCEPT ![c] = Target(c)]
  /\ bucket' = [bucket EXCEPT ![Key(c)].shared = IF @ = None THEN c ELSE @]
  /\ call' = [call EXCEPT ![c].pc = "sleeping", ![c].on = c]
  /\ UNCHANGED now

FireForCreator(t) ==
  /\ Idle /\ due[t] # None /\ due[t] <= now
  /\ due' = [due EXCEPT ![t] = None]
  /\ bucket' = [bucket EXCEPT ![Key(t)].shared = IF @ = t THEN None ELSE @]
  /\ call' = [call EXCEPT ![t].pc = IF @ = "sleeping" THEN "gate" ELSE @]
  /\ UNCHANGED now

Fire(t) ==
  /\ Idle /\ due[t] # None /\ due[t] <= now
  /\ due' = [due EXCEPT ![t] = None]
  /\ bucket' = [bucket EXCEPT ![Key(t)].shared = IF @ = t THEN None ELSE @]
  /\ call' = [c \in Callers |-> IF call[c].pc = "sleeping" /\ call[c].on = t
                                THEN [call[c] EXCEPT !.pc = "gate"] ELSE call[c]]
  /\ UNCHANGED now

Return(c) == call' = [call EXCEPT ![c].pc = "done"]

(* An answer other than 429: an exhausted window holds back the next       *)
(* callers, or lets them run into their own 429.                           *)
Pass(c, a) ==
  LET tier == SelectTier(EffectiveReset(a))
      exhausted == a.remaining # None /\ a.remaining <= 0 /\ a.reset # None
  IN  /\ Idle /\ call[c].pc = "sent" /\ a.status # 429
      /\ bucket' = CASE exhausted /\ tier.action = "wait" ->
                          [bucket EXCEPT ![Key(c)].until = now + a.reset,
                                         ![Key(c)].maxWait = tier.maxWait]
                     [] exhausted /\ tier.action = "error" ->
                          [bucket EXCEPT ![Key(c)].until = 0, ![Key(c)].maxWait = 0]
                     [] OTHER -> bucket
      /\ Return(c) /\ UNCHANGED <<now, due>>

FailFast(c, a) ==
  /\ Idle /\ call[c].pc = "sent" /\ a.status = 429
  /\ SelectTier(EffectiveReset(a)).action = "error"
  /\ bucket' = [bucket EXCEPT ![Key(c)].until = 0, ![Key(c)].maxWait = 0]
  /\ Return(c) /\ UNCHANGED <<now, due>>

GiveUp(c, a) ==
  LET tier == SelectTier(EffectiveReset(a))
  IN  /\ Idle /\ call[c].pc = "sent" /\ a.status = 429
      /\ tier.action = "wait" /\ call[c].attempt >= tier.maxRetries
      /\ Return(c) /\ UNCHANGED <<now, bucket, due>>

BackOff(c, a) ==
  LET tier == SelectTier(EffectiveReset(a))
  IN  /\ Idle /\ call[c].pc = "sent" /\ a.status = 429
      /\ tier.action = "wait" /\ call[c].attempt < tier.maxRetries
      /\ bucket' = [bucket EXCEPT ![Key(c)].until = now + Clamp(Backoff(a), tier.maxWait),
                                  ![Key(c)].maxWait = tier.maxWait]
      /\ call' = [call EXCEPT ![c] = InGate(c, "backoff", tier.maxWait)]
      /\ UNCHANGED <<now, due>>

(* The caller's signal, or the request fails; a timer of the call goes on. *)
Abort(c) ==
  /\ Idle /\ call[c].pc \in {"sleeping", "sent"}
  /\ call' = [call EXCEPT ![c].pc = "thrown"]
  /\ UNCHANGED <<now, bucket, due>>

(* Time passes while somebody waits or a window is open.                   *)
Tick ==
  /\ Idle
  /\ \A c \in Callers : due[c] # None => due[c] > now
  /\ \/ \E c \in Callers : due[c] # None
     \/ \E k \in Keys : bucket[k].until > now
  /\ now' = now + 1
  /\ UNCHANGED <<bucket, call, due>>

Turn(c) == LeaveGate(c) \/ JoinTimer(c) \/ CreateTimer(c)

Next ==
  \/ \E c \in Callers : Start(c) \/ Turn(c) \/ Fire(c) \/ Abort(c)
  \/ \E c \in Callers, a \in Snapshots :
        Pass(c, a) \/ FailFast(c, a) \/ GiveUp(c, a) \/ BackOff(c, a)
  \/ Tick

(* Timers fire and promises are continued; the gateway need not answer.    *)
Fairness == WF_vars(Tick) /\ \A c \in Callers : WF_vars(Turn(c)) /\ WF_vars(Fire(c))

Spec == Init /\ [][Next]_vars /\ Fairness

-----------------------------------------------------------------------------
Times == Nat \cup {None}

TypeOK ==
  /\ now \in Nat
  /\ bucket \in [Keys -> [until : Int, maxWait : Nat, shared : Callers \cup {None}]]
  /\ call \in [Callers -> [pc : {"idle", "gate", "sleeping", "sent", "done", "thrown"},
                           phase : {"request", "backoff"}, attempt : Nat, deadline : Times,
                           on : Callers \cup {None}]]
  /\ due \in [Callers -> Times]

Sleeping(c) == call[c].pc = "sleeping"

(* A call that waits has a pending timer that fires within its own         *)
(* maxWaitMs, whoever created it: "maxWaitMs bounds the TOTAL wait of a    *)
(* single call" (plugin.ts:458).  The timers of waitGate are shared, and   *)
(* the window they were created for may have moved since.                  *)
WaitsAreBounded ==
  \A c \in Callers : Sleeping(c) =>
    /\ call[c].on # None /\ due[call[c].on] # None
    /\ call[c].deadline # None => due[call[c].on] <= call[c].deadline

(* A burst waits on one timer: a timer beside the shared one of its bucket *)
(* is one that the shared timer would have held back too long (waitGate,   *)
(* plugin.ts:498-519), whatever happened to the window meanwhile.          *)
OneTimerPerBurst ==
  \A t \in Callers : due[t] # None /\ bucket[Key(t)].shared # t =>
    bucket[Key(t)].shared # None /\ due[t] < due[bucket[Key(t)].shared]

(* Whoever waits at the gate gets through it or is aborted, although       *)
(* others may extend the window while it sleeps (plugin.ts:531).           *)
WaitersMoveOn == \A c \in Callers : Sleeping(c) ~> call[c].pc \in {"sent", "thrown", "done"}
=============================================================================
