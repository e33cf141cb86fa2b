----------------------------- MODULE MC_Waiting -----------------------------
(***************************************************************************)
(* Small instances of the components in which somebody waits.              *)
(***************************************************************************)
EXTENDS Waiters, TLC

CONSTANTS
  p1, p2, p3,                      \* FileLock
  c1, c2, c3, m1,                  \* RateLimit
  b1, b2, b3, a1, a2,              \* Exporters
  e1, e2, e3,                      \* Endpoint
  g1, g2                           \* Login

-----------------------------------------------------------------------------
(* RateLimit: three calls to one model; within a second they wait for any  *)
(* time, within three for two at most, and beyond they fail.               *)
OneModel == [c \in {c1, c2, c3} |-> m1]

ThreeTiers ==
  << [bound |-> 0, action |-> "error", maxWait |-> 0, maxRetries |-> 0],
     [bound |-> 3, action |-> "wait",  maxWait |-> 2, maxRetries |-> 1],
     [bound |-> 1, action |-> "wait",  maxWait |-> 0, maxRetries |-> 1] >>

Answer(status, remaining, reset, retryAfter) ==
  [status |-> status, remaining |-> remaining, reset |-> reset, retryAfter |-> retryAfter]

SixAnswers ==
  { Answer(200, 1, None, None), Answer(200, 0, 1, None), Answer(200, -1, 4, None),
    Answer(429, 0, 3, None), Answer(429, 0, 4, None), Answer(429, None, None, -1) }

-----------------------------------------------------------------------------
(* Endpoint: a file of an earlier session, or of a bridge on another port. *)
TwoLeftovers == {[here |-> TRUE, token |-> "old"], [here |-> FALSE, token |-> "other"]}

-----------------------------------------------------------------------------
(* Login: two logins share the redirect port, or nothing but the time.     *)
FourFlows ==
  { g1 :> "fixed port" @@ g2 :> "fixed port", g1 :> "any port" @@ g2 :> "fixed port",
    g1 :> "device_code" @@ g2 :> "federated",
    g1 :> "client_credentials" @@ g2 :> "client_credentials" }
=============================================================================
