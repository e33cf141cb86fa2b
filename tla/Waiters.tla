------------------------------- MODULE Waiters -------------------------------
(***************************************************************************)
(* The components in which somebody waits for what another one does:       *)
(* processes for a lock file, calls for a window, batches for credentials, *)
(* adapters for a bridge, a browser for a link, a login for its user.  The *)
(* components share no variable, so one of them moves and the others stay  *)
(* as they began.                                                          *)
(***************************************************************************)
EXTENDS FileLock, Sequences

CONSTANTS
  None,
  Callers, Scope, Model, RawTiers, Answers,                            \* RateLimit
  Batches, Attributes, MaxTokens,                                      \* Exporters
  Endpoints, Plugins, Pinned, Leftovers, MayExit,                      \* Endpoint
  Dials, MaxEvents, MaxMishaps,                                        \* BridgeClient
  Logins, Flows, Timeout, CallbackWait, ExpiresIn, Intervals, Cap      \* Login

\* Tiers and answers hold numbers; None is neither a number nor a call.
ASSUME RateLimitAssumption ==
  /\ None \notin Callers /\ None \notin Nat
  /\ RawTiers \in Seq([bound : Int, action : {"error", "wait"}, maxWait : Int, maxRetries : Int])
  /\ \A a \in Answers : a \in [status : Nat, remaining : Int \cup {None}, reset : Int \cup {None},
                               retryAfter : Int \cup {None}]
\* None is no origin of a token.
ASSUME EndpointAssumption == None \notin {"explicit", "file", "generated"}
\* Times are counted in whole steps.
ASSUME LoginAssumption ==
  ExpiresIn \in Nat /\ Cap \in Nat /\ Timeout \in Nat /\ CallbackWait \in Nat /\ Intervals \subseteq Nat

VARIABLES component,
  now, bucket, call, due,
  token, valid, issued, helper, pending, batch, exiting,
  pc, bridgeToken, source, read, bridge, port, hostToken, peer,
  stopped, rejected, link, dial, timer, rebuilding, settings, host, silenced, events, mishaps,
  flow, step, result, timeLeft, listening, pages, received, deadline, interval, asked, slept

rateVars   == <<now, bucket, call, due>>
exportVars == <<token, valid, issued, helper, pending, batch, exiting>>
endpointVars == <<pc, bridgeToken, source, read, bridge, port, hostToken, peer>>
clientVars == <<stopped, rejected, link, dial, timer, rebuilding, settings, host, silenced,
                events, mishaps>>
loginVars  == <<flow, step, result, timeLeft, listening, pages, received, deadline, interval,
                asked, slept>>
allVars == <<component, vars, rateVars, exportVars, endpointVars, clientVars, loginVars>>

-----------------------------------------------------------------------------
RL == INSTANCE RateLimit
EX == INSTANCE Exporters
EP == INSTANCE Endpoint WITH Procs <- Endpoints, token <- bridgeToken
BC == INSTANCE BridgeClient WITH MaxFaults <- MaxMishaps, faults <- mishaps
LO == INSTANCE Login WITH timer <- timeLeft

-----------------------------------------------------------------------------
WaitingInit ==
  /\ component \in {"lock", "ratelimit", "exporters", "endpoint", "client", "login"}
  /\ Init /\ RL!Init /\ EX!Init /\ EP!Init /\ BC!Init /\ LO!Init
  /\ component # "endpoint" => bridge = CHOOSE b \in Leftovers : TRUE
  /\ component # "client" => settings = "saved" /\ host = "good"
  /\ component # "login" => flow = CHOOSE f \in Flows : TRUE

(* A component may have nothing left to do.                                *)
Stopped ==
  \/ component = "ratelimit" /\ \A c \in Callers : call[c].pc \in {"done", "thrown"}
  \/ component = "exporters" /\ exiting
  \/ component = "endpoint" /\ \A p \in Endpoints : pc[p] \in {"host", "guest", "gone"}

WaitingNext ==
  /\ UNCHANGED component
  /\ \/ component = "lock" /\ Next /\ UNCHANGED <<rateVars, exportVars, endpointVars, clientVars, loginVars>>
     \/ component = "ratelimit" /\ RL!Next /\ UNCHANGED <<vars, exportVars, endpointVars, clientVars, loginVars>>
     \/ component = "exporters" /\ EX!Next /\ UNCHANGED <<vars, rateVars, endpointVars, clientVars, loginVars>>
     \/ component = "endpoint" /\ EP!Next /\ UNCHANGED <<vars, rateVars, exportVars, clientVars, loginVars>>
     \/ component = "client" /\ BC!Next /\ UNCHANGED <<vars, rateVars, exportVars, endpointVars, loginVars>>
     \/ component = "login" /\ LO!Next /\ UNCHANGED <<vars, rateVars, exportVars, endpointVars, clientVars>>
     \/ Stopped /\ UNCHANGED <<vars, rateVars, exportVars, endpointVars, clientVars, loginVars>>

(* The fairness of each module, for the component that moves.              *)
WaitingFairness ==
  /\ WF_rateVars(component = "ratelimit" /\ RL!Tick)
  /\ \A c \in Callers : /\ WF_rateVars(component = "ratelimit" /\ RL!Turn(c))
                        /\ WF_rateVars(component = "ratelimit" /\ RL!Fire(c))
  /\ \A b \in Batches : WF_exportVars(component = "exporters" /\ EX!Request(b))
  /\ \A a \in Attributes : WF_exportVars(component = "exporters" /\ EX!Settle(a))
  /\ WF_exportVars(component = "exporters" /\ EX!HelperFails)
  /\ \A p \in Endpoints :
       /\ WF_endpointVars(component = "endpoint" /\ EP!WriteBridgeFile(p))
       /\ WF_endpointVars(component = "endpoint" /\ EP!Elect(p))
  /\ WF_clientVars(component = "client" /\ BC!Connect)
  /\ WF_clientVars(component = "client" /\ BC!Open)
  /\ WF_clientVars(component = "client" /\ BC!Ready)
  /\ WF_clientVars(component = "client" /\ BC!Rejected)
  /\ WF_clientVars(component = "client" /\ BC!OnClose)
  /\ WF_clientVars(component = "client" /\ BC!Retry)
  /\ \A d \in Dials : /\ WF_clientVars(component = "client" /\ BC!GetConfig(d))
                      /\ WF_clientVars(component = "client" /\ BC!StatusWritten(d))
  /\ WF_loginVars(component = "login" /\ LO!Tick)
  /\ \A l \in Logins : WF_loginVars(component = "login" /\ LO!Proceed(l))

WaitingSpec == WaitingInit /\ [][WaitingNext]_allVars /\ WaitingFairness

-----------------------------------------------------------------------------
TimersBoundWaits == RL!WaitsAreBounded /\ RL!OneTimerPerBurst
WaitersMoveOn == RL!WaitersMoveOn

FailClosed == EX!FailClosed
BatchesEnd == EX!BatchesEnd

NewcomerIsAccepted == EP!NewcomerIsAccepted
EverybodyAttaches == EP!EverybodyAttaches

LinkHeals == BC!LinkHeals
NoDialWhileStopped == BC!NoDialWhileStopped

LoginsEnd == LO!LoginsEnd
PollsKeepTheInterval == LO!PollsKeepTheInterval
=============================================================================
