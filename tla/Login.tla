-------------------------------- MODULE Login --------------------------------
(***************************************************************************)
(* The logins of auth-core: the authorization code flow with its callback  *)
(* server on the loopback interface, the device code flow with its polls,  *)
(* and the grants of machines.  The code flow asks for a fixed port when   *)
(* redirectPort is set, so the logins of several servers or processes      *)
(* share that port, and so do the pages they have opened.                  *)
(*                                                                         *)
(* External: the identity provider, the browser and its user, CI.  Time is *)
(* counted in steps of SLOW_DOWN_INCREMENT_SECONDS; timers may fire late.  *)
(***************************************************************************)
EXTENDS Integers, FiniteSets, FiniteSetsExt

CONSTANTS
  Logins,        \* the calls of a login
  Flows,         \* who uses which flow: a set of functions
  Timeout,       \* timeoutMs of one request
  CallbackWait,  \* the default of waitForCode
  ExpiresIn,     \* expires_in of a device code
  Intervals,     \* the intervals a provider asks for
  Cap,           \* MAX_POLL_INTERVAL_SECONDS
  None

VARIABLES
  flow,          \* the authFlow of each login, with or without redirectPort
  step,          \* where each login is
  result,        \* how it ended
  timer,         \* what is left of the timer it has set
  listening,     \* logins whose callback server is open
  pages,         \* authorization pages the user has not finished
  received,      \* what settled the promise of a callback server
  deadline,      \* what is left of the life of the device code
  interval,      \* intervalSeconds
  asked,         \* history: the interval the provider has asked for
  slept          \* history: time since the answer to the last poll

serverVars == <<listening, pages, received>>
deviceVars == <<deadline, interval, asked, slept>>
loginVars  == <<flow, step, result, timer, serverVars, deviceVars>>

Init ==
  /\ flow \in Flows
  /\ step = [l \in Logins |-> "idle"] /\ result = [l \in Logins |-> None]
  /\ timer = [l \in Logins |-> 0]
  /\ listening = {} /\ pages = {} /\ received = [l \in Logins |-> None]
  /\ deadline = [l \in Logins |-> 0] /\ interval = [l \in Logins |-> 0]
  /\ asked = [l \in Logins |-> 0] /\ slept = [l \in Logins |-> 0]

Goto(l, s, time) ==
  step' = [step EXCEPT ![l] = s] /\ timer' = [timer EXCEPT ![l] = time]

(* The finally block closes the callback server, if there is one.          *)
End(l, outcome) ==
  /\ Goto(l, IF l \in listening THEN "closing" ELSE "done", 0)
  /\ result' = [result EXCEPT ![l] = outcome]
  /\ listening' = listening \ {l}
  /\ UNCHANGED <<flow, pages, received, deviceVars>>

(* toTokenSet: a provider may answer without a token, or without the       *)
(* refresh token that a user's login requires.                             *)
ToTokenSet(l) == \E outcome \in {"token", "error"} : End(l, outcome)

-----------------------------------------------------------------------------
(* Every flow: the subject token, the discovery, one request.  A server    *)
(* with all endpoints configured needs no discovery.                       *)

Request(l) == step[l] \in {"subject", "discovering", "authorizing", "exchanging", "granting"}

ResolvedEndpoints(l) ==
  CASE flow[l] \in {"any port", "fixed port"} -> Goto(l, "listen", 0)
    [] flow[l] = "device_code" -> Goto(l, "authorizing", Timeout)
    [] OTHER -> Goto(l, "granting", Timeout)

ResolveEndpoints(l) == Goto(l, "discovering", Timeout) \/ ResolvedEndpoints(l)

Start(l) ==
  /\ step[l] = "idle"
  /\ IF flow[l] = "federated" THEN Goto(l, "subject", Timeout) ELSE ResolveEndpoints(l)
  /\ UNCHANGED <<flow, result, serverVars, deviceVars>>

ResolveSubjectToken(l) ==
  /\ step[l] = "subject" /\ ResolveEndpoints(l)
  /\ UNCHANGED <<flow, result, serverVars, deviceVars>>

DiscoverOidcMetadata(l) ==
  /\ step[l] = "discovering" /\ ResolvedEndpoints(l)
  /\ UNCHANGED <<flow, result, serverVars, deviceVars>>

PostClientCredentials(l) ==
  step[l] = "granting" /\ flow[l] = "client_credentials" /\ ToTokenSet(l)

PostFederatedGrant(l) == step[l] = "granting" /\ flow[l] = "federated" /\ ToTokenSet(l)

(* An answer that is not ok, a body without what is needed, no connection. *)
RequestFails(l) == Request(l) /\ End(l, "error")

(* The AbortController of the request.                                     *)
Abort(l) == Request(l) /\ timer[l] = 0 /\ End(l, "error")

-----------------------------------------------------------------------------
(* The authorization code flow.                                            *)

SamePort(l, m) == l = m \/ (flow[l] = "fixed port" /\ flow[m] = "fixed port")

(* EADDRINUSE comes before the try block: there is no server to close.     *)
StartLocalCallbackServer(l) ==
  /\ step[l] = "listen"
  /\ IF \E m \in listening : SamePort(l, m)
     THEN End(l, "error")
     ELSE /\ Goto(l, "opening", 0) /\ listening' = listening \cup {l}
          /\ UNCHANGED <<flow, result, pages, received, deviceVars>>

(* Without a browser the user finds the URL on stderr.                     *)
OpenExternalUrl(l) ==
  /\ step[l] = "opening" /\ l \notin pages
  /\ pages' = pages \cup {l} /\ Goto(l, "opened", 0)
  /\ UNCHANGED <<flow, result, listening, received, deviceVars>>

(* onAuthorizationUrl may throw.                                           *)
CannotOpen(l) == step[l] = "opening" /\ End(l, "error")

WaitForCode(l) ==
  /\ step[l] = "opened" /\ Goto(l, "waiting", CallbackWait)
  /\ UNCHANGED <<flow, result, serverVars, deviceVars>>

(* What a redirect brings: the code and the state of its page, or neither. *)
ParseCallback(q) == {q, "invalid"}

(* The user finishes a page, however late: its redirect reaches whoever    *)
(* listens on that port now.  A refusal has no code and rejects.           *)
Callback(q) ==
  /\ q \in pages /\ pages' = pages \ {q}
  /\ \E payload \in ParseCallback(q) :
       received' = [l \in Logins |->
                      IF l \in listening /\ SamePort(l, q) /\ received[l] = None
                      THEN payload ELSE received[l]]
  /\ UNCHANGED <<flow, step, result, timer, listening, deviceVars>>

ReceiveCode(l) ==
  /\ step[l] = "waiting" /\ received[l] = l
  /\ Goto(l, "exchanging", Timeout)
  /\ UNCHANGED <<flow, result, serverVars, deviceVars>>

ExchangeCode(l) == step[l] = "exchanging" /\ ToTokenSet(l)

(* An invalid callback, or the state of another login.                     *)
Mismatch(l) == step[l] = "waiting" /\ received[l] \notin {None, l} /\ End(l, "error")

\* A mutation of WaitTimesOut: the timer only ends a wait that has its answer.
WaitHasNoLimit(l) == step[l] = "waiting" /\ received[l] # None /\ timer[l] = 0 /\ End(l, "error")

WaitTimesOut(l) == step[l] = "waiting" /\ received[l] = None /\ timer[l] = 0 /\ End(l, "error")

(* server.close() waits for the connections that are open.                 *)
Closed(l) ==
  /\ step[l] = "closing" /\ Goto(l, "done", 0)
  /\ UNCHANGED <<flow, result, serverVars, deviceVars>>

-----------------------------------------------------------------------------
(* The device code flow.                                                   *)

Authorized(l) ==
  /\ step[l] = "authorizing" /\ Goto(l, "loop", 0)
  /\ \E i \in Intervals : /\ interval' = [interval EXCEPT ![l] = i]
                          /\ asked' = [asked EXCEPT ![l] = i]
  /\ deadline' = [deadline EXCEPT ![l] = ExpiresIn]
  /\ UNCHANGED <<flow, result, serverVars, slept>>

Expired(l) == step[l] = "loop" /\ deadline[l] = 0 /\ End(l, "error")

Sleep(l) ==
  /\ step[l] = "loop" /\ deadline[l] > 0
  /\ Goto(l, "sleeping", Min({interval[l], deadline[l]}))
  /\ slept' = [slept EXCEPT ![l] = 0]
  /\ UNCHANGED <<flow, result, serverVars, deadline, interval, asked>>

Poll(l) ==
  /\ step[l] = "sleeping" /\ timer[l] = 0 /\ Goto(l, "polling", Timeout)
  /\ UNCHANGED <<flow, result, serverVars, deviceVars>>

PollSucceeds(l) == step[l] = "polling" /\ ToTokenSet(l)

(* expired_token, access_denied, any other 4xx and every 5xx, and the      *)
(* TypeError of a fetch.                                                   *)
PollIsRefused(l) == step[l] = "polling" /\ End(l, "error")

AuthorizationPending(l) ==
  /\ step[l] = "polling" /\ Goto(l, "loop", 0)
  /\ UNCHANGED <<flow, result, serverVars, deviceVars>>

\* A mutation of SlowDown: the next interval is the old one.
SlowDownUnheard(l) ==
  /\ step[l] = "polling" /\ Goto(l, "loop", 0)
  /\ asked' = [asked EXCEPT ![l] = @ + 1]
  /\ UNCHANGED <<flow, result, serverVars, deadline, interval, slept>>

SlowDown(l) ==
  /\ step[l] = "polling" /\ Goto(l, "loop", 0)
  /\ interval' = [interval EXCEPT ![l] = @ + 1]
  /\ asked' = [asked EXCEPT ![l] = @ + 1]
  /\ UNCHANGED <<flow, result, serverVars, deadline, slept>>

BackOff(l) ==
  /\ step[l] = "polling" /\ Goto(l, "loop", 0)
  /\ interval' = [interval EXCEPT ![l] = Min({@ + 1, Cap})]
  /\ UNCHANGED <<flow, result, serverVars, deadline, asked, slept>>

(* The poll is aborted, or the network fails it sooner.                    *)
PollAborts(l) == timer[l] = 0 /\ BackOff(l)
PollFails(l) == BackOff(l)

-----------------------------------------------------------------------------
Less(t) == [l \in Logins |-> IF t[l] > 0 THEN t[l] - 1 ELSE 0]

(* `slept` counts as far as the longest interval there can be.             *)
Tick ==
  /\ timer' = Less(timer) /\ deadline' = Less(deadline)
  /\ slept' = [l \in Logins |-> IF step[l] = "sleeping" THEN Min({slept[l] + 1, ExpiresIn})
                                ELSE slept[l]]
  /\ UNCHANGED <<flow, step, result, serverVars, interval, asked>>

(* What the program does once it can.                                      *)
Proceed(l) ==
  \/ Abort(l) \/ StartLocalCallbackServer(l) \/ OpenExternalUrl(l) \/ WaitForCode(l)
  \/ ReceiveCode(l) \/ Mismatch(l) \/ WaitTimesOut(l) \/ Closed(l)
  \/ Expired(l) \/ Sleep(l) \/ Poll(l) \/ PollAborts(l)

Next ==
  \/ Tick
  \/ \E l \in Logins :
       \/ Proceed(l)
       \/ Start(l) \/ ResolveSubjectToken(l) \/ DiscoverOidcMetadata(l)
       \/ PostClientCredentials(l) \/ PostFederatedGrant(l) \/ ExchangeCode(l) \/ RequestFails(l)
       \/ CannotOpen(l) \/ Callback(l)
       \/ Authorized(l) \/ PollSucceeds(l) \/ PollIsRefused(l)
       \/ AuthorizationPending(l) \/ SlowDown(l) \/ PollFails(l)

Spec ==
  /\ Init /\ [][Next]_loginVars
  /\ WF_loginVars(Tick) /\ \A l \in Logins : WF_loginVars(Proceed(l))

-----------------------------------------------------------------------------
(* Every login ends, whatever the provider and the user do: TokenRuntime   *)
(* holds its callers, and a fixed port, until then.                        *)
LoginsEnd == \A l \in Logins : step[l] # "idle" ~> step[l] = "done"

(* A poll comes no sooner after an answer than the provider has asked for, *)
(* slow_down answers included, up to the cap of the back off.  The last    *)
(* one may: the deadline cuts the sleep short.                             *)
PollsKeepTheInterval ==
  [][\A l \in Logins :
       step[l] = "sleeping" /\ step'[l] = "polling"
         => slept[l] >= Min({asked[l], Cap}) \/ deadline[l] = 0]_loginVars
=============================================================================
