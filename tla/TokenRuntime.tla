---------------------------- MODULE TokenRuntime ----------------------------
(***************************************************************************)
(* TokenRuntime.ensure of packages/opencode-auth-core/src/token-runtime.ts *)
(* for one identity with a user login (authorization_code, device_code):   *)
(* several processes share a cache directory, each with its own callers,   *)
(* and refresh against an identity provider whose refresh tokens are for   *)
(* single use and whose chain is revoked when a rotated one is replayed.   *)
(*                                                                         *)
(* The lock is FileLock, step for step.  A token set is a number: the n-th *)
(* grant of the provider, with its access token and its refresh token.     *)
(***************************************************************************)
EXTENDS Integers, FiniteSets

CONSTANTS
  Procs, Callers, ProcOf,    \* the processes, the callers of ensure, who runs in which
  NoFile, Stale, Margin, MaxHold, Timely, MaxFaults,       \* as in FileLock
  HttpTimeout,               \* timeoutMs, in ticks
  Discovers,                 \* TRUE: endpoints are not configured, so refreshToken discovers them
  Patient,                   \* TRUE: nobody reaches the deadline of his wait for the lock
  LongLived,                 \* TRUE: an access token outlives a wait for the lock
  MaxGrants,                 \* bound: the provider refuses once it has granted this often
  MaxTroubles                \* bound on lost or failing I/O and logouts together

ASSUME CallersAssumption == ProcOf \in [Callers -> Procs]
ASSUME BoundsAssumption ==
  /\ HttpTimeout \in Nat \ {0} /\ MaxGrants \in Nat \ {0}
  /\ MaxTroubles \in Nat
  /\ Discovers \in BOOLEAN /\ Patient \in BOOLEAN /\ LongLived \in BOOLEAN
\* What FileLock assumes of its parameters.
ASSUME LockAssumption ==
  /\ NoFile \notin [owner : Procs, age : Nat]
  /\ Stale \in Nat \ {0} /\ Margin \in Nat \ {0} /\ MaxHold \in Nat
  /\ Timely \in BOOLEAN /\ MaxFaults \in Nat

VARIABLES
  lockFile, lk, waited, held, broken, faults,      \* of FileLock
  disk,        \* the cache entry of the identity: a grant, or NoToken
  flight,      \* each process's inFlight, with the locals of acquireCoordinated
  caller,      \* each call of ensure
  call,        \* ticks the current HTTP request of each process has taken
  chain,       \* the provider: [grant -> state of its refresh token]
  family,      \* the provider: the login each grant descends from
  live,        \* grants whose access token has not expired
  replayed,    \* history: a rotated refresh token has been presented
  refused,     \* history: grants whose refresh token some process saw refused
  lost, resets

Lock == INSTANCE FileLock

lockVars == <<lockFile, lk, waited, held, broken, faults>>
idpVars  == <<chain, family, live, replayed>>
vars == <<lockVars, disk, flight, caller, call, idpVars, refused, lost, resets>>

NoToken == 0
Grants  == 1 .. MaxGrants
Tokens  == Grants \cup {NoToken}

\* client.isTokenValid of a token set that declares its lifetime.
IsTokenValid(t) == t \in live

\* Which request or login the locals of a flight belong to.
Attempts == {"refresh", "retry", "login"}
FlightPcs == {"none", "lock", "discover", "post", "answer", "persist", "recover",
              "login", "done"}
Http == {"discover", "post", "answer"}

Flights  == [pc : FlightPcs, interactive : BOOLEAN, base : Tokens, tok : Tokens,
             attempt : Attempts]
NoFlight == [pc |-> "none", interactive |-> FALSE, base |-> NoToken, tok |-> NoToken,
             attempt |-> "refresh"]

CallerPcs == {"idle", "read", "joined"}
Calls  == [pc : CallerPcs, interactive : BOOLEAN, snapshot : Tokens]
NoCall == [pc |-> "idle", interactive |-> FALSE, snapshot |-> NoToken]

Granted == {g \in Grants : chain[g] # "none"}
NextGrant == Cardinality(Granted) + 1

\* Either nobody has logged in yet, or a token of an earlier session is cached:
\* its refresh token is good or was revoked, its access token has expired.
Init ==
  /\ Lock!Init
  /\ disk \in {NoToken, 1}
  /\ \E state \in {"current", "revoked"} :
       chain = [g \in Grants |-> IF g = disk THEN state ELSE "none"]
  /\ family = [g \in Grants |-> g]
  /\ live = {}
  /\ flight = [p \in Procs |-> NoFlight]
  /\ caller = [c \in Callers |-> NoCall]
  /\ call = [p \in Procs |-> 0]
  /\ replayed = FALSE
  /\ refused = {}
  /\ lost = 0
  /\ resets = 0

-----------------------------------------------------------------------------
(* The identity provider.                                                  *)

\* A new grant in the family of grant f, or in a family of its own (f = 0).
Grant(g, f, old) ==
  /\ chain' = [h \in Grants |-> IF h = g THEN "current"
                                ELSE IF h = old THEN "rotated" ELSE chain[h]]
  /\ family' = [family EXCEPT ![g] = IF f = NoToken THEN g ELSE f]
  /\ live' = live \cup {g}

\* Reuse detection: the whole chain of a replayed token is revoked.
RevokeFamily(f) ==
  chain' = [h \in Grants |-> IF chain[h] # "none" /\ family[h] = f
                             THEN "revoked" ELSE chain[h]]

-----------------------------------------------------------------------------
(* ensure: the part of it before the refresh.                              *)

\* ensure(options) is called; getCached resolves.  What it returned is used in
\* a later turn of the event loop.
ReadCached(c, interactive) ==
  /\ caller[c].pc = "idle"
  /\ caller' = [caller EXCEPT ![c] = [pc |-> "read", interactive |-> interactive,
                                      snapshot |-> disk]]
  /\ UNCHANGED <<lockVars, disk, flight, call, idpVars, refused, lost, resets>>

\* The cached token is still valid: no lock, no refresh.
FastPath(c) ==
  /\ caller[c].pc = "read"
  /\ IsTokenValid(caller[c].snapshot)
  /\ caller' = [caller EXCEPT ![c] = NoCall]
  /\ UNCHANGED <<lockVars, disk, flight, call, idpVars, refused, lost, resets>>

\* The caller shares the refresh that is in flight in its process, or starts
\* one: acquireCoordinated(cached, interactive) calls acquireFileLock.
StartOrJoin(c) ==
  LET p == ProcOf[c] IN
  /\ caller[c].pc = "read"
  /\ ~IsTokenValid(caller[c].snapshot)
  /\ caller' = [caller EXCEPT ![c] = [@ EXCEPT !.pc = "joined", !.snapshot = NoToken]]
  /\ \/ /\ flight[p].pc # "none"
        /\ UNCHANGED <<flight, lockVars>>
     \/ /\ flight[p].pc = "none"
        /\ Lock!Begin(p)
        /\ flight' = [flight EXCEPT ![p] = [NoFlight EXCEPT !.pc = "lock",
                                !.interactive = caller[c].interactive,
                                !.base = caller[c].snapshot]]
  /\ UNCHANGED <<disk, call, idpVars, refused, lost, resets>>

-----------------------------------------------------------------------------
(* acquireCoordinated.                                                     *)

\* acquireFileLock goes on; the lock may turn out to be unavailable.
LockStep(p) ==
  /\ flight[p].pc = "lock"
  /\ Lock!Acquiring(p)
  /\ UNCHANGED <<disk, flight, caller, call, idpVars, refused, lost, resets>>

LockFails(p) ==
  /\ flight[p].pc = "lock"
  /\ Lock!Failing(p)
  /\ UNCHANGED <<disk, flight, caller, call, idpVars, refused, lost, resets>>

\* A mutation of InSection: acquireFileLock is not awaited.
SectionWithoutLock(p) == lk[p] # "idle"

\* acquireFileLock has returned, with the lock or without.
InSection(p) == lk[p] \in {"held", "unavailable"}

Settled(f, t) == [NoFlight EXCEPT !.pc = "done", !.tok = t]

\* client.refreshToken(t): the endpoints are resolved first.
Presenting(f, t, attempt) ==
  [f EXCEPT !.pc = IF Discovers THEN "discover" ELSE "post", !.base = t, !.attempt = attempt]

\* A mutation of LoginOrThrow: the error of a non-interactive call is lost and
\* the flight never settles.
ThrowIntoNowhere(f) ==
  IF f.interactive THEN [f EXCEPT !.pc = "login", !.attempt = "login", !.base = NoToken]
  ELSE [f EXCEPT !.pc = "thrown"]

\* client.ensureToken of a token that cannot be refreshed (any more): a login,
\* or, for a non-interactive caller, an error.
LoginOrThrow(f) ==
  IF f.interactive THEN [f EXCEPT !.pc = "login", !.attempt = "login", !.base = NoToken]
  ELSE Settled(f, NoToken)

\* A mutation of Reread: the snapshot taken before the lock is refreshed.
NoReread(p) ==
  LET f == flight[p] IN
  /\ f.pc = "lock"
  /\ InSection(p)
  /\ flight' = [flight EXCEPT ![p] = IF f.base = NoToken THEN LoginOrThrow(f)
                                     ELSE Presenting(f, f.base, "refresh")]
  /\ call' = [call EXCEPT ![p] = 0]
  /\ UNCHANGED <<lockVars, disk, caller, idpVars, refused, lost, resets>>

\* A mutation of Reread: a valid token in the cache is refreshed all the same.
RereadNeverAdopts(p) ==
  LET f == flight[p]
      base == IF disk # NoToken THEN disk ELSE f.base IN
  /\ f.pc = "lock"
  /\ InSection(p)
  /\ flight' = [flight EXCEPT ![p] = IF base = NoToken THEN LoginOrThrow(f)
                                     ELSE Presenting(f, base, "refresh")]
  /\ call' = [call EXCEPT ![p] = 0]
  /\ UNCHANGED <<lockVars, disk, caller, idpVars, refused, lost, resets>>

\* Inside the lock (or without it) the cache is read again: a valid token is
\* adopted, the refresh token of what is there, else of the snapshot, is used.
Reread(p) ==
  LET f == flight[p]
      base == IF disk # NoToken THEN disk ELSE f.base IN
  /\ f.pc = "lock"
  /\ InSection(p)
  /\ flight' = [flight EXCEPT ![p] =
       IF IsTokenValid(disk) THEN Settled(f, disk)
       ELSE IF base = NoToken THEN LoginOrThrow(f)
       ELSE Presenting(f, base, "refresh")]
  /\ call' = [call EXCEPT ![p] = 0]
  /\ UNCHANGED <<lockVars, disk, caller, idpVars, refused, lost, resets>>

\* discoverOidcMetadata answers; the refresh request is sent.
Discovered(p) ==
  /\ flight[p].pc = "discover"
  /\ flight' = [flight EXCEPT ![p].pc = "post"]
  /\ call' = [call EXCEPT ![p] = 0]
  /\ UNCHANGED <<lockVars, disk, caller, idpVars, refused, lost, resets>>

\* The provider handles the refresh request of p.
IdpRefresh(p) ==
  LET f == flight[p]
      t == f.base IN
  /\ f.pc = "post"
  /\ \/ /\ chain[t] = "current" /\ NextGrant \in Grants
        /\ Grant(NextGrant, family[t], t)
        /\ flight' = [flight EXCEPT ![p] = [f EXCEPT !.pc = "answer", !.tok = NextGrant]]
        /\ UNCHANGED replayed
     \/ /\ chain[t] = "rotated"
        /\ RevokeFamily(family[t])
        /\ replayed' = TRUE
        /\ flight' = [flight EXCEPT ![p] = [f EXCEPT !.pc = "answer", !.tok = NoToken]]
        /\ UNCHANGED <<family, live>>
     \/ /\ chain[t] = "revoked" \/ (chain[t] = "current" /\ NextGrant \notin Grants)
        /\ flight' = [flight EXCEPT ![p] = [f EXCEPT !.pc = "answer", !.tok = NoToken]]
        /\ UNCHANGED idpVars
  /\ UNCHANGED <<lockVars, disk, caller, call, refused, lost, resets>>

\* A 200 arrives: the token set is persisted next.
AnswerOk(p) ==
  /\ flight[p].pc = "answer"
  /\ flight[p].tok # NoToken
  /\ flight' = [flight EXCEPT ![p].pc = "persist"]
  /\ UNCHANGED <<lockVars, disk, caller, call, idpVars, refused, lost, resets>>

\* A 4xx arrives (RefreshTokenError): recoverFromRejectedRefresh after the
\* first attempt, the login after the retry.
AnswerRefused(p) ==
  LET f == flight[p] IN
  /\ f.pc = "answer"
  /\ f.tok = NoToken
  /\ refused' = refused \cup {f.base}
  /\ flight' = [flight EXCEPT ![p] = IF f.attempt = "refresh"
                                     THEN [f EXCEPT !.pc = "recover"] ELSE LoginOrThrow(f)]
  /\ UNCHANGED <<lockVars, disk, caller, call, idpVars, lost, resets>>

\* Discovery or the refresh request fails in the network, times out, or is
\* answered with 5xx; the provider may have handled the request all the same.
HttpFails(p) ==
  /\ lost + resets < MaxTroubles
  /\ flight[p].pc \in Http
  /\ lost' = lost + 1
  /\ flight' = [flight EXCEPT ![p] = [LoginOrThrow(@) EXCEPT !.tok = NoToken]]
  /\ UNCHANGED <<lockVars, disk, caller, call, idpVars, refused, resets>>

\* recoverFromRejectedRefresh: adopt, or retry once with a newer token, or
\* go on to the login.
Recover(p) ==
  LET f == flight[p] IN
  /\ f.pc = "recover"
  /\ flight' = [flight EXCEPT ![p] =
       IF IsTokenValid(disk) THEN Settled(f, disk)
       ELSE IF disk \in {NoToken, f.base} THEN LoginOrThrow(f)
       ELSE Presenting(f, disk, "retry")]
  /\ call' = [call EXCEPT ![p] = 0]
  /\ UNCHANGED <<lockVars, disk, caller, idpVars, refused, lost, resets>>

\* The human finishes the login: a chain of its own starts.
LoginSucceeds(p) ==
  /\ flight[p].pc = "login"
  /\ NextGrant \in Grants
  /\ Grant(NextGrant, NoToken, NoToken)
  /\ flight' = [flight EXCEPT ![p] = [@ EXCEPT !.pc = "persist", !.tok = NextGrant]]
  /\ UNCHANGED <<lockVars, disk, caller, call, replayed, refused, lost, resets>>

\* The login is denied, or nobody answers the prompt in time: ensure throws.
LoginFails(p) ==
  /\ flight[p].pc = "login"
  /\ flight' = [flight EXCEPT ![p] = Settled(@, NoToken)]
  /\ UNCHANGED <<lockVars, disk, caller, call, idpVars, refused, lost, resets>>

\* A mutation of Persist: the token is handed out, the cache keeps the old one.
ForgetPersist(p) ==
  /\ flight[p].pc = "persist"
  /\ flight' = [flight EXCEPT ![p].pc = "done"]
  /\ UNCHANGED <<lockVars, disk, caller, call, idpVars, refused, lost, resets>>

Persist(p) ==
  /\ flight[p].pc = "persist"
  /\ disk' = flight[p].tok
  /\ flight' = [flight EXCEPT ![p] = Settled(@, @.tok)]
  /\ UNCHANGED <<lockVars, caller, call, idpVars, refused, lost, resets>>

\* The cache cannot be written.  After a refresh the error is handled like a
\* failed request, after a login ensure throws.
PersistFails(p) ==
  LET f == flight[p] IN
  /\ lost + resets < MaxTroubles
  /\ f.pc = "persist"
  /\ lost' = lost + 1
  /\ flight' = [flight EXCEPT ![p] = IF f.attempt = "login" THEN Settled(f, NoToken)
                                     ELSE [LoginOrThrow(f) EXCEPT !.tok = NoToken]]
  /\ UNCHANGED <<lockVars, disk, caller, call, idpVars, refused, resets>>

\* A mutation of Settle: the lock is not released (no finally).
SettleKeepingLock(p) ==
  /\ flight[p].pc = "done"
  /\ flight' = [flight EXCEPT ![p] = NoFlight]
  /\ caller' = [c \in Callers |->
       IF ProcOf[c] = p /\ caller[c].pc = "joined" THEN NoCall ELSE caller[c]]
  /\ UNCHANGED <<lockVars, disk, call, idpVars, refused, lost, resets>>

\* The lock is released, the flight is over, and everybody who joined it gets
\* its token (or its error).
Settle(p) ==
  /\ flight[p].pc = "done"
  /\ Lock!Leaving(p)
  /\ flight' = [flight EXCEPT ![p] = NoFlight]
  /\ caller' = [c \in Callers |->
       IF ProcOf[c] = p /\ caller[c].pc = "joined"
       THEN NoCall ELSE caller[c]]
  /\ UNCHANGED <<disk, call, idpVars, refused, lost, resets>>
-----------------------------------------------------------------------------
(* The environment.                                                        *)

\* reset(): a logout, in whichever process; no lock is taken for it.
Reset ==
  /\ lost + resets < MaxTroubles
  /\ disk # NoToken
  /\ disk' = NoToken
  /\ resets' = resets + 1
  /\ UNCHANGED <<lockVars, flight, caller, call, idpVars, refused, lost>>

\* Access tokens expire.  With LongLived they do so while nobody waits for the
\* lock or is about to refresh: a lifetime is minutes, a wait is seconds.
Expire(g) ==
  /\ g \in live
  /\ LongLived => \A p \in Procs : flight[p].pc = "none"
  /\ live' = live \ {g}
  /\ UNCHANGED <<lockVars, disk, flight, caller, call, chain, family, replayed, refused, lost,
                 resets>>

Crash(p) ==
  /\ Lock!Crash(p)
  /\ flight' = [flight EXCEPT ![p] = NoFlight]
  /\ caller' = [c \in Callers |-> IF ProcOf[c] = p THEN NoCall ELSE caller[c]]
  /\ UNCHANGED <<disk, call, idpVars, refused, lost, resets>>

\* Time passes.  A request is over after HttpTimeout; a holder of the lock that
\* is neither in a request nor waiting for a human has no reason to tarry; with
\* Patient, a wait for the lock ends before its deadline.
Tick ==
  /\ Lock!Tick
  /\ \A p \in Procs :
       /\ flight[p].pc \in Http => call[p] < HttpTimeout
       /\ (Patient /\ lk[p] \in Lock!Waiting) => waited[p] + 1 < Lock!MaxWait
       /\ p \in Lock!Holders => flight[p].pc \in Http \cup {"login"}
  /\ call' = [p \in Procs |-> IF flight[p].pc \in Http THEN call[p] + 1 ELSE call[p]]
  /\ UNCHANGED <<disk, flight, caller, idpVars, refused, lost, resets>>

-----------------------------------------------------------------------------
Ensure(c) == FastPath(c) \/ StartOrJoin(c)

Coordinated(p) ==
  \/ LockStep(p) \/ Reread(p) \/ Discovered(p) \/ AnswerOk(p)
  \/ AnswerRefused(p) \/ Recover(p) \/ Persist(p) \/ Settle(p)

Next ==
  \/ \E c \in Callers : Ensure(c) \/ \E i \in BOOLEAN : ReadCached(c, i)
  \/ \E p \in Procs : \/ Coordinated(p) \/ IdpRefresh(p) \/ LockFails(p) \/ HttpFails(p)
                      \/ PersistFails(p) \/ LoginSucceeds(p) \/ LoginFails(p) \/ Crash(p)
  \/ \E g \in Grants : Expire(g)
  \/ Reset \/ Tick

Spec == Init /\ [][Next]_vars

\* Processes run their continuations, the provider answers, and a login prompt
\* ends, if only by its own timeout.  Time is not stopped by a process that runs
\* through its steps over and over: strong fairness.  Nobody has to call ensure.
Fairness ==
  /\ \A c \in Callers : WF_vars(Ensure(c))
  /\ \A p \in Procs : /\ WF_vars(Coordinated(p))
                      /\ WF_vars(IdpRefresh(p))
                      /\ WF_vars(LoginFails(p) \/ LoginSucceeds(p))
  /\ SF_vars(Tick)

FairSpec == Spec /\ Fairness
-----------------------------------------------------------------------------
(***************************************************************************)
(* Properties                                                              *)
(***************************************************************************)

\* Types of the cache entry, of the flights and calls and of the provider.
TypeOK ==
  /\ Lock!TypeOK
  /\ disk \in Tokens
  /\ flight \in [Procs -> Flights]
  /\ caller \in [Callers -> Calls]
  /\ call \in [Procs -> 0 .. HttpTimeout]
  /\ chain \in [Grants -> {"none", "current", "rotated", "revoked"}]
  /\ family \in [Grants -> Grants]
  /\ live \subseteq Granted
  /\ replayed \in BOOLEAN
  /\ refused \subseteq Grants
  /\ lost \in 0 .. MaxTroubles
  /\ resets \in 0 .. MaxTroubles

\* No rotated refresh token reaches the provider (token-runtime.ts:155-158:
\* "one replay logs every process out").
NoReplay == ~replayed

\* As long as no answer and no write is lost and nobody logs out, coordination
\* keeps that promise among processes that hold and await the lock in time.
Undisturbed == lost = 0 /\ resets = 0

NoReplayUndisturbed == Undisturbed => NoReplay

\* A refresh token is consumed only when it is the one in the cache and its
\* access token has expired: two processes that both found the token expired
\* refresh it once, and the second adopts (token-runtime.ts:240-247).
RefreshesWhatIsCached ==
  [][\A g \in Grants : (chain[g] = "current" /\ chain'[g] = "rotated")
                       => (Undisturbed => disk = g) /\ g \notin live]_vars

\* What a refresh or a login handed out is in the cache when the callers get
\* it, so no other process refreshes behind their backs (token-runtime.ts:264).
SettledTokenIsCached ==
  resets = 0 => \A p \in Procs :
    (flight[p].pc = "done" /\ flight[p].tok # NoToken) => disk = flight[p].tok

\* A login prompt is never shown while a valid token is cached
\* (token-runtime.ts:164-166, the re-reads before any login).
NoNeedlessLogin ==
  [][\A p \in Procs : (flight[p].pc # "login" /\ flight'[p].pc = "login")
                      => ~IsTokenValid(disk)]_vars

\* Several processes find one token expired: one refresh, and no login.
NothingNeedless == RefreshesWhatIsCached /\ NoNeedlessLogin

\* The cache never goes back to an older grant, whose refresh token is spent
\* (token-runtime.ts:264, 290: every persist happens under the lock).
CacheNeverRollsBack == [][disk' # NoToken => disk' >= disk]_disk

\* Whatever fails on the way, a process that has no refresh in flight neither
\* holds the lock nor has callers waiting (the finally blocks of
\* token-runtime.ts:181-185 and 250-252).
NothingLeaks ==
  /\ \A p \in Procs : flight[p].pc = "none" => lk[p] = "idle"
  /\ \A c \in Callers : caller[c].pc = "joined" => flight[ProcOf[c]].pc # "none"

\* Every call of ensure comes back, whatever is lost, broken or denied.
EnsureReturns == \A c \in Callers : caller[c].pc # "idle" ~> caller[c].pc = "idle"

\* README.md:67 of auth-core: "A refresh token that was already presented is
\* never presented twice."
NeverPresentedTwice ==
  [][\A p \in Procs : (flight[p].pc # "post" /\ flight'[p].pc = "post")
                      => flight'[p].base \notin refused]_vars

\* token-runtime.ts:151-153: with interactive: false a caller never blocks "on a
\* callback that will never arrive": it does not wait for a login prompt.
NonInteractiveNeverWaitsForLogin ==
  \A c \in Callers : (caller[c].pc = "joined" /\ ~caller[c].interactive)
                     => flight[ProcOf[c]].pc # "login"
=============================================================================
