------------------------- MODULE TokenRuntimeProofs -------------------------
(***************************************************************************)
(* Theorems about TokenRuntime, for any number of processes, of callers in *)
(* each, of grants and of failures.                                        *)
(***************************************************************************)
EXTENDS TokenRuntime, FiniteSetTheorems, TLAPS

-----------------------------------------------------------------------------
(* The inductive invariant.  What always holds comes first.                *)

\* The provider numbers its grants one after the other.
GrantsInOrder == \E n \in 0 .. MaxGrants : Granted = 1 .. n

\* Every token somebody holds has been granted.
Known == Granted \cup {NoToken}

TokensAreGranted ==
  /\ disk \in Known
  /\ \A p \in Procs : flight[p].base \in Known /\ flight[p].tok \in Known
  /\ \A c \in Callers : caller[c].snapshot \in Known

\* A refresh has a token to present, whose access token is not valid (any more),
\* and what is persisted is a token.
FlightsHaveTheirTokens ==
  \A p \in Procs :
    /\ flight[p].pc \in {"discover", "post", "answer"} => flight[p].base # NoToken
    /\ flight[p].pc \in {"lock", "discover", "post"} => flight[p].base \notin live
    /\ flight[p].pc = "persist" => flight[p].tok # NoToken

Always == TypeOK /\ GrantsInOrder /\ TokensAreGranted /\ FlightsHaveTheirTokens /\ NothingLeaks

(* What holds as long as the lock is a mutual exclusion that is waited for *)
(* long enough: nobody holds it longer than it takes to be judged stale,   *)
(* nobody dies or fails inside, and no wait reaches its deadline.          *)
InTime == Lock!Benign /\ Patient

\* Nobody goes on without the lock.
EverybodyGetsTheLock ==
  \A p \in Procs : /\ lk[p] \in Lock!Waiting => waited[p] < Lock!MaxWait
                   /\ lk[p] # "unavailable"

\* The steps of a flight between its re-read and its end.
Section == {"discover", "post", "answer", "recover", "login", "persist", "done"}

SectionIsLocked == \A p \in Procs : flight[p].pc \in Section => lk[p] = "held"

\* A token that was granted and is not in the cache yet.
InHand(p) == flight[p].pc = "persist" \/ (flight[p].pc = "answer" /\ flight[p].tok # NoToken)

NewestInHand == \A p \in Procs : InHand(p) => \A g \in Granted : g <= flight[p].tok

\* The re-read of the cache holds until the end of the refresh.
CacheIsExpiredInSection ==
  \A p \in Procs : flight[p].pc \in Section \ {"done"} => disk \notin live

Coordination ==
  /\ EverybodyGetsTheLock /\ SectionIsLocked /\ NewestInHand /\ CacheIsExpiredInSection
  /\ SettledTokenIsCached

(* What holds besides as long as nothing is lost and nobody logs out.      *)

\* Once there is a token in the cache there always is one.
CacheIsNeverEmptied ==
  /\ \A p \in Procs : flight[p].base # NoToken => disk # NoToken
  /\ \A c \in Callers : caller[c].snapshot # NoToken => disk # NoToken

\* A refresh presents, and goes on from, what is in the cache.
PresentsWhatIsCached ==
  \A p \in Procs : flight[p].pc \in {"discover", "post", "answer", "recover"}
                     => flight[p].base = disk

\* The token in the cache is spent only while its successor is in hand.
CacheIsNotSpent ==
  /\ (disk # NoToken /\ chain[disk] = "rotated") => \E p \in Procs : InHand(p)
  /\ \A p \in Procs : InHand(p) => chain[flight[p].tok] # "rotated"

Unbroken == ~replayed /\ CacheIsNeverEmptied /\ PresentsWhatIsCached /\ CacheIsNotSpent

-----------------------------------------------------------------------------
(* The lock: every step is one of FileLock or leaves its variables alone,  *)
(* so what is proved of FileLock holds here.                               *)

LockP == INSTANCE FileLockProofs

LEMMA LockAssumptions ==
  LockP!NoFileAssumption /\ LockP!TimeAssumption /\ LockP!SwitchAssumption
  BY LockAssumption
     DEF LockAssumption, LockP!NoFileAssumption, LockP!TimeAssumption, LockP!SwitchAssumption

LEMMA LockInit == Init => LockP!Init
  BY DEF Init, Lock!Init, LockP!Init

LEMMA LockActions ==
  /\ \A p \in Procs : /\ Lock!Begin(p) <=> LockP!Begin(p)
                      /\ Lock!Acquiring(p) <=> LockP!Acquiring(p)
                      /\ Lock!Failing(p) <=> LockP!Failing(p)
                      /\ Lock!Leaving(p) <=> LockP!Leaving(p)
                      /\ Lock!Crash(p) <=> LockP!Crash(p)
  /\ Lock!Tick <=> LockP!Tick
<1> USE DEF Lock!Goto, LockP!Goto, Lock!ResetTimers, LockP!ResetTimers, Lock!Abandoned,
            LockP!Abandoned, Lock!Expired, LockP!Expired, Lock!MaxWait, LockP!MaxWait,
            Lock!Waiting, LockP!Waiting, Lock!Holding, LockP!Holding, Lock!Holders, LockP!Holders,
            Lock!Saturate, LockP!Saturate
<1>1. ASSUME NEW p \in Procs PROVE Lock!Begin(p) <=> LockP!Begin(p)
  BY DEF Lock!Begin, LockP!Begin
<1>2. ASSUME NEW p \in Procs PROVE Lock!Acquiring(p) <=> LockP!Acquiring(p)
  BY DEF Lock!Acquiring, LockP!Acquiring, Lock!CreateFile, LockP!CreateFile, Lock!WritePayload,
         LockP!WritePayload, Lock!CreateRefused, LockP!CreateRefused, Lock!ReadAge, LockP!ReadAge,
         Lock!BreakLock, LockP!BreakLock, Lock!WakeUp, LockP!WakeUp
<1>3. ASSUME NEW p \in Procs PROVE Lock!Failing(p) <=> LockP!Failing(p)
  BY DEF Lock!Failing, LockP!Failing, Lock!Unwritable, LockP!Unwritable, Lock!WriteFails,
         LockP!WriteFails
<1>4. ASSUME NEW p \in Procs PROVE Lock!Leaving(p) <=> LockP!Leaving(p)
  BY DEF Lock!Leaving, LockP!Leaving, Lock!Release, LockP!Release, Lock!ReleaseNothing,
         LockP!ReleaseNothing
<1>5. ASSUME NEW p \in Procs PROVE Lock!Crash(p) <=> LockP!Crash(p)
  BY DEF Lock!Crash, LockP!Crash
<1>6. Lock!Tick <=> LockP!Tick
  BY DEF Lock!Tick, LockP!Tick
<1> QED
  BY <1>1, <1>2, <1>3, <1>4, <1>5, <1>6

\* The steps of this module that do not touch the lock.
Unlocked(p) ==
  \/ Reread(p) \/ Discovered(p) \/ IdpRefresh(p) \/ AnswerOk(p) \/ AnswerRefused(p)
  \/ HttpFails(p) \/ Recover(p) \/ LoginSucceeds(p) \/ LoginFails(p) \/ Persist(p) \/ PersistFails(p)

LEMMA LockSteps == [Next]_vars => [LockP!Next]_LockP!vars
<1> SUFFICES ASSUME [Next]_vars PROVE LockP!Next \/ UNCHANGED lockVars
  BY DEF lockVars, LockP!vars
<1>1. ASSUME NEW c \in Callers, StartOrJoin(c) PROVE LockP!Next \/ UNCHANGED lockVars
  <2>1. ProcOf[c] \in Procs
    BY CallersAssumption DEF CallersAssumption
  <2> QED
    BY <1>1, <2>1, LockActions DEF StartOrJoin, LockP!Next
<1>2. ASSUME NEW p \in Procs, LockStep(p) \/ LockFails(p) \/ Settle(p) \/ Crash(p) PROVE LockP!Next
  BY <1>2, LockActions DEF LockStep, LockFails, Settle, Crash, LockP!Next
<1>3. ASSUME NEW p \in Procs, Unlocked(p) PROVE UNCHANGED lockVars
  BY <1>3 DEF Unlocked, Reread, Discovered, IdpRefresh, AnswerOk, AnswerRefused, HttpFails, Recover,
              LoginSucceeds, LoginFails, Persist, PersistFails
<1>4. CASE Tick
  BY <1>4, LockActions DEF Tick, LockP!Next
<1>5. ASSUME NEW c \in Callers, FastPath(c) \/ \E i \in BOOLEAN : ReadCached(c, i)
      PROVE UNCHANGED lockVars
  BY <1>5 DEF FastPath, ReadCached
<1>6. CASE Reset \/ \E g \in Grants : Expire(g)
  BY <1>6 DEF Reset, Expire
<1>7. CASE UNCHANGED vars
  BY <1>7 DEF vars
<1> QED
  BY <1>1, <1>2, <1>3, <1>4, <1>5, <1>6, <1>7 DEF Next, Ensure, Coordinated, Unlocked

\* Every behaviour of the token runtime uses the lock as FileLock describes it.
THEOREM UsesTheFileLock == Spec => LockP!Spec
  BY LockInit, LockSteps, PTL DEF Spec, LockP!Spec

LEMMA LockTypes == (Lock!TypeOK <=> LockP!TypeOK) /\ (Lock!Mutex <=> LockP!Mutex)
  BY DEF Lock!TypeOK, LockP!TypeOK, Lock!Mutex, LockP!Mutex, Lock!Holders, LockP!Holders,
         Lock!Holding, LockP!Holding, Lock!Files, LockP!Files, Lock!Ages, LockP!Ages, Lock!Steps,
         LockP!Steps, Lock!Waiting, LockP!Waiting, Lock!MaxWait, LockP!MaxWait

\* So it is a mutual exclusion as long as it is held in time.
THEOREM LockIsMutex ==
  ASSUME Lock!Benign
  PROVE Spec => []Lock!Mutex
<1>1. LockP!Benign
  BY DEF Lock!Benign, LockP!Benign
<1>2. LockP!Spec => []LockP!Mutex
  BY <1>1, LockAssumptions, LockP!BenignMutex, PTL
<1> QED
  BY <1>2, UsesTheFileLock, LockTypes, PTL

-----------------------------------------------------------------------------
(* What the operators on flights return.                                   *)

LEMMA NoFlightType == NoFlight \in Flights /\ NoCall \in Calls
  BY DEF NoFlight, Flights, NoCall, Calls, FlightPcs, Attempts, CallerPcs, Tokens, NoToken

LEMMA SettledFields ==
  ASSUME NEW f \in Flights, NEW t \in Tokens
  PROVE /\ Settled(f, t) \in Flights
        /\ Settled(f, t).pc = "done" /\ Settled(f, t).tok = t /\ Settled(f, t).base = NoToken
<1>1. Settled(f, t) \in Flights
  BY NoFlightType DEF Settled, Flights, FlightPcs
<1>2. NoFlight.base = NoToken
  BY DEF NoFlight
<1>3. Settled(f, t).pc = "done" /\ Settled(f, t).tok = t /\ Settled(f, t).base = NoToken
  BY <1>2, NoFlightType DEF Settled, Flights, FlightPcs
<1> QED
  BY <1>1, <1>3

LEMMA PresentingFields ==
  ASSUME NEW f \in Flights, NEW t \in Tokens, NEW a \in Attempts
  PROVE /\ Presenting(f, t, a) \in Flights
        /\ Presenting(f, t, a).pc \in {"discover", "post"}
        /\ Presenting(f, t, a).base = t /\ Presenting(f, t, a).tok = f.tok
  BY DEF Presenting, Flights, FlightPcs

LEMMA LoginOrThrowFields ==
  ASSUME NEW f \in Flights
  PROVE /\ LoginOrThrow(f) \in Flights
        /\ \/ /\ LoginOrThrow(f).pc = "login" /\ LoginOrThrow(f).tok = f.tok
           \/ /\ LoginOrThrow(f).pc = "done" /\ LoginOrThrow(f).tok = NoToken
        /\ LoginOrThrow(f).base = NoToken
<1>1. NoToken \in Tokens
  BY DEF Tokens
<1>2. CASE f.interactive
  BY <1>1, <1>2 DEF LoginOrThrow, Flights, FlightPcs, Attempts
<1>3. CASE ~f.interactive
  BY <1>1, <1>3, SettledFields DEF LoginOrThrow
<1> QED
  BY <1>2, <1>3

-----------------------------------------------------------------------------
(* What always holds.                                                      *)

LEMMA LockTypesKept == TypeOK /\ [Next]_vars => Lock!TypeOK'
<1>1. TypeOK => LockP!TypeOK
  BY LockTypes DEF TypeOK
<1>2. LockP!TypeOK /\ [LockP!Next]_LockP!vars => LockP!TypeOK'
  BY LockAssumptions, LockP!TypeOKStep
<1>3. LockP!TypeOK' <=> Lock!TypeOK'
  BY LockTypes, PTL
<1> QED
  BY <1>1, <1>2, <1>3, LockSteps

LEMMA NextGrantIsNew ==
  ASSUME TypeOK, GrantsInOrder
  PROVE /\ NextGrant \in Nat /\ NextGrant # NoToken /\ NextGrant \notin Granted
        /\ \A g \in Granted : g < NextGrant
        /\ Granted = 1 .. NextGrant - 1
<1>1. PICK n \in 0 .. MaxGrants : Granted = 1 .. n
  BY DEF GrantsInOrder
<1>2. n \in Nat /\ n \in Int
  BY <1>1, BoundsAssumption DEF BoundsAssumption
<1>3. Cardinality(1 .. n) = IF 1 > n THEN 0 ELSE n - 1 + 1
  BY <1>2, FS_Interval
<1>4. Cardinality(Granted) = n
  BY <1>1, <1>2, <1>3
<1>5. NextGrant = n + 1
  BY <1>4 DEF NextGrant
<1> QED
  BY <1>1, <1>2, <1>5 DEF NoToken

LEMMA GrantFacts ==
  ASSUME TypeOK, GrantsInOrder, NextGrant \in Grants, NEW f \in Tokens, NEW old \in Known,
         Grant(NextGrant, f, old)
  PROVE /\ chain' \in [Grants -> {"none", "current", "rotated", "revoked"}]
        /\ family' \in [Grants -> Grants]
        /\ live' = live \cup {NextGrant}
        /\ Granted' = Granted \cup {NextGrant}
        /\ live' \subseteq Granted'
        /\ GrantsInOrder'
        /\ chain'[NextGrant] = "current"
        /\ \A h \in Grants : chain'[h] = "rotated" => chain[h] = "rotated" \/ h = old
<1> DEFINE n == NextGrant
<1>1. chain' = [h \in Grants |-> IF h = n THEN "current" ELSE IF h = old THEN "rotated" ELSE chain[h]]
  BY DEF Grant
<1>2. family' = [family EXCEPT ![n] = IF f = NoToken THEN n ELSE f] /\ live' = live \cup {n}
  BY DEF Grant
<1>3. n \in Nat /\ n \in Grants /\ Granted = 1 .. n - 1
  BY NextGrantIsNew
<1> HIDE DEF n
<1>4. chain' \in [Grants -> {"none", "current", "rotated", "revoked"}]
  BY <1>1 DEF TypeOK
<1>5. family' \in [Grants -> Grants]
  BY <1>2, <1>3 DEF TypeOK, Tokens
<1>6. Granted \cup {n} \subseteq Granted'
  BY <1>1, <1>3 DEF Granted
<1>7. Granted' \subseteq Granted \cup {n}
  <2> SUFFICES ASSUME NEW h \in Granted' PROVE h \in Granted \cup {n}
    OBVIOUS
  <2>1. h \in Grants /\ chain'[h] # "none"
    BY DEF Granted
  <2>2. NoToken \notin Grants
    BY DEF Grants, NoToken
  <2> QED
    BY <1>1, <2>1, <2>2 DEF Granted, Known
<1>8. Granted' = 1 .. n
  <2>1. (1 .. n - 1) \cup {n} = 1 .. n
    BY <1>3 DEF Grants
  <2>2. Granted' = Granted \cup {n}
    BY <1>6, <1>7
  <2> QED
    BY <1>3, <2>1, <2>2
<1>9. n \in 0 .. MaxGrants
  BY <1>3, BoundsAssumption DEF BoundsAssumption, Grants
<1>10. GrantsInOrder'
  BY <1>8, <1>9 DEF GrantsInOrder
<1>11. chain'[n] = "current" /\ \A h \in Grants : chain'[h] = "rotated" => chain[h] = "rotated" \/ h = old
  BY <1>1, <1>3
<1> QED
  BY <1>2, <1>4, <1>5, <1>6, <1>7, <1>10, <1>11 DEF n, TypeOK

\* A revocation makes no grant and takes none back.
LEMMA RevokeFacts ==
  ASSUME TypeOK, NEW f, RevokeFamily(f)
  PROVE /\ chain' \in [Grants -> {"none", "current", "rotated", "revoked"}]
        /\ Granted' = Granted
        /\ \A h \in Grants : chain'[h] = "rotated" => chain[h] = "rotated"
<1>1. chain' = [h \in Grants |-> IF chain[h] # "none" /\ family[h] = f THEN "revoked" ELSE chain[h]]
  BY DEF RevokeFamily
<1> QED
  BY <1>1 DEF TypeOK, Granted

LEMMA InitAlways == Init => Always
<1> SUFFICES ASSUME Init PROVE Always
  OBVIOUS
<1>1. LockP!Init => LockP!TypeOK
  BY LockAssumptions, LockP!InitTypes
<1>2. Lock!TypeOK
  BY <1>1, LockInit, LockTypes
<1>3. MaxGrants \in Nat \ {0} /\ 1 \in Grants /\ NoToken \notin Grants
  BY BoundsAssumption DEF BoundsAssumption, Grants, NoToken
<1>4. chain \in [Grants -> {"none", "current", "rotated", "revoked"}] /\ disk \in {NoToken, 1}
  BY DEF Init
<1>5. Granted = IF disk = NoToken THEN 1 .. 0 ELSE 1 .. 1
  <2>1. Granted = {g \in Grants : g = disk}
    BY DEF Init, Granted
  <2>2. CASE disk = NoToken
    BY <1>3, <2>1, <2>2
  <2>3. CASE disk = 1
    BY <1>3, <2>1, <2>3 DEF NoToken
  <2> QED
    BY <1>4, <2>2, <2>3
<1>6. GrantsInOrder
  <2>1. 0 \in 0 .. MaxGrants /\ 1 \in 0 .. MaxGrants
    BY <1>3
  <2>2. CASE disk = NoToken
    BY <1>5, <2>1, <2>2 DEF GrantsInOrder
  <2>3. CASE disk # NoToken
    BY <1>5, <2>1, <2>3 DEF GrantsInOrder
  <2> QED
    BY <2>2, <2>3
<1>7. disk \in Known
  BY <1>4, <1>5 DEF Known
<1>8. TokensAreGranted
  BY <1>7 DEF Init, TokensAreGranted, NoFlight, NoCall, Known
<1>9. FlightsHaveTheirTokens
  BY DEF Init, FlightsHaveTheirTokens, NoFlight
<1>10. NothingLeaks
  BY DEF Init, NothingLeaks, NoFlight, NoCall, Lock!Init
<1>11. TypeOK
  <2>1. flight \in [Procs -> Flights] /\ caller \in [Callers -> Calls]
    BY NoFlightType DEF Init
  <2>2. call \in [Procs -> 0 .. HttpTimeout] /\ lost \in 0 .. MaxTroubles /\ resets \in 0 .. MaxTroubles
    BY BoundsAssumption DEF BoundsAssumption, Init
  <2> QED
    BY <1>2, <1>3, <1>4, <2>1, <2>2 DEF Init, TypeOK, Tokens
<1> QED
  BY <1>6, <1>8, <1>9, <1>10, <1>11 DEF Always

\* A step of the flight of p outside the lock file: the flight goes on to f.
Becomes(p, f) ==
  /\ flight' = [flight EXCEPT ![p] = f]
  /\ f \in Flights /\ f.pc \in Section
  /\ f.base \in Known' /\ f.tok \in Known'
  /\ f.pc \in {"discover", "post", "answer"} => f.base # NoToken
  /\ f.pc \in {"discover", "post"} => f.base \notin live'
  /\ f.pc = "persist" => f.tok # NoToken

LEMMA UnlockedStep ==
  ASSUME Always, NEW p \in Procs, Unlocked(p)
  PROVE /\ flight[p].pc # "none" /\ (flight[p].pc = "lock" => Reread(p))
        /\ \E f \in Flights : Becomes(p, f)
        /\ UNCHANGED <<lockVars, caller, resets>>
        /\ Granted \subseteq Granted' /\ live' \subseteq Granted' /\ (live' \ live) \cap Granted = {}
        /\ chain' \in [Grants -> {"none", "current", "rotated", "revoked"}]
        /\ family' \in [Grants -> Grants] /\ GrantsInOrder' /\ replayed' \in BOOLEAN
        /\ disk' \in Known' /\ call' \in [Procs -> 0 .. HttpTimeout] /\ refused' \subseteq Grants
        /\ lost' \in 0 .. MaxTroubles
<1> DEFINE f == flight[p]
<1>t. f \in Flights /\ f.base \in Known /\ f.tok \in Known /\ disk \in Known
  BY DEF Always, TypeOK, TokensAreGranted
<1>k. Known \subseteq Tokens /\ NoToken \in Known /\ Attempts = {"refresh", "retry", "login"}
  BY DEF Known, Granted, Tokens, Attempts
<1>l. LoginOrThrow(f) \in Flights /\ LoginOrThrow(f).pc \in Section \ {"discover", "post", "answer", "persist"}
      /\ LoginOrThrow(f).base = NoToken /\ LoginOrThrow(f).tok \in Known
  BY <1>t, <1>k, LoginOrThrowFields DEF Section
<1>s. ASSUME NEW t \in Known
      PROVE Settled(f, t) \in Flights /\ Settled(f, t).pc = "done" /\ Settled(f, t).tok = t
            /\ Settled(f, t).base = NoToken
  BY <1>t, <1>k, SettledFields
<1>p. ASSUME NEW t \in Known, NEW a \in Attempts
      PROVE /\ Presenting(f, t, a) \in Flights
            /\ Presenting(f, t, a).pc \in {"discover", "post"}
            /\ Presenting(f, t, a).base = t /\ Presenting(f, t, a).tok \in Known
  <2>1. t \in Tokens
    BY <1>k
  <2>2. f \in Flights /\ f.tok \in Known
    BY <1>t
  <2> HIDE DEF f
  <2> QED
    BY <2>1, <2>2, PresentingFields
<1>c. 0 \in 0 .. HttpTimeout
  BY BoundsAssumption DEF BoundsAssumption
<1>u. UNCHANGED idpVars => /\ Granted' = Granted /\ Known' = Known /\ UNCHANGED <<live, chain, family, replayed>>
                           /\ (GrantsInOrder => GrantsInOrder')
  BY DEF idpVars, Granted, Known, GrantsInOrder
<1> USE DEF Always, TypeOK, Section
<1>1. CASE Reread(p)
  <2> DEFINE base == IF disk # NoToken THEN disk ELSE f.base
             g == IF IsTokenValid(disk) THEN Settled(f, disk)
                  ELSE IF base = NoToken THEN LoginOrThrow(f)
                  ELSE Presenting(f, base, "refresh")
  <2>1. base \in Known /\ (~IsTokenValid(disk) => base \notin live)
    BY <1>1, <1>t DEF Reread, IsTokenValid, FlightsHaveTheirTokens
  <2>2. flight' = [flight EXCEPT ![p] = g] /\ call' = [call EXCEPT ![p] = 0]
        /\ UNCHANGED <<lockVars, disk, caller, idpVars, refused, lost, resets>>
    BY <1>1 DEF Reread
  <2>3. /\ g \in Flights /\ g.pc \in Section /\ g.base \in Known /\ g.tok \in Known
        /\ g.pc \notin {"answer", "persist"}
        /\ g.pc \in {"discover", "post"} => g.base # NoToken /\ g.base \notin live
    <3> HIDE DEF f
    <3>1. CASE IsTokenValid(disk)
      BY <3>1, <1>t, <1>s, <1>k
    <3>2. CASE ~IsTokenValid(disk) /\ base = NoToken
      BY <3>2, <1>l, <1>k
    <3>3. CASE ~IsTokenValid(disk) /\ base # NoToken
      BY <3>3, <2>1, <1>p, <1>k
    <3> QED
      BY <3>1, <3>2, <3>3
  <2> HIDE DEF g, base, f
  <2>4. Becomes(p, g)
    BY <1>u, <2>2, <2>3 DEF Becomes
  <2>5. flight[p].pc = "lock"
    BY <1>1 DEF Reread
  <2> QED
    BY <1>1, <1>c, <1>t, <1>u, <2>2, <2>3, <2>4, <2>5
<1>2. CASE Discovered(p)
  <2> DEFINE g == [f EXCEPT !.pc = "post"]
  <2>1. flight' = [flight EXCEPT ![p] = g] /\ call' = [call EXCEPT ![p] = 0] /\ f.pc = "discover"
        /\ UNCHANGED <<lockVars, disk, caller, idpVars, refused, lost, resets>>
    BY <1>2 DEF Discovered
  <2>2. g \in Flights /\ g.pc = "post" /\ g.base = f.base /\ g.tok = f.tok
    BY <1>t DEF Flights, FlightPcs
  <2>3. Becomes(p, g)
    BY <1>t, <1>u, <2>1, <2>2 DEF Becomes, FlightsHaveTheirTokens
  <2> HIDE DEF g
  <2> QED
    BY <1>c, <1>t, <1>u, <2>1, <2>2, <2>3
<1>3. CASE IdpRefresh(p)
  <2>1. f.pc = "post" /\ f.base # NoToken /\ f.base \in Granted /\ f.base \in Grants
        /\ UNCHANGED <<lockVars, disk, caller, call, refused, lost, resets>>
    BY <1>3, <1>t DEF IdpRefresh, FlightsHaveTheirTokens, Known, Granted
  <2>2. CASE /\ chain[f.base] = "current" /\ NextGrant \in Grants
             /\ Grant(NextGrant, family[f.base], f.base)
             /\ flight' = [flight EXCEPT ![p] = [f EXCEPT !.pc = "answer", !.tok = NextGrant]]
             /\ UNCHANGED replayed
    <3> DEFINE g == [f EXCEPT !.pc = "answer", !.tok = NextGrant]
    <3>1. family[f.base] \in Tokens /\ f.base \in Known /\ NextGrant \in Tokens
      BY <2>1, <2>2 DEF Tokens, Known
    <3>2. /\ chain' \in [Grants -> {"none", "current", "rotated", "revoked"}]
          /\ family' \in [Grants -> Grants]
          /\ live' = live \cup {NextGrant} /\ Granted' = Granted \cup {NextGrant}
          /\ live' \subseteq Granted' /\ GrantsInOrder'
      BY <2>2, <3>1, GrantFacts
    <3>3. g \in Flights /\ g.pc = "answer" /\ g.base = f.base /\ g.tok = NextGrant
      BY <1>t, <3>1 DEF Flights, FlightPcs
    <3> HIDE DEF g
    <3>4. Becomes(p, g)
      BY <1>t, <2>1, <2>2, <3>2, <3>3 DEF Becomes, Known, g
    <3>5. NextGrant \notin Granted
      BY NextGrantIsNew
    <3> QED
      BY <1>t, <2>1, <2>2, <3>2, <3>3, <3>4, <3>5 DEF Known
  <2>3. CASE /\ RevokeFamily(family[f.base])
             /\ replayed' = TRUE
             /\ flight' = [flight EXCEPT ![p] = [f EXCEPT !.pc = "answer", !.tok = NoToken]]
             /\ UNCHANGED <<family, live>>
    <3> DEFINE g == [f EXCEPT !.pc = "answer", !.tok = NoToken]
    <3>1. /\ chain' \in [Grants -> {"none", "current", "rotated", "revoked"}]
          /\ Granted' = Granted /\ Known' = Known
      BY <2>3, RevokeFacts DEF Known
    <3>2. g \in Flights /\ g.pc = "answer" /\ g.base = f.base /\ g.tok = NoToken
      BY <1>t, <1>k DEF Flights, FlightPcs
    <3>3. Becomes(p, g)
      BY <1>t, <1>k, <2>1, <2>3, <3>1, <3>2 DEF Becomes
    <3> HIDE DEF g
    <3>4. GrantsInOrder'
      BY <3>1 DEF GrantsInOrder
    <3> QED
      BY <1>t, <2>1, <2>3, <3>1, <3>2, <3>3, <3>4
  <2>4. CASE /\ flight' = [flight EXCEPT ![p] = [f EXCEPT !.pc = "answer", !.tok = NoToken]]
             /\ UNCHANGED idpVars
    <3> DEFINE g == [f EXCEPT !.pc = "answer", !.tok = NoToken]
    <3>1. g \in Flights /\ g.pc = "answer" /\ g.base = f.base /\ g.tok = NoToken
      BY <1>t, <1>k DEF Flights, FlightPcs
    <3>2. Becomes(p, g)
      BY <1>t, <1>k, <1>u, <2>1, <2>4, <3>1 DEF Becomes
    <3> HIDE DEF g
    <3> QED
      BY <1>t, <1>u, <2>1, <2>4, <3>1, <3>2
  <2> QED
    BY <1>3, <2>2, <2>3, <2>4 DEF IdpRefresh
<1>4. CASE AnswerOk(p)
  <2> DEFINE g == [f EXCEPT !.pc = "persist"]
  <2>1. flight' = [flight EXCEPT ![p] = g] /\ f.pc = "answer" /\ f.tok # NoToken
        /\ UNCHANGED <<lockVars, disk, caller, call, idpVars, refused, lost, resets>>
    BY <1>4 DEF AnswerOk
  <2>2. g \in Flights /\ g.pc = "persist" /\ g.base = f.base /\ g.tok = f.tok
    BY <1>t DEF Flights, FlightPcs
  <2>3. Becomes(p, g)
    BY <1>t, <1>u, <2>1, <2>2 DEF Becomes
  <2> HIDE DEF g
  <2> QED
    BY <1>t, <1>u, <2>1, <2>2, <2>3
<1>5. CASE AnswerRefused(p)
  <2> DEFINE g == IF f.attempt = "refresh" THEN [f EXCEPT !.pc = "recover"] ELSE LoginOrThrow(f)
  <2>1. flight' = [flight EXCEPT ![p] = g] /\ f.pc = "answer" /\ f.tok = NoToken
        /\ refused' = refused \cup {f.base}
        /\ UNCHANGED <<lockVars, disk, caller, call, idpVars, lost, resets>>
    BY <1>5 DEF AnswerRefused
  <2>2. g \in Flights /\ g.pc \in Section \ {"discover", "post", "answer", "persist"}
        /\ g.base \in Known /\ g.tok \in Known
    BY <1>t, <1>l, <1>k DEF Flights, FlightPcs
  <2>3. f.base \in Grants
    BY <1>t, <2>1 DEF FlightsHaveTheirTokens, Known, Granted
  <2> HIDE DEF g
  <2>4. Becomes(p, g)
    BY <1>u, <2>1, <2>2 DEF Becomes
  <2> QED
    BY <1>t, <1>u, <2>1, <2>2, <2>3, <2>4
<1>6. CASE HttpFails(p)
  <2> DEFINE g == [LoginOrThrow(f) EXCEPT !.tok = NoToken]
  <2>1. flight' = [flight EXCEPT ![p] = g] /\ f.pc \in Http /\ lost' = lost + 1
        /\ lost + resets < MaxTroubles
        /\ UNCHANGED <<lockVars, disk, caller, call, idpVars, refused, resets>>
    BY <1>6 DEF HttpFails
  <2>2. g \in Flights /\ g.pc \in Section \ {"discover", "post", "answer", "persist"}
        /\ g.base = NoToken /\ g.tok = NoToken
    BY <1>l, <1>k DEF Flights
  <2> HIDE DEF g
  <2>3. Becomes(p, g)
    BY <1>k, <1>u, <2>1, <2>2 DEF Becomes
  <2>4. lost' \in 0 .. MaxTroubles
    BY <2>1, BoundsAssumption DEF BoundsAssumption
  <2> QED
    BY <1>t, <1>u, <2>1, <2>2, <2>3, <2>4 DEF Http
<1>7. CASE Recover(p)
  <2> DEFINE g == IF IsTokenValid(disk) THEN Settled(f, disk)
                  ELSE IF disk \in {NoToken, f.base} THEN LoginOrThrow(f)
                  ELSE Presenting(f, disk, "retry")
  <2>1. flight' = [flight EXCEPT ![p] = g] /\ f.pc = "recover" /\ call' = [call EXCEPT ![p] = 0]
        /\ UNCHANGED <<lockVars, disk, caller, idpVars, refused, lost, resets>>
    BY <1>7 DEF Recover
  <2>2. /\ g \in Flights /\ g.pc \in Section /\ g.base \in Known /\ g.tok \in Known
        /\ g.pc \notin {"answer", "persist"}
        /\ g.pc \in {"discover", "post"} => g.base # NoToken /\ g.base \notin live
    <3> HIDE DEF f
    <3>1. CASE IsTokenValid(disk)
      BY <3>1, <1>t, <1>s, <1>k
    <3>2. CASE ~IsTokenValid(disk) /\ disk \in {NoToken, f.base}
      BY <3>2, <1>l, <1>k
    <3>3. CASE ~IsTokenValid(disk) /\ disk \notin {NoToken, f.base}
      BY <3>3, <1>t, <1>p, <1>k DEF IsTokenValid
    <3> QED
      BY <3>1, <3>2, <3>3
  <2> HIDE DEF g
  <2>3. Becomes(p, g)
    BY <1>u, <2>1, <2>2 DEF Becomes
  <2> QED
    BY <1>c, <1>t, <1>u, <2>1, <2>2, <2>3
<1>8. CASE LoginSucceeds(p)
  <2> DEFINE g == [f EXCEPT !.pc = "persist", !.tok = NextGrant]
  <2>1. flight' = [flight EXCEPT ![p] = g] /\ f.pc = "login" /\ NextGrant \in Grants
        /\ Grant(NextGrant, NoToken, NoToken)
        /\ UNCHANGED <<lockVars, disk, caller, call, replayed, refused, lost, resets>>
    BY <1>8 DEF LoginSucceeds
  <2>2. NoToken \in Tokens /\ NoToken \in Known /\ NextGrant \in Tokens
    BY <2>1, <1>k DEF Tokens
  <2>3. /\ chain' \in [Grants -> {"none", "current", "rotated", "revoked"}]
        /\ family' \in [Grants -> Grants]
        /\ live' = live \cup {NextGrant} /\ Granted' = Granted \cup {NextGrant}
        /\ live' \subseteq Granted' /\ GrantsInOrder'
    BY <2>1, <2>2, GrantFacts
  <2>4. g \in Flights /\ g.pc = "persist" /\ g.base = f.base /\ g.tok = NextGrant
    BY <1>t, <2>2 DEF Flights, FlightPcs
  <2> HIDE DEF g
  <2>5. NextGrant \notin Granted /\ NextGrant # NoToken
    BY NextGrantIsNew
  <2>6. Becomes(p, g)
    BY <1>t, <2>1, <2>3, <2>4, <2>5 DEF Becomes, Known
  <2> QED
    BY <1>t, <2>1, <2>3, <2>4, <2>5, <2>6 DEF Known
<1>9. CASE LoginFails(p)
  <2> DEFINE g == Settled(f, NoToken)
  <2>1. flight' = [flight EXCEPT ![p] = g] /\ f.pc = "login"
        /\ UNCHANGED <<lockVars, disk, caller, call, idpVars, refused, lost, resets>>
    BY <1>9 DEF LoginFails
  <2>2. g \in Flights /\ g.pc = "done" /\ g.base = NoToken /\ g.tok = NoToken
    BY <1>k, <1>s
  <2> HIDE DEF g
  <2>3. Becomes(p, g)
    BY <1>k, <1>u, <2>1, <2>2 DEF Becomes
  <2> QED
    BY <1>t, <1>u, <2>1, <2>2, <2>3
<1>10. CASE Persist(p)
  <2> DEFINE g == Settled(f, f.tok)
  <2>1. flight' = [flight EXCEPT ![p] = g] /\ f.pc = "persist" /\ disk' = f.tok
        /\ UNCHANGED <<lockVars, caller, call, idpVars, refused, lost, resets>>
    BY <1>10 DEF Persist
  <2>2. g \in Flights /\ g.pc = "done" /\ g.base = NoToken /\ g.tok = f.tok
    BY <1>t, <1>s
  <2> HIDE DEF g
  <2>3. Becomes(p, g)
    BY <1>t, <1>k, <1>u, <2>1, <2>2 DEF Becomes
  <2> QED
    BY <1>t, <1>u, <2>1, <2>2, <2>3
<1>11. CASE PersistFails(p)
  <2> DEFINE g == IF f.attempt = "login" THEN Settled(f, NoToken)
                  ELSE [LoginOrThrow(f) EXCEPT !.tok = NoToken]
  <2>1. flight' = [flight EXCEPT ![p] = g] /\ f.pc = "persist" /\ lost' = lost + 1
        /\ lost + resets < MaxTroubles
        /\ UNCHANGED <<lockVars, disk, caller, call, idpVars, refused, resets>>
    BY <1>11 DEF PersistFails
  <2>2. g \in Flights /\ g.pc \in Section \ {"discover", "post", "answer", "persist"}
        /\ g.base = NoToken /\ g.tok = NoToken
    <3>1. CASE f.attempt = "login"
      BY <3>1, <1>k, <1>s
    <3>2. CASE f.attempt # "login"
      BY <3>2, <1>l, <1>k DEF Flights
    <3> QED
      BY <3>1, <3>2
  <2> HIDE DEF g
  <2>3. Becomes(p, g)
    BY <1>k, <1>u, <2>1, <2>2 DEF Becomes
  <2>4. lost' \in 0 .. MaxTroubles
    BY <2>1, BoundsAssumption DEF BoundsAssumption
  <2> QED
    BY <1>t, <1>u, <2>1, <2>2, <2>3, <2>4
<1> QED
  BY <1>1, <1>2, <1>3, <1>4, <1>5, <1>6, <1>7, <1>8, <1>9, <1>10, <1>11 DEF Unlocked

\* Nothing is granted, spent or persisted.
LEMMA SameGrants ==
  ASSUME GrantsInOrder, UNCHANGED chain
  PROVE Granted' = Granted /\ Known' = Known /\ GrantsInOrder'
  BY DEF Granted, Known, GrantsInOrder

LEMMA AlwaysStep == Always /\ [Next]_vars => Always'
<1> SUFFICES ASSUME Always, [Next]_vars PROVE Always'
  OBVIOUS
<1>l. Lock!TypeOK'
  BY LockTypesKept DEF Always
<1> USE DEF Always, TypeOK
<1>t. /\ \A p \in Procs : flight[p].base \in Known /\ flight[p].tok \in Known
      /\ \A c \in Callers : caller[c].snapshot \in Known /\ ProcOf[c] \in Procs
      /\ disk \in Known /\ NoToken \in Known
  BY CallersAssumption DEF CallersAssumption, TokensAreGranted, Known
<1>k. Known \subseteq Tokens /\ NoToken \in Tokens
  BY DEF Known, Granted, Tokens
<1>n. /\ NoFlight \in Flights /\ NoFlight.pc = "none" /\ NoFlight.base = NoToken /\ NoFlight.tok = NoToken
      /\ NoCall \in Calls /\ NoCall.pc = "idle" /\ NoCall.snapshot = NoToken
  BY NoFlightType DEF NoFlight, NoCall
<1>1. ASSUME NEW p \in Procs, Unlocked(p) PROVE Always'
  <2>1. PICK f \in Flights : Becomes(p, f)
    BY <1>1, UnlockedStep
  <2>2. /\ flight[p].pc # "none" /\ UNCHANGED <<lockVars, caller, resets>>
        /\ Granted \subseteq Granted' /\ live' \subseteq Granted' /\ (live' \ live) \cap Granted = {}
        /\ chain' \in [Grants -> {"none", "current", "rotated", "revoked"}]
        /\ family' \in [Grants -> Grants] /\ GrantsInOrder' /\ replayed' \in BOOLEAN
        /\ disk' \in Known' /\ call' \in [Procs -> 0 .. HttpTimeout] /\ refused' \subseteq Grants
        /\ lost' \in 0 .. MaxTroubles
    BY <1>1, UnlockedStep
  <2>3. Known \subseteq Known' /\ Known' \subseteq Tokens
    BY <2>2 DEF Known, Granted, Tokens
  <2>4. \A t \in Known : t \notin live => t \notin live'
    <3>1. NoToken \notin Granted'
      BY DEF Granted, Grants, NoToken
    <3> QED
      BY <2>2, <3>1 DEF Known
  <2>5. flight' = [flight EXCEPT ![p] = f] /\ f.pc \in Section
    BY <2>1 DEF Becomes
  <2>6. TypeOK'
    BY <1>l, <2>2, <2>3, <2>5
  <2>7. TokensAreGranted'
    BY <1>t, <2>1, <2>2, <2>3 DEF Becomes, TokensAreGranted
  <2>8. FlightsHaveTheirTokens'
    BY <1>t, <2>1, <2>4 DEF Becomes, FlightsHaveTheirTokens, Section
  <2>9. NothingLeaks'
    BY <1>t, <2>2, <2>5 DEF NothingLeaks, Section, lockVars
  <2> QED
    BY <2>2, <2>6, <2>7, <2>8, <2>9
<1>2. ASSUME NEW c \in Callers, NEW i \in BOOLEAN, ReadCached(c, i) PROVE Always'
  <2> DEFINE g == [pc |-> "read", interactive |-> i, snapshot |-> disk]
  <2>1. g \in Calls /\ g.pc = "read" /\ g.snapshot = disk
    BY DEF Calls, CallerPcs
  <2>2. caller' = [caller EXCEPT ![c] = g]
        /\ UNCHANGED <<lockVars, disk, flight, call, chain, family, live, replayed, refused, lost, resets>>
    BY <1>2 DEF ReadCached, idpVars
  <2> HIDE DEF g
  <2> QED
    BY <1>t, <1>l, <2>1, <2>2, SameGrants
       DEF TokensAreGranted, FlightsHaveTheirTokens, NothingLeaks, lockVars, Granted
<1>3. ASSUME NEW c \in Callers, FastPath(c) PROVE Always'
  <2>1. caller' = [caller EXCEPT ![c] = NoCall]
        /\ UNCHANGED <<lockVars, disk, flight, call, chain, family, live, replayed, refused, lost, resets>>
    BY <1>3 DEF FastPath, idpVars
  <2> QED
    BY <1>t, <1>l, <1>n, <2>1, SameGrants
       DEF TokensAreGranted, FlightsHaveTheirTokens, NothingLeaks, lockVars, Granted
<1>4. ASSUME NEW c \in Callers, StartOrJoin(c) PROVE Always'
  <2> DEFINE p == ProcOf[c]
             g == [caller[c] EXCEPT !.pc = "joined", !.snapshot = NoToken]
             f == [NoFlight EXCEPT !.pc = "lock", !.interactive = caller[c].interactive,
                                   !.base = caller[c].snapshot]
  <2>1. g \in Calls /\ g.pc = "joined" /\ g.snapshot = NoToken
    BY <1>k DEF Calls, CallerPcs
  <2>2. f \in Flights /\ f.pc = "lock" /\ f.base = caller[c].snapshot /\ f.tok = NoToken
    BY <1>n DEF Flights, FlightPcs, Calls
  <2>3. /\ caller' = [caller EXCEPT ![c] = g] /\ caller[c].snapshot \notin live
        /\ UNCHANGED <<disk, call, chain, family, live, replayed, refused, lost, resets>>
    BY <1>4 DEF StartOrJoin, idpVars, IsTokenValid
  <2>4. p \in Procs
    BY <1>t
  <2>5. CASE flight[p].pc # "none" /\ UNCHANGED <<flight, lockVars>>
    <3> HIDE DEF g, p
    <3>1. p = ProcOf[c]
      BY DEF p
    <3> QED
      BY <1>t, <1>l, <2>1, <2>3, <2>4, <2>5, <3>1, SameGrants
         DEF TokensAreGranted, FlightsHaveTheirTokens, NothingLeaks, lockVars, Granted
  <2>6. CASE flight[p].pc = "none" /\ Lock!Begin(p) /\ flight' = [flight EXCEPT ![p] = f]
    <3> HIDE DEF g, f
    <3>1. \A q \in Procs \ {p} : lk'[q] = lk[q]
      BY <2>6 DEF Lock!Begin, Lock!Goto, Lock!TypeOK
    <3>2. \A q \in Procs : flight'[q] = IF q = p THEN f ELSE flight[q]
      BY <2>4, <2>6
    <3>3. NothingLeaks'
      BY <1>t, <2>1, <2>2, <2>3, <2>4, <3>1, <3>2 DEF NothingLeaks
    <3>4. TypeOK'
      BY <1>l, <2>1, <2>2, <2>3, <2>6, SameGrants DEF Granted
    <3>5. FlightsHaveTheirTokens' /\ TokensAreGranted'
      BY <1>t, <2>1, <2>2, <2>3, <3>2, SameGrants DEF FlightsHaveTheirTokens, TokensAreGranted
    <3> QED
      BY <2>3, <3>3, <3>4, <3>5, SameGrants
  <2> QED
    BY <1>4, <2>5, <2>6 DEF StartOrJoin
<1>5. ASSUME NEW p \in Procs, LockStep(p) \/ LockFails(p) PROVE Always'
  <2>1. flight[p].pc = "lock"
        /\ UNCHANGED <<disk, flight, caller, call, chain, family, live, replayed, refused, lost, resets>>
    BY <1>5 DEF LockStep, LockFails, idpVars
  <2>2. \A q \in Procs \ {p} : lk'[q] = lk[q]
    BY <1>5 DEF LockStep, LockFails, Lock!Acquiring, Lock!Failing, Lock!CreateFile, Lock!WritePayload,
                Lock!CreateRefused, Lock!ReadAge, Lock!BreakLock, Lock!WakeUp, Lock!Unwritable,
                Lock!WriteFails, Lock!Goto, Lock!TypeOK
  <2> QED
    BY <1>t, <1>l, <2>1, <2>2, SameGrants
       DEF TokensAreGranted, FlightsHaveTheirTokens, NothingLeaks, Granted
<1>6. ASSUME NEW p \in Procs, Settle(p) \/ Crash(p) PROVE Always'
  <2>1. /\ flight' = [flight EXCEPT ![p] = NoFlight]
        /\ UNCHANGED <<disk, call, chain, family, live, replayed, refused, lost, resets>>
    BY <1>6 DEF Settle, Crash, idpVars
  <2>2. /\ caller' \in [Callers -> Calls]
        /\ \A c \in Callers : caller'[c] \in {caller[c], NoCall}
        /\ \A c \in Callers : (ProcOf[c] = p /\ caller'[c].pc = "joined") => FALSE
    BY <1>6, <1>n DEF Settle, Crash
  <2>3. lk'[p] = "idle" /\ \A q \in Procs \ {p} : lk'[q] = lk[q]
    BY <1>6 DEF Settle, Crash, Lock!Leaving, Lock!Release, Lock!ReleaseNothing, Lock!Crash, Lock!Goto,
                Lock!TypeOK
  <2>4. TypeOK'
    BY <1>l, <1>n, <2>1, <2>2, SameGrants DEF Granted
  <2>5. TokensAreGranted'
    BY <1>t, <1>n, <2>1, <2>2, SameGrants DEF TokensAreGranted
  <2>6. FlightsHaveTheirTokens'
    BY <1>n, <2>1 DEF FlightsHaveTheirTokens
  <2>7. NothingLeaks'
    BY <1>t, <1>n, <2>1, <2>2, <2>3 DEF NothingLeaks
  <2> QED
    BY <2>1, <2>4, <2>5, <2>6, <2>7, SameGrants
<1>7. CASE Reset
  <2>1. /\ lost + resets < MaxTroubles /\ disk' = NoToken /\ resets' = resets + 1
        /\ UNCHANGED <<lockVars, flight, caller, call, chain, family, live, replayed, refused, lost>>
    BY <1>7 DEF Reset, idpVars
  <2>2. resets' \in 0 .. MaxTroubles
    BY <2>1, BoundsAssumption DEF BoundsAssumption
  <2> QED
    BY <1>t, <1>k, <1>l, <2>1, <2>2, SameGrants
       DEF TokensAreGranted, FlightsHaveTheirTokens, NothingLeaks, lockVars, Granted
<1>8. ASSUME NEW g \in Grants, Expire(g) PROVE Always'
  <2>1. live' = live \ {g}
        /\ UNCHANGED <<lockVars, disk, flight, caller, call, chain, family, replayed, refused, lost, resets>>
    BY <1>8 DEF Expire
  <2> QED
    BY <1>t, <1>l, <2>1, SameGrants
       DEF TokensAreGranted, FlightsHaveTheirTokens, NothingLeaks, lockVars, Granted
<1>9. CASE Tick
  <2>1. lk' = lk
        /\ UNCHANGED <<disk, flight, caller, chain, family, live, replayed, refused, lost, resets>>
    BY <1>9 DEF Tick, Lock!Tick, idpVars
  <2>2. call' \in [Procs -> 0 .. HttpTimeout]
    BY <1>9, BoundsAssumption DEF BoundsAssumption, Tick
  <2> QED
    BY <1>t, <1>l, <2>1, <2>2, SameGrants
       DEF TokensAreGranted, FlightsHaveTheirTokens, NothingLeaks, Granted
<1>10. CASE UNCHANGED vars
  <2>1. UNCHANGED <<lk, disk, flight, caller, call, chain, family, live, replayed, refused, lost, resets>>
    BY <1>10 DEF vars, idpVars, lockVars
  <2> QED
    BY <1>t, <1>l, <2>1, SameGrants
       DEF TokensAreGranted, FlightsHaveTheirTokens, NothingLeaks, Granted
<1> QED
  BY <1>1, <1>2, <1>3, <1>4, <1>5, <1>6, <1>7, <1>8, <1>9, <1>10
     DEF Next, Ensure, Coordinated, Unlocked

LEMMA AlwaysHolds == Spec => []Always
  BY InitAlways, AlwaysStep, PTL DEF Spec

\* The cache, the flights, the calls and the provider keep their types, in any process
\* and whatever fails.
THEOREM TypeCorrect == Spec => []TypeOK
<1>1. Always => TypeOK
  BY DEF Always
<1> QED
  BY <1>1, AlwaysHolds, PTL

\* Whatever fails on the way, the lock is released and the callers are answered when a
\* flight ends: no process is left with the lock or with callers of nothing.
THEOREM NothingEverLeaks == Spec => []NothingLeaks
<1>1. Always => NothingLeaks
  BY DEF Always
<1> QED
  BY <1>1, AlwaysHolds, PTL

-----------------------------------------------------------------------------
(* What a step of a flight does to the cache and to the provider.          *)

Quiet(p, f) ==
  /\ UNCHANGED <<disk, live>> /\ Granted' = Granted
  /\ \/ UNCHANGED <<chain, replayed>>
     \/ flight[p].pc = "post" /\ chain[flight[p].base] = "rotated"
  /\ \A h \in Grants : chain'[h] = "rotated" => chain[h] = "rotated"
  /\ f.pc = "persist" => InHand(p) /\ f.tok = flight[p].tok
  /\ InHand(p) => f.pc = "persist" \/ lost' # lost
  /\ f.pc = "answer" => f.tok = NoToken
  /\ f.pc = "done" => f.tok \in {NoToken, disk}
  /\ (flight[p].pc = "lock" /\ f.pc # "done") => disk \notin live
  /\ f.base \in {NoToken, disk, flight[p].base}
  /\ f.pc \in {"discover", "post", "answer", "recover"} =>
       \/ f.base = disk
       \/ f.base = flight[p].base /\ flight[p].pc \in {"discover", "post", "answer"}
       \/ f.base = flight[p].base /\ disk = NoToken /\ f.base # NoToken

Granting(p, f) ==
  /\ UNCHANGED <<disk, replayed>>
  /\ Granted' = Granted \cup {NextGrant} /\ live' = live \cup {NextGrant}
  /\ f.pc \in {"answer", "persist"} /\ f.tok = NextGrant /\ f.base = flight[p].base
  /\ f.pc = "answer" => flight[p].pc = "post"
  /\ chain'[NextGrant] = "current"
  /\ \A h \in Grants : chain'[h] = "rotated" =>
       chain[h] = "rotated" \/ (h = flight[p].base /\ flight[p].pc = "post")

Persisting(p, f) ==
  /\ UNCHANGED <<chain, live, replayed>>
  /\ flight[p].pc = "persist" /\ disk' = flight[p].tok
  /\ f.pc = "done" /\ f.tok = flight[p].tok /\ f.base = NoToken

LEMMA UnlockedEffect ==
  ASSUME Always, NEW p \in Procs, Unlocked(p)
  PROVE /\ flight[p].pc \in (Section \cup {"lock"}) \ {"done"}
        /\ \E f \in Flights : /\ flight' = [flight EXCEPT ![p] = f] /\ f.pc \in Section
                              /\ Quiet(p, f) \/ Granting(p, f) \/ Persisting(p, f)
        /\ lost' = lost \/ lost' = lost + 1
<1> DEFINE f == flight[p]
<1>t. f \in Flights /\ disk \in Known /\ f.tok \in Known /\ f.base \in Known
  BY DEF Always, TypeOK, TokensAreGranted
<1>k. Known \subseteq Tokens /\ NoToken \in Known /\ Attempts = {"refresh", "retry", "login"}
  BY DEF Known, Granted, Tokens, Attempts
<1>l. /\ LoginOrThrow(f) \in Flights /\ LoginOrThrow(f).base = NoToken
      /\ \/ LoginOrThrow(f).pc = "login" /\ LoginOrThrow(f).tok = f.tok
         \/ LoginOrThrow(f).pc = "done" /\ LoginOrThrow(f).tok = NoToken
  BY <1>t, LoginOrThrowFields
<1>m. LET g == [LoginOrThrow(f) EXCEPT !.tok = NoToken] IN
        g \in Flights /\ g.pc \in {"login", "done"} /\ g.tok = NoToken /\ g.base = NoToken
  BY <1>l, <1>k DEF Flights
<1>s. ASSUME NEW t \in Known
      PROVE Settled(f, t) \in Flights /\ Settled(f, t).pc = "done" /\ Settled(f, t).tok = t
            /\ Settled(f, t).base = NoToken
  BY <1>t, <1>k, SettledFields
<1>p. ASSUME NEW t \in Known, NEW a \in Attempts
      PROVE /\ Presenting(f, t, a) \in Flights
            /\ Presenting(f, t, a).pc \in {"discover", "post"} /\ Presenting(f, t, a).base = t
  <2>1. t \in Tokens
    BY <1>k
  <2>2. f \in Flights
    BY <1>t
  <2> HIDE DEF f
  <2> QED
    BY <2>1, <2>2, PresentingFields
<1>g. UNCHANGED chain => Granted' = Granted
  BY DEF Granted
<1>e. ASSUME NEW g \in Flights, flight' = [flight EXCEPT ![p] = g], g.pc \in Section,
             Quiet(p, g) \/ Granting(p, g) \/ Persisting(p, g)
      PROVE \E h \in Flights : /\ flight' = [flight EXCEPT ![p] = h] /\ h.pc \in Section
                               /\ Quiet(p, h) \/ Granting(p, h) \/ Persisting(p, h)
  BY <1>e
<1>1. CASE Reread(p)
  <2> DEFINE base == IF disk # NoToken THEN disk ELSE f.base
             g == IF IsTokenValid(disk) THEN Settled(f, disk)
                  ELSE IF base = NoToken THEN LoginOrThrow(f)
                  ELSE Presenting(f, base, "refresh")
  <2>1. base \in Known
    BY <1>t
  <2>2. /\ flight' = [flight EXCEPT ![p] = g] /\ f.pc = "lock"
        /\ UNCHANGED <<disk, chain, live, replayed, lost>>
    BY <1>1 DEF Reread, idpVars
  <2>3. /\ g \in Flights /\ g.pc \in {"discover", "post", "login", "done"}
        /\ g.pc = "done" => g.tok \in {NoToken, disk}
        /\ g.pc # "done" => disk \notin live
        /\ g.pc \in {"discover", "post"} => g.base = base /\ g.base # NoToken
        /\ g.base \in {NoToken, base}
    <3> HIDE DEF f
    <3>1. CASE IsTokenValid(disk)
      BY <3>1, <1>t, <1>s
    <3>2. CASE ~IsTokenValid(disk) /\ base = NoToken
      BY <3>2, <1>l DEF IsTokenValid
    <3>3. CASE ~IsTokenValid(disk) /\ base # NoToken
      BY <3>3, <2>1, <1>p, <1>k DEF IsTokenValid
    <3> QED
      BY <3>1, <3>2, <3>3
  <2> HIDE DEF g
  <2>4. Quiet(p, g)
    BY <1>g, <2>2, <2>3 DEF Quiet, InHand
  <2> QED
    BY <1>e, <2>2, <2>3, <2>4 DEF Section
<1>2. CASE Discovered(p)
  <2> DEFINE g == [f EXCEPT !.pc = "post"]
  <2>1. flight' = [flight EXCEPT ![p] = g] /\ f.pc = "discover"
        /\ UNCHANGED <<disk, chain, live, replayed, lost>>
    BY <1>2 DEF Discovered, idpVars
  <2>2. g \in Flights /\ g.pc = "post" /\ g.base = f.base
    BY <1>t DEF Flights, FlightPcs
  <2> HIDE DEF g
  <2>3. Quiet(p, g)
    BY <1>g, <2>1, <2>2 DEF Quiet, InHand
  <2> QED
    BY <1>e, <2>1, <2>2, <2>3 DEF Section
<1>3. CASE IdpRefresh(p)
  <2>1. f.pc = "post" /\ f.base \in Grants /\ f.base \in Known /\ UNCHANGED <<disk, lost>>
    BY <1>3, <1>t DEF IdpRefresh, Always, FlightsHaveTheirTokens, Known, Granted
  <2>2. CASE /\ chain[f.base] = "current" /\ NextGrant \in Grants
             /\ Grant(NextGrant, family[f.base], f.base)
             /\ flight' = [flight EXCEPT ![p] = [f EXCEPT !.pc = "answer", !.tok = NextGrant]]
             /\ UNCHANGED replayed
    <3> DEFINE g == [f EXCEPT !.pc = "answer", !.tok = NextGrant]
    <3>1. family[f.base] \in Tokens /\ NextGrant \in Tokens
      BY <2>1, <2>2 DEF Tokens, Always, TypeOK
    <3>2. /\ live' = live \cup {NextGrant} /\ Granted' = Granted \cup {NextGrant}
          /\ chain'[NextGrant] = "current"
          /\ \A h \in Grants : chain'[h] = "rotated" => chain[h] = "rotated" \/ h = f.base
      BY <2>1, <2>2, <3>1, GrantFacts DEF Always
    <3>3. g \in Flights /\ g.pc = "answer" /\ g.base = f.base /\ g.tok = NextGrant
      BY <1>t, <3>1 DEF Flights, FlightPcs
    <3>e. flight' = [flight EXCEPT ![p] = g]
      BY <2>2
    <3> HIDE DEF g
    <3>4. Granting(p, g)
      BY <2>1, <2>2, <3>2, <3>3 DEF Granting
    <3> QED
      BY <1>e, <2>1, <3>e, <3>3, <3>4 DEF Section
  <2>3. CASE /\ chain[f.base] = "rotated" /\ RevokeFamily(family[f.base])
             /\ flight' = [flight EXCEPT ![p] = [f EXCEPT !.pc = "answer", !.tok = NoToken]]
             /\ UNCHANGED live
    <3> DEFINE g == [f EXCEPT !.pc = "answer", !.tok = NoToken]
    <3>1. Granted' = Granted /\ \A h \in Grants : chain'[h] = "rotated" => chain[h] = "rotated"
      BY <2>3, RevokeFacts DEF Always
    <3>2. g \in Flights /\ g.pc = "answer" /\ g.base = f.base /\ g.tok = NoToken
      BY <1>t, <1>k DEF Flights, FlightPcs
    <3>e. flight' = [flight EXCEPT ![p] = g]
      BY <2>3
    <3> HIDE DEF g
    <3>3. Quiet(p, g)
      BY <2>1, <2>3, <3>1, <3>2 DEF Quiet, InHand
    <3> QED
      BY <1>e, <2>1, <3>e, <3>2, <3>3 DEF Section
  <2>4. CASE /\ flight' = [flight EXCEPT ![p] = [f EXCEPT !.pc = "answer", !.tok = NoToken]]
             /\ UNCHANGED idpVars
    <3> DEFINE g == [f EXCEPT !.pc = "answer", !.tok = NoToken]
    <3>1. g \in Flights /\ g.pc = "answer" /\ g.base = f.base /\ g.tok = NoToken
      BY <1>t, <1>k DEF Flights, FlightPcs
    <3>e. flight' = [flight EXCEPT ![p] = g]
      BY <2>4
    <3> HIDE DEF g
    <3>2. Quiet(p, g)
      BY <1>g, <2>1, <2>4, <3>1 DEF Quiet, InHand, idpVars
    <3> QED
      BY <1>e, <2>1, <3>e, <3>1, <3>2 DEF Section
  <2> QED
    BY <1>3, <2>2, <2>3, <2>4 DEF IdpRefresh
<1>4. CASE AnswerOk(p)
  <2> DEFINE g == [f EXCEPT !.pc = "persist"]
  <2>1. flight' = [flight EXCEPT ![p] = g] /\ f.pc = "answer" /\ f.tok # NoToken
        /\ UNCHANGED <<disk, chain, live, replayed, lost>>
    BY <1>4 DEF AnswerOk, idpVars
  <2>2. g \in Flights /\ g.pc = "persist" /\ g.base = f.base /\ g.tok = f.tok
    BY <1>t DEF Flights, FlightPcs
  <2> HIDE DEF g
  <2>3. Quiet(p, g)
    BY <1>g, <2>1, <2>2 DEF Quiet, InHand
  <2> QED
    BY <1>e, <2>1, <2>2, <2>3 DEF Section
<1>5. CASE AnswerRefused(p)
  <2> DEFINE g == IF f.attempt = "refresh" THEN [f EXCEPT !.pc = "recover"] ELSE LoginOrThrow(f)
  <2>1. flight' = [flight EXCEPT ![p] = g] /\ f.pc = "answer" /\ f.tok = NoToken
        /\ UNCHANGED <<disk, chain, live, replayed, lost>>
    BY <1>5 DEF AnswerRefused, idpVars
  <2>2. /\ g \in Flights /\ g.pc \in {"recover", "login", "done"} /\ g.tok = NoToken
        /\ g.base \in {NoToken, f.base}
        /\ g.pc = "recover" => g.base = f.base
    BY <1>t, <1>l, <2>1 DEF Flights, FlightPcs
  <2> HIDE DEF g
  <2>3. Quiet(p, g)
    BY <1>g, <2>1, <2>2 DEF Quiet, InHand
  <2> QED
    BY <1>e, <2>1, <2>2, <2>3 DEF Section
<1>6. CASE HttpFails(p)
  <2> DEFINE g == [LoginOrThrow(f) EXCEPT !.tok = NoToken]
  <2>1. flight' = [flight EXCEPT ![p] = g] /\ f.pc \in {"discover", "post", "answer"}
        /\ lost' = lost + 1 /\ lost' # lost /\ UNCHANGED <<disk, chain, live, replayed>>
    BY <1>6 DEF HttpFails, idpVars, Http, Always, TypeOK
  <2>2. g \in Flights /\ g.pc \in {"login", "done"} /\ g.base = NoToken /\ g.tok = NoToken
    BY <1>m
  <2> HIDE DEF g
  <2>3. Quiet(p, g)
    BY <1>g, <2>1, <2>2 DEF Quiet
  <2> QED
    BY <1>e, <2>1, <2>2, <2>3 DEF Section
<1>7. CASE Recover(p)
  <2> DEFINE g == IF IsTokenValid(disk) THEN Settled(f, disk)
                  ELSE IF disk \in {NoToken, f.base} THEN LoginOrThrow(f)
                  ELSE Presenting(f, disk, "retry")
  <2>1. flight' = [flight EXCEPT ![p] = g] /\ f.pc = "recover"
        /\ UNCHANGED <<disk, chain, live, replayed, lost>>
    BY <1>7 DEF Recover, idpVars
  <2>2. /\ g \in Flights /\ g.pc \in {"discover", "post", "login", "done"}
        /\ g.pc = "done" => g.tok \in {NoToken, disk}
        /\ g.pc \in {"discover", "post"} => g.base = disk
        /\ g.base \in {NoToken, disk}
    <3> HIDE DEF f
    <3>1. CASE IsTokenValid(disk)
      BY <3>1, <1>t, <1>s
    <3>2. CASE ~IsTokenValid(disk) /\ disk \in {NoToken, f.base}
      BY <3>2, <1>l
    <3>3. CASE ~IsTokenValid(disk) /\ disk \notin {NoToken, f.base}
      BY <3>3, <1>t, <1>p, <1>k
    <3> QED
      BY <3>1, <3>2, <3>3
  <2> HIDE DEF g
  <2>3. Quiet(p, g)
    BY <1>g, <2>1, <2>2 DEF Quiet, InHand
  <2> QED
    BY <1>e, <2>1, <2>2, <2>3 DEF Section
<1>8. CASE LoginSucceeds(p)
  <2> DEFINE g == [f EXCEPT !.pc = "persist", !.tok = NextGrant]
  <2>1. flight' = [flight EXCEPT ![p] = g] /\ f.pc = "login" /\ NextGrant \in Grants
        /\ Grant(NextGrant, NoToken, NoToken) /\ UNCHANGED <<disk, replayed, lost>>
    BY <1>8 DEF LoginSucceeds
  <2>2. NoToken \in Tokens /\ NoToken \in Known /\ NextGrant \in Tokens /\ NoToken \notin Grants
    BY <2>1, <1>k DEF Tokens, Grants, NoToken
  <2>3. /\ live' = live \cup {NextGrant} /\ Granted' = Granted \cup {NextGrant}
        /\ chain'[NextGrant] = "current"
        /\ \A h \in Grants : chain'[h] = "rotated" => chain[h] = "rotated" \/ h = NoToken
    BY <2>1, <2>2, GrantFacts DEF Always
  <2>4. g \in Flights /\ g.pc = "persist" /\ g.base = f.base /\ g.tok = NextGrant
    BY <1>t, <2>2 DEF Flights, FlightPcs
  <2> HIDE DEF g
  <2>5. Granting(p, g)
    BY <2>1, <2>2, <2>3, <2>4 DEF Granting
  <2> QED
    BY <1>e, <2>1, <2>4, <2>5 DEF Section
<1>9. CASE LoginFails(p)
  <2> DEFINE g == Settled(f, NoToken)
  <2>1. flight' = [flight EXCEPT ![p] = g] /\ f.pc = "login"
        /\ UNCHANGED <<disk, chain, live, replayed, lost>>
    BY <1>9 DEF LoginFails, idpVars
  <2>2. g \in Flights /\ g.pc = "done" /\ g.base = NoToken /\ g.tok = NoToken
    BY <1>k, <1>s
  <2> HIDE DEF g
  <2>3. Quiet(p, g)
    BY <1>g, <2>1, <2>2 DEF Quiet, InHand
  <2> QED
    BY <1>e, <2>1, <2>2, <2>3 DEF Section
<1>10. CASE Persist(p)
  <2> DEFINE g == Settled(f, f.tok)
  <2>1. flight' = [flight EXCEPT ![p] = g] /\ f.pc = "persist" /\ disk' = f.tok
        /\ UNCHANGED <<chain, live, replayed, lost>>
    BY <1>10 DEF Persist, idpVars
  <2>2. g \in Flights /\ g.pc = "done" /\ g.base = NoToken /\ g.tok = f.tok
    BY <1>t, <1>s
  <2> HIDE DEF g
  <2>3. Persisting(p, g)
    BY <2>1, <2>2 DEF Persisting
  <2> QED
    BY <1>e, <2>1, <2>2, <2>3 DEF Section
<1>11. CASE PersistFails(p)
  <2> DEFINE g == IF f.attempt = "login" THEN Settled(f, NoToken)
                  ELSE [LoginOrThrow(f) EXCEPT !.tok = NoToken]
  <2>1. flight' = [flight EXCEPT ![p] = g] /\ f.pc = "persist"
        /\ lost' = lost + 1 /\ lost' # lost /\ UNCHANGED <<disk, chain, live, replayed>>
    BY <1>11 DEF PersistFails, idpVars, Always, TypeOK
  <2>2. g \in Flights /\ g.pc \in {"login", "done"} /\ g.base = NoToken /\ g.tok = NoToken
    BY <1>k, <1>m, <1>s
  <2> HIDE DEF g
  <2>3. Quiet(p, g)
    BY <1>g, <2>1, <2>2 DEF Quiet
  <2> QED
    BY <1>e, <2>1, <2>2, <2>3 DEF Section
<1> QED
  BY <1>1, <1>2, <1>3, <1>4, <1>5, <1>6, <1>7, <1>8, <1>9, <1>10, <1>11 DEF Unlocked

-----------------------------------------------------------------------------
(* Coordination through a lock that is held and awaited in time.           *)

\* Nobody's wait reaches its deadline, and nothing fails, so nobody goes on without.
LEMMA WaitsEnd ==
  ASSUME InTime, Always, EverybodyGetsTheLock, [Next]_vars
  PROVE /\ EverybodyGetsTheLock'
        /\ \A p \in Procs : ~Lock!Failing(p) /\ ~Lock!Crash(p)
<1>t. /\ Lock!TypeOK /\ MaxFaults = 0 /\ Patient /\ Lock!MaxWait \in Nat \ {0}
  BY LockAssumption DEF Always, TypeOK, InTime, Lock!Benign, LockAssumption, Lock!MaxWait
<1>f. \A p \in Procs : ~Lock!Failing(p) /\ ~Lock!Crash(p)
  BY <1>t DEF Lock!Failing, Lock!Unwritable, Lock!WriteFails, Lock!Crash, Lock!TypeOK
<1> USE DEF EverybodyGetsTheLock, Lock!Goto, Lock!ResetTimers, Lock!Waiting, Lock!TypeOK
<1>1. ASSUME NEW p \in Procs, Lock!Begin(p) \/ Lock!Leaving(p) PROVE EverybodyGetsTheLock'
  BY <1>1, <1>t DEF Lock!Begin, Lock!Leaving, Lock!Release, Lock!ReleaseNothing
<1>2. ASSUME NEW p \in Procs, Lock!Acquiring(p) PROVE EverybodyGetsTheLock'
  <2>1. lk[p] \in Lock!Waiting => ~Lock!Expired(p)
    BY <1>t DEF Lock!Expired
  <2>2. CASE Lock!CreateFile(p) \/ Lock!WritePayload(p)
    BY <1>t, <2>2 DEF Lock!CreateFile, Lock!WritePayload
  <2>3. CASE Lock!CreateRefused(p) \/ Lock!ReadAge(p) \/ Lock!BreakLock(p) \/ Lock!WakeUp(p)
    <3>1. PICK step \in {"open", "age", "break", "sleep"} :
            lk' = [lk EXCEPT ![p] = step] /\ waited' = waited /\ lk[p] \in Lock!Waiting
      BY <2>1, <2>3 DEF Lock!CreateRefused, Lock!ReadAge, Lock!BreakLock, Lock!WakeUp
    <3> QED
      BY <1>t, <3>1
  <2> QED
    BY <1>2, <2>2, <2>3 DEF Lock!Acquiring
<1>3. ASSUME Tick PROVE EverybodyGetsTheLock'
  <2>1. lk' = lk /\ \A p \in Procs : lk[p] \in Lock!Waiting =>
                      waited[p] + 1 < Lock!MaxWait /\ waited'[p] = Lock!Saturate(waited[p], Lock!MaxWait)
    BY <1>3, <1>t DEF Tick, Lock!Tick
  <2>2. ASSUME NEW p \in Procs, lk[p] \in Lock!Waiting PROVE waited'[p] < Lock!MaxWait
    <3>1. waited[p] \in Int /\ Lock!MaxWait \in Int
      BY <1>t
    <3>2. waited[p] + 1 < Lock!MaxWait /\ waited'[p] = Lock!Saturate(waited[p], Lock!MaxWait)
      BY <2>1, <2>2
    <3> QED
      BY <3>1, <3>2 DEF Lock!Saturate
  <2> QED
    BY <2>1, <2>2
<1>4. ASSUME UNCHANGED lockVars PROVE EverybodyGetsTheLock'
  BY <1>4 DEF lockVars
<1>5. ASSUME NEW p \in Procs, Unlocked(p) PROVE UNCHANGED lockVars
  BY <1>5 DEF Unlocked, Reread, Discovered, IdpRefresh, AnswerOk, AnswerRefused, HttpFails, Recover,
              LoginSucceeds, LoginFails, Persist, PersistFails
<1>6. ASSUME NEW c \in Callers, Ensure(c) \/ \E i \in BOOLEAN : ReadCached(c, i)
      PROVE UNCHANGED lockVars \/ Lock!Begin(ProcOf[c])
  BY <1>6 DEF Ensure, FastPath, ReadCached, StartOrJoin
<1>7. ASSUME NEW p \in Procs, LockStep(p) \/ LockFails(p) \/ Settle(p) \/ Crash(p)
      PROVE Lock!Acquiring(p) \/ Lock!Leaving(p)
  BY <1>7, <1>f DEF LockStep, LockFails, Settle, Crash
<1>8. ASSUME Reset \/ (\E g \in Grants : Expire(g)) \/ UNCHANGED vars PROVE UNCHANGED lockVars
  BY <1>8 DEF Reset, Expire, vars
<1>9. \A c \in Callers : ProcOf[c] \in Procs
  BY CallersAssumption DEF CallersAssumption
<1> HIDE DEF EverybodyGetsTheLock
<1> QED
  BY <1>1, <1>2, <1>3, <1>4, <1>5, <1>6, <1>7, <1>8, <1>9, <1>f DEF Next, Coordinated, Unlocked

\* What every step does that is not one of a flight between its re-read and its end.
Elsewhere ==
  /\ UNCHANGED <<chain, replayed, lost>> /\ live' \subseteq live
  /\ UNCHANGED <<disk, resets>> \/ (disk' = NoToken /\ resets' = resets + 1)
  /\ \A p \in Procs :
       \/ flight'[p] = flight[p] /\ (flight[p].pc \in Section => lk'[p] = lk[p])
       \/ /\ flight'[p].pc \in {"none", "lock"} /\ flight[p].pc \in {"none", "done"}
          /\ flight'[p].base \in {NoToken} \cup {caller[c].snapshot : c \in Callers}
  /\ \A c \in Callers : caller'[c].snapshot \in {caller[c].snapshot, NoToken, disk}

LEMMA ElsewhereStep ==
  ASSUME InTime, Always, EverybodyGetsTheLock, [Next]_vars,
         \A p \in Procs : ~Unlocked(p)
  PROVE Elsewhere
<1>t. /\ \A c \in Callers : ProcOf[c] \in Procs
      /\ flight \in [Procs -> Flights] /\ caller \in [Callers -> Calls]
  BY CallersAssumption DEF CallersAssumption, Always, TypeOK
<1>n. NoFlight.pc = "none" /\ NoFlight.base = NoToken /\ NoCall.snapshot = NoToken /\ NoFlight \in Flights
  BY NoFlightType DEF NoFlight, NoCall
<1> USE DEF Elsewhere, idpVars
<1>1. ASSUME NEW c \in Callers, NEW i \in BOOLEAN, ReadCached(c, i) PROVE Elsewhere
  BY <1>1, <1>t DEF ReadCached, lockVars
<1>2. ASSUME NEW c \in Callers, FastPath(c) PROVE Elsewhere
  BY <1>2, <1>t, <1>n DEF FastPath, lockVars
<1>3. ASSUME NEW c \in Callers, StartOrJoin(c) PROVE Elsewhere
  <2> DEFINE p == ProcOf[c]
             g == [caller[c] EXCEPT !.pc = "joined", !.snapshot = NoToken]
             f == [NoFlight EXCEPT !.pc = "lock", !.interactive = caller[c].interactive,
                                   !.base = caller[c].snapshot]
  <2>1. caller[c] \in Calls
    BY <1>t
  <2>2. g.snapshot = NoToken
    BY <2>1 DEF Calls
  <2>3. f.pc = "lock" /\ f.base = caller[c].snapshot
    BY <1>n DEF Flights
  <2>4. /\ caller' = [caller EXCEPT ![c] = g]
        /\ UNCHANGED <<disk, call, chain, family, live, replayed, refused, lost, resets>>
    BY <1>3 DEF StartOrJoin
  <2>5. p \in Procs
    BY <1>t
  <2>6. \A d \in Callers : caller'[d].snapshot \in {caller[d].snapshot, NoToken, disk}
    <3> HIDE DEF g
    <3> QED
      BY <1>t, <2>2, <2>4
  <2>7. CASE UNCHANGED <<flight, lockVars>>
    BY <2>4, <2>6, <2>7 DEF lockVars
  <2>8. CASE flight[p].pc = "none" /\ Lock!Begin(p) /\ flight' = [flight EXCEPT ![p] = f]
    <3> HIDE DEF f, p
    <3>1. \A q \in Procs \ {p} : lk'[q] = lk[q]
      BY <2>8 DEF Lock!Begin, Lock!Goto, Always, TypeOK, Lock!TypeOK
    <3>2. \A q \in Procs : flight'[q] = IF q = p THEN f ELSE flight[q]
      BY <1>t, <2>5, <2>8
    <3> QED
      BY <2>3, <2>4, <2>5, <2>6, <2>8, <3>1, <3>2
  <2> QED
    BY <1>3, <2>7, <2>8 DEF StartOrJoin
<1>4. ASSUME NEW p \in Procs, LockStep(p) PROVE Elsewhere
  <2>1. flight[p].pc = "lock"
        /\ UNCHANGED <<disk, flight, caller, call, chain, family, live, replayed, refused, lost, resets>>
    BY <1>4 DEF LockStep
  <2>2. \A q \in Procs \ {p} : lk'[q] = lk[q]
    BY <1>4 DEF LockStep, Lock!Acquiring, Lock!CreateFile, Lock!WritePayload, Lock!CreateRefused,
                Lock!ReadAge, Lock!BreakLock, Lock!WakeUp, Lock!Goto, Always, TypeOK, Lock!TypeOK
  <2> QED
    BY <2>1, <2>2 DEF Section
<1>5. ASSUME NEW p \in Procs, LockFails(p) \/ Crash(p) PROVE FALSE
  BY <1>5, WaitsEnd DEF LockFails, Crash
<1>6. ASSUME NEW p \in Procs, Settle(p) PROVE Elsewhere
  <2>1. /\ flight[p].pc = "done" /\ flight' = [flight EXCEPT ![p] = NoFlight]
        /\ \A c \in Callers : caller'[c] \in {caller[c], NoCall}
        /\ UNCHANGED <<disk, call, chain, family, live, replayed, refused, lost, resets>>
    BY <1>6 DEF Settle
  <2>2. \A q \in Procs \ {p} : lk'[q] = lk[q]
    BY <1>6 DEF Settle, Lock!Leaving, Lock!Release, Lock!ReleaseNothing, Lock!Goto, Always, TypeOK,
                Lock!TypeOK
  <2> QED
    BY <1>t, <1>n, <2>1, <2>2
<1>7. CASE Reset
  BY <1>7 DEF Reset, lockVars
<1>8. ASSUME NEW g \in Grants, Expire(g) PROVE Elsewhere
  BY <1>8 DEF Expire, lockVars
<1>9. CASE Tick
  BY <1>9 DEF Tick, Lock!Tick
<1>10. CASE UNCHANGED vars
  BY <1>10 DEF vars, lockVars
<1> HIDE DEF Elsewhere
<1> QED
  BY <1>1, <1>2, <1>3, <1>4, <1>5, <1>6, <1>7, <1>8, <1>9, <1>10
     DEF Next, Ensure, Coordinated, Unlocked

\* The steps of a flight between its re-read and its end are made by the holder of the
\* lock, and nobody else is between them.
LEMMA HolderSteps ==
  ASSUME InTime, Always, Coordination, Lock!Mutex, NEW p \in Procs, Unlocked(p)
  PROVE /\ UNCHANGED lockVars /\ resets' = resets
        /\ lk[p] = "held"
        /\ flight[p].pc = "lock" => UNCHANGED <<live, replayed>>
        /\ \A q \in Procs : q # p => flight[q].pc \notin Section
<1>1. UNCHANGED lockVars /\ resets' = resets
  BY UnlockedStep DEF Becomes
<1>2. flight[p].pc = "lock" => Reread(p)
  BY DEF Unlocked, Discovered, IdpRefresh, AnswerOk, AnswerRefused, HttpFails, Recover, LoginSucceeds,
         LoginFails, Persist, PersistFails, Http
<1>3. flight[p].pc \in Section \cup {"lock"}
  BY UnlockedEffect
<1>4. lk[p] = "held"
  BY <1>2, <1>3 DEF Reread, InSection, Coordination, SectionIsLocked, EverybodyGetsTheLock
<1>5. \A q \in Procs : lk[q] = "held" => q \in Lock!Holders
  BY DEF Lock!Holders, Lock!Holding
<1> QED
  BY <1>1, <1>2, <1>4, <1>5 DEF Reread, idpVars, Lock!Mutex, Coordination, SectionIsLocked

LEMMA CoordinationStep ==
  ASSUME InTime, Always, Coordination, Lock!Mutex, [Next]_vars
  PROVE Coordination'
<1>e. EverybodyGetsTheLock'
  BY WaitsEnd DEF Coordination
<1>t. /\ disk \in Known /\ live \subseteq Granted /\ NoToken \notin live /\ resets \in Nat
      /\ \A p \in Procs : flight[p].tok \in Known
      /\ flight \in [Procs -> Flights]
  <2>1. NoToken \notin Granted /\ live \subseteq Granted /\ resets \in Nat
    BY BoundsAssumption DEF Granted, Grants, NoToken, Always, TypeOK, BoundsAssumption
  <2> QED
    BY <2>1 DEF Always, TypeOK, TokensAreGranted
<1>1. CASE \A p \in Procs : ~Unlocked(p)
  <2>1. Elsewhere
    BY <1>1, ElsewhereStep DEF Coordination
  <2>2. Granted' = Granted
    BY <2>1 DEF Elsewhere, Granted
  <2>3. SectionIsLocked'
    BY <2>1 DEF Elsewhere, Coordination, SectionIsLocked, Section
  <2>4. NewestInHand'
    BY <2>1, <2>2 DEF Elsewhere, Coordination, NewestInHand, InHand
  <2>5. CacheIsExpiredInSection'
    BY <1>t, <2>1 DEF Elsewhere, Coordination, CacheIsExpiredInSection, Section
  <2>6. SettledTokenIsCached'
    BY <1>t, <2>1 DEF Elsewhere, Coordination, SettledTokenIsCached
  <2> QED
    BY <1>e, <2>3, <2>4, <2>5, <2>6 DEF Coordination
<1>2. ASSUME NEW p \in Procs, Unlocked(p) PROVE Coordination'
  <2>1. PICK f \in Flights : /\ flight' = [flight EXCEPT ![p] = f] /\ f.pc \in Section
                             /\ Quiet(p, f) \/ Granting(p, f) \/ Persisting(p, f)
    BY <1>2, UnlockedEffect
  <2>2. /\ UNCHANGED lockVars /\ resets' = resets /\ lk[p] = "held"
        /\ flight[p].pc = "lock" => UNCHANGED <<live, replayed>>
        /\ \A q \in Procs : q # p => flight[q].pc \notin Section
    BY <1>2, HolderSteps
  <2>3. flight[p].pc \in (Section \cup {"lock"}) \ {"done"}
    BY <1>2, UnlockedEffect
  <2>4. flight'[p] = f /\ \A q \in Procs \ {p} : flight'[q] = flight[q] /\ flight[q].pc \notin Section
    BY <1>t, <2>1, <2>2
  <2>5. SectionIsLocked'
    BY <2>2, <2>4 DEF SectionIsLocked, lockVars
  <2>6. /\ NextGrant \in Nat /\ NextGrant # NoToken /\ NextGrant \notin Granted
        /\ \A g \in Granted : g < NextGrant
    BY NextGrantIsNew DEF Always
  <2>7. NewestInHand'
    <3> SUFFICES ASSUME NEW q \in Procs, InHand(q)', NEW g \in Granted'
                 PROVE g <= flight'[q].tok
      BY DEF NewestInHand
    <3>1. q = p
      BY <2>4 DEF InHand, Section
    <3>2. CASE Quiet(p, f)
      BY <2>4, <3>1, <3>2 DEF Quiet, InHand, Coordination, NewestInHand
    <3>3. CASE Granting(p, f)
      BY <2>4, <2>6, <3>1, <3>3 DEF Granting, Granted, Grants
    <3>4. CASE Persisting(p, f)
      BY <2>4, <3>1, <3>4 DEF Persisting, InHand
    <3> QED
      BY <2>1, <3>2, <3>3, <3>4
  <2>8. CacheIsExpiredInSection'
    <3> SUFFICES ASSUME f.pc # "done" PROVE disk' \notin live'
      BY <2>4 DEF CacheIsExpiredInSection
    <3>1. CASE Quiet(p, f)
      BY <2>3, <3>1 DEF Quiet, Coordination, CacheIsExpiredInSection
    <3>2. CASE Granting(p, f)
      <4>1. flight[p].pc # "lock"
        BY <1>t, <2>2, <2>6, <3>2 DEF Granting
      <4>2. disk \notin live
        BY <2>3, <4>1 DEF Coordination, CacheIsExpiredInSection
      <4>3. disk # NextGrant
        BY <1>t, <2>6 DEF Known
      <4> QED
        BY <3>2, <4>2, <4>3 DEF Granting
    <3>3. CASE Persisting(p, f)
      BY <3>3 DEF Persisting
    <3> QED
      BY <2>1, <3>1, <3>2, <3>3
  <2>9. SettledTokenIsCached'
    <3> SUFFICES ASSUME f.pc = "done", f.tok # NoToken PROVE disk' = f.tok
      BY <2>4 DEF SettledTokenIsCached, Section
    <3>1. CASE Quiet(p, f)
      BY <3>1 DEF Quiet
    <3>2. CASE Granting(p, f)
      BY <3>2 DEF Granting
    <3>3. CASE Persisting(p, f)
      BY <3>3 DEF Persisting
    <3> QED
      BY <2>1, <3>1, <3>2, <3>3
  <2> QED
    BY <1>e, <2>5, <2>7, <2>8, <2>9 DEF Coordination
<1> QED
  BY <1>1, <1>2

-----------------------------------------------------------------------------
(* As long as nothing is lost and nobody logs out.                         *)

LEMMA UndisturbedBefore == Always /\ [Next]_vars /\ Undisturbed' => Undisturbed
<1> SUFFICES ASSUME Always, [Next]_vars, Undisturbed' PROVE Undisturbed
  OBVIOUS
<1>1. lost \in Nat /\ resets \in Nat
  BY BoundsAssumption DEF BoundsAssumption, Always, TypeOK
<1>2. lost' \in {lost, lost + 1} /\ resets' \in {resets, resets + 1}
  <2>1. ASSUME NEW p \in Procs, Unlocked(p) PROVE lost' \in {lost, lost + 1} /\ resets' = resets
    BY <2>1, UnlockedEffect, UnlockedStep
  <2>2. ASSUME NEW p \in Procs, LockStep(p) \/ LockFails(p) \/ Settle(p) \/ Crash(p)
        PROVE UNCHANGED <<lost, resets>>
    BY <2>2 DEF LockStep, LockFails, Settle, Crash
  <2>3. ASSUME NEW c \in Callers, Ensure(c) \/ \E i \in BOOLEAN : ReadCached(c, i)
        PROVE UNCHANGED <<lost, resets>>
    BY <2>3 DEF Ensure, FastPath, StartOrJoin, ReadCached
  <2>4. CASE Reset
    BY <2>4 DEF Reset
  <2>5. CASE Tick \/ (\E g \in Grants : Expire(g)) \/ UNCHANGED vars
    BY <2>5 DEF Tick, Expire, vars
  <2> QED
    BY <2>1, <2>2, <2>3, <2>4, <2>5 DEF Next, Coordinated, Unlocked
<1> QED
  BY <1>1, <1>2 DEF Undisturbed

LEMMA UnbrokenStep ==
  ASSUME InTime, Always, Coordination, Lock!Mutex, Unbroken, Undisturbed, Undisturbed', [Next]_vars
  PROVE Unbroken'
<1> USE DEF Undisturbed
<1>t. /\ disk \in Known /\ Known = Granted \cup {NoToken} /\ Granted \subseteq Grants
      /\ NoToken \notin Grants
      /\ \A p \in Procs : flight[p].tok \in Known /\ (InHand(p) => flight[p].tok # NoToken)
      /\ \A p \in Procs : flight[p].pc = "post" => flight[p].base # NoToken
      /\ flight \in [Procs -> Flights]
  <2>1. \A p \in Procs : InHand(p) => flight[p].tok # NoToken
    BY DEF Always, FlightsHaveTheirTokens, InHand
  <2> QED
    BY <2>1 DEF Known, Granted, Grants, NoToken, Always, TypeOK, TokensAreGranted, FlightsHaveTheirTokens
<1>1. CASE \A p \in Procs : ~Unlocked(p)
  <2>1. Elsewhere
    BY <1>1, ElsewhereStep DEF Coordination
  <2>2. UNCHANGED <<disk, resets, chain, replayed>>
    BY <2>1 DEF Elsewhere
  <2>3. \A p \in Procs : InHand(p) => flight'[p] = flight[p]
    BY <2>1 DEF Elsewhere, InHand
  <2>4. \A p \in Procs : InHand(p)' => flight'[p] = flight[p]
    BY <2>1 DEF Elsewhere, InHand
  <2>5. CacheIsNeverEmptied'
    BY <2>1, <2>2 DEF Elsewhere, Unbroken, CacheIsNeverEmptied
  <2>6. PresentsWhatIsCached'
    BY <2>1, <2>2 DEF Elsewhere, Unbroken, PresentsWhatIsCached
  <2>7. CacheIsNotSpent'
    BY <2>2, <2>3, <2>4 DEF Unbroken, CacheIsNotSpent, InHand
  <2> QED
    BY <2>2, <2>5, <2>6, <2>7 DEF Unbroken
<1>2. ASSUME NEW p \in Procs, Unlocked(p) PROVE Unbroken'
  <2>1. PICK f \in Flights : /\ flight' = [flight EXCEPT ![p] = f] /\ f.pc \in Section
                             /\ Quiet(p, f) \/ Granting(p, f) \/ Persisting(p, f)
    BY <1>2, UnlockedEffect
  <2>2. \A q \in Procs : q # p => flight[q].pc \notin Section
    BY <1>2, HolderSteps
  <2>3. flight'[p] = f /\ \A q \in Procs \ {p} : flight'[q] = flight[q] /\ flight[q].pc \notin Section
    BY <1>t, <2>1, <2>2
  <2>4. \A q \in Procs : InHand(q) \/ InHand(q)' => q = p
    BY <2>3 DEF InHand, Section
  <2>5. caller' = caller
    BY <1>2, UnlockedStep
  <2>c. (disk # NoToken /\ chain[disk] = "rotated") => InHand(p)
    BY <2>4 DEF Unbroken, CacheIsNotSpent
  <2>6. CASE Quiet(p, f)
    <3>1. ~replayed'
      <4> SUFFICES ASSUME flight[p].pc = "post", chain[flight[p].base] = "rotated" PROVE FALSE
        BY <2>6 DEF Quiet, Unbroken
      <4>1. flight[p].base = disk /\ disk # NoToken
        BY <1>t DEF Unbroken, PresentsWhatIsCached
      <4> QED
        BY <2>c, <4>1 DEF InHand
    <3>2. CacheIsNeverEmptied'
      BY <2>3, <2>5, <2>6 DEF Quiet, Unbroken, CacheIsNeverEmptied
    <3>3. PresentsWhatIsCached'
      BY <2>3, <2>6 DEF Quiet, Unbroken, PresentsWhatIsCached, CacheIsNeverEmptied, Section
    <3>4. InHand(p) => f.pc = "persist" /\ f.tok = flight[p].tok
      BY <2>6 DEF Quiet
    <3>5. InHand(p)' => InHand(p)
      BY <2>3, <2>6 DEF Quiet, InHand
    <3>6. InHand(p) => InHand(p)' /\ flight'[p].tok = flight[p].tok
      BY <2>3, <3>4 DEF InHand
    <3>7. CacheIsNotSpent'
      BY <1>t, <2>4, <2>6, <2>c, <3>5, <3>6 DEF Quiet, Unbroken, CacheIsNotSpent
    <3> QED
      BY <3>1, <3>2, <3>3, <3>7 DEF Unbroken
  <2>7. CASE Granting(p, f)
    <3>1. ~replayed' /\ disk' = disk
      BY <2>7 DEF Granting, Unbroken
    <3>2. CacheIsNeverEmptied'
      BY <2>3, <2>5, <2>7, <3>1 DEF Granting, Unbroken, CacheIsNeverEmptied
    <3>3. PresentsWhatIsCached'
      BY <2>3, <2>7, <3>1 DEF Granting, Unbroken, PresentsWhatIsCached, Section
    <3>4. NextGrant # NoToken
      BY NextGrantIsNew DEF Always
    <3>5. InHand(p)' /\ chain'[flight'[p].tok] # "rotated"
      BY <2>3, <2>7, <3>4 DEF Granting, InHand
    <3>6. CacheIsNotSpent'
      BY <2>4, <3>5 DEF CacheIsNotSpent
    <3> QED
      BY <3>1, <3>2, <3>3, <3>6 DEF Unbroken
  <2>8. CASE Persisting(p, f)
    <3>1. InHand(p) /\ disk' = flight[p].tok /\ ~replayed' /\ chain' = chain
      BY <2>8 DEF Persisting, InHand, Unbroken
    <3>2. disk' # NoToken /\ chain'[disk'] # "rotated"
      BY <1>t, <3>1 DEF Unbroken, CacheIsNotSpent
    <3>3. CacheIsNeverEmptied'
      BY <3>2 DEF CacheIsNeverEmptied
    <3>4. PresentsWhatIsCached'
      BY <2>3, <2>8 DEF Persisting, PresentsWhatIsCached, Section
    <3>5. CacheIsNotSpent'
      BY <2>3, <2>4, <2>8, <3>2 DEF Persisting, CacheIsNotSpent, InHand
    <3> QED
      BY <3>1, <3>3, <3>4, <3>5 DEF Unbroken
  <2> QED
    BY <2>1, <2>6, <2>7, <2>8
<1> QED
  BY <1>1, <1>2

-----------------------------------------------------------------------------
(* The theorems about coordination.                                        *)

LEMMA InitCoordination == Init => Coordination /\ Unbroken
<1> SUFFICES ASSUME Init PROVE Coordination /\ Unbroken
  OBVIOUS
<1>1. \A p \in Procs : lk[p] = "idle" /\ flight[p] = NoFlight
  BY DEF Init, Lock!Init
<1>2. NoFlight.pc = "none" /\ NoFlight.base = NoToken /\ NoCall.snapshot = NoToken
  BY DEF NoFlight, NoCall
<1>3. Coordination
  BY <1>1, <1>2 DEF Coordination, EverybodyGetsTheLock, Lock!Waiting, SectionIsLocked, Section,
                    NewestInHand, InHand, CacheIsExpiredInSection, SettledTokenIsCached
<1>4. \A g \in Grants : chain[g] # "rotated"
  BY DEF Init
<1>5. disk = NoToken \/ disk \in Grants
  BY BoundsAssumption DEF Init, Grants, BoundsAssumption
<1>6. Unbroken
  BY <1>1, <1>2, <1>4, <1>5 DEF Init, Unbroken, CacheIsNeverEmptied, PresentsWhatIsCached,
                                CacheIsNotSpent, InHand
<1> QED
  BY <1>3, <1>6

LEMMA CoordinationHolds ==
  ASSUME InTime
  PROVE Spec => []Coordination
<1>1. Always /\ Coordination /\ Lock!Mutex /\ [Next]_vars => Coordination'
  BY CoordinationStep
<1>2. Spec => []Lock!Mutex
  BY LockIsMutex DEF InTime
<1> QED
  BY <1>1, <1>2, AlwaysHolds, InitCoordination, PTL DEF Spec

LEMMA UnbrokenHolds ==
  ASSUME InTime
  PROVE Spec => [](Undisturbed => Unbroken)
<1>1. Always /\ Coordination /\ Lock!Mutex /\ (Undisturbed => Unbroken) /\ [Next]_vars
      => (Undisturbed => Unbroken)'
  BY UnbrokenStep, UndisturbedBefore
<1>2. Spec => []Lock!Mutex
  BY LockIsMutex DEF InTime
<1> QED
  BY <1>1, <1>2, AlwaysHolds, CoordinationHolds, InitCoordination, PTL DEF Spec

\* What a refresh or a login handed out is in the cache when the callers get it: nobody
\* else writes the cache between the persist and the release.
THEOREM HandedOutIsCached ==
  ASSUME InTime
  PROVE Spec => []SettledTokenIsCached
<1>1. Coordination => SettledTokenIsCached
  BY DEF Coordination
<1> QED
  BY <1>1, CoordinationHolds, PTL

\* Any number of processes that refresh through the lock in time never present a refresh
\* token that has been rotated, as long as no answer and no write is lost and nobody logs out.
THEOREM OneUseOfEachToken ==
  ASSUME InTime
  PROVE Spec => []NoReplayUndisturbed
<1>1. (Undisturbed => Unbroken) => NoReplayUndisturbed
  BY DEF Unbroken, NoReplayUndisturbed, NoReplay
<1> QED
  BY <1>1, UnbrokenHolds, PTL

\* A refresh that was slow to persist never overwrites the token of a later one.
THEOREM TheCacheAdvances ==
  ASSUME InTime
  PROVE Spec => CacheNeverRollsBack
<1>1. Always /\ Coordination /\ Lock!Mutex /\ [Next]_vars => [disk' # NoToken => disk' >= disk]_disk
  <2> SUFFICES ASSUME Always, Coordination, Lock!Mutex, [Next]_vars, disk' # disk, disk' # NoToken
               PROVE disk' >= disk
    OBVIOUS
  <2>1. PICK p \in Procs : Unlocked(p)
    BY ElsewhereStep DEF Elsewhere, Coordination
  <2>2. PICK f \in Flights : Quiet(p, f) \/ Granting(p, f) \/ Persisting(p, f)
    BY <2>1, UnlockedEffect
  <2>3. flight[p].pc = "persist" /\ disk' = flight[p].tok
    BY <2>2 DEF Quiet, Granting, Persisting
  <2>4. \A g \in Granted : g <= flight[p].tok
    BY <2>3 DEF Coordination, NewestInHand, InHand
  <2>5. disk \in Known /\ flight[p].tok \in Known
    BY DEF Always, TokensAreGranted
  <2> QED
    BY <2>3, <2>4, <2>5 DEF Known, Granted, Grants, NoToken
<1>2. Spec => []Lock!Mutex
  BY LockIsMutex DEF InTime
<1> QED
  BY <1>1, <1>2, AlwaysHolds, CoordinationHolds, PTL DEF Spec, CacheNeverRollsBack

\* Several processes that find one token expired refresh it once, the others adopt what
\* that gave, and nobody is sent to log in while a valid token is cached.
THEOREM NothingIsDoneTwice ==
  ASSUME InTime
  PROVE Spec => NothingNeedless
<1>1. Always /\ Coordination /\ Lock!Mutex /\ (Undisturbed => Unbroken) /\ [Next]_vars
      => [\A g \in Grants : (chain[g] = "current" /\ chain'[g] = "rotated")
                            => (Undisturbed => disk = g) /\ g \notin live]_vars
  <2> SUFFICES ASSUME Always, Coordination, Lock!Mutex, Undisturbed => Unbroken, [Next]_vars,
                      NEW g \in Grants, chain[g] = "current", chain'[g] = "rotated"
               PROVE (Undisturbed => disk = g) /\ g \notin live
    OBVIOUS
  <2>1. PICK p \in Procs : Unlocked(p)
    BY ElsewhereStep DEF Elsewhere, Coordination
  <2>2. PICK f \in Flights : Quiet(p, f) \/ Granting(p, f) \/ Persisting(p, f)
    BY <2>1, UnlockedEffect
  <2>3. g = flight[p].base /\ flight[p].pc = "post"
    BY <2>2 DEF Quiet, Granting, Persisting
  <2> QED
    BY <2>3 DEF Always, FlightsHaveTheirTokens, Unbroken, PresentsWhatIsCached
<1>2. Always /\ Coordination /\ Lock!Mutex /\ [Next]_vars
      => [\A p \in Procs : (flight[p].pc # "login" /\ flight'[p].pc = "login")
                           => ~IsTokenValid(disk)]_vars
  <2> SUFFICES ASSUME Always, Coordination, Lock!Mutex, [Next]_vars, NEW q \in Procs,
                      flight[q].pc # "login", flight'[q].pc = "login"
               PROVE disk \notin live
    BY DEF IsTokenValid
  <2>1. PICK p \in Procs : Unlocked(p)
    BY ElsewhereStep DEF Elsewhere, Coordination
  <2>2. PICK f \in Flights : /\ flight' = [flight EXCEPT ![p] = f]
                             /\ Quiet(p, f) \/ Granting(p, f) \/ Persisting(p, f)
    BY <2>1, UnlockedEffect
  <2>3. q = p /\ f.pc = "login" /\ flight[p].pc \in (Section \cup {"lock"}) \ {"done"}
    BY <2>1, <2>2, UnlockedEffect DEF Always, TypeOK
  <2>4. Quiet(p, f)
    BY <2>2, <2>3 DEF Granting, Persisting
  <2> QED
    BY <2>3, <2>4 DEF Quiet, Coordination, CacheIsExpiredInSection
<1>3. Spec => []Lock!Mutex
  BY LockIsMutex DEF InTime
<1>4. Spec => RefreshesWhatIsCached
  BY <1>1, <1>3, AlwaysHolds, CoordinationHolds, UnbrokenHolds, PTL DEF Spec, RefreshesWhatIsCached
<1>5. Spec => NoNeedlessLogin
  BY <1>2, <1>3, AlwaysHolds, CoordinationHolds, PTL DEF Spec, NoNeedlessLogin
<1> QED
  BY <1>4, <1>5 DEF NothingNeedless
=============================================================================
