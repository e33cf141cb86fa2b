---------------------------- MODULE ProviderSync ----------------------------
(***************************************************************************)
(* The state file of packages/opencode-provider-sync/src/engine.ts: token  *)
(* and models of one server, shared by the engines of several processes    *)
(* (or of two plugins in one).  Each engine keeps a copy in memory and     *)
(* writes the whole file: a refresh under the lock of its token runtime,   *)
(* a sync without it, after the request for the models.                    *)
(*                                                                         *)
(* Of the token runtime (module TokenRuntime) the re-reads and the single  *)
(* flight are kept, of its lock what AdvisoryLock promises.  Of the file   *)
(* its token and its age are kept: the models go where these go.  Calls    *)
(* are interactive; the requests for tokens are answered, those for models *)
(* may fail.                                                               *)
(***************************************************************************)
EXTENDS Integers, FiniteSets

CONSTANTS
  Engines,
  MaxGrants,    \* bound: token sets the provider issues
  MaxTime       \* bound: the last millisecond

ASSUME BoundsAssumption == MaxGrants \in Nat \ {0} /\ MaxTime \in Nat

VARIABLES
  file,         \* the state file
  mem,          \* runtime.state of each engine
  call,         \* one syncServer and one ensureAccessToken in each engine
  flight,       \* the refresh in flight in each engine's token runtime
  inside,       \* the engines that hold the refresh lock
  now,          \* Date.now()
  grants,       \* the token sets issued so far: the newest one is grants
  live,         \* those whose access token is valid
  replayed,     \* history: a rotated refresh token was presented
  overlapped    \* history: a refresh was granted while a sync had its token

idpVars == <<grants, live, replayed, overlapped>>
vars == <<file, mem, call, flight, inside, now, idpVars>>

Lock == INSTANCE AdvisoryLock WITH Procs <- Engines

NoToken == 0
Grants  == 1 .. MaxGrants
Times   == 0 .. MaxTime

\* CachedServerState.  A missing file and one without a token are read alike.
States == [updatedAt : Times, token : Grants \cup {NoToken}]
Empty  == [updatedAt |-> 0, token |-> NoToken]

\* What a call or a flight is doing, the state it has read or is writing, and
\* the token it goes on with.
Kinds    == {"sync", "chat"}
CallPcs  == {"idle", "read", "wait", "fetch", "save", "saved"}
FlightPcs == {"none", "lock", "read", "post", "answer", "save", "saved"}
None     == [pc |-> "none", state |-> Empty, token |-> NoToken]
Idle     == [pc |-> "idle", state |-> Empty, token |-> NoToken]

\* Nobody has logged in yet, or a token of an earlier session is cached.
Init ==
  /\ file \in {Empty, [updatedAt |-> 0, token |-> 1]}
  /\ mem = [e \in Engines |-> file]
  /\ call = [e \in Engines |-> [k \in Kinds |-> Idle]]
  /\ flight = [e \in Engines |-> None]
  /\ Lock!Init
  /\ now = 0
  /\ grants = file.token
  /\ live \in SUBSET (Grants \cap {file.token})
  /\ replayed = FALSE
  /\ overlapped = FALSE

-----------------------------------------------------------------------------
(* ensure of the token runtime, with the cache of the engine.              *)

\* A mutation of Adopted: within one millisecond memory wins.
AdoptedIfNewer(m, persisted) ==
  IF persisted.token # NoToken /\ persisted.updatedAt > m.updatedAt THEN persisted ELSE m

\* readCachedToken: the persisted state wins, unless memory is strictly newer or
\* there is no token in it.
Adopted(m, persisted) ==
  IF persisted.token # NoToken /\ persisted.updatedAt >= m.updatedAt THEN persisted ELSE m

\* ensure has resolved with token t: a sync asks for the models.
Resolved(k, t) ==
  IF k = "sync" THEN [Idle EXCEPT !.pc = "fetch", !.token = t] ELSE Idle

Waiting(e) == {k \in Kinds : call[e][k].pc = "wait"}

\* A mutation of Settle: they go on with what memory had before the refresh.
SettleFromMemory(e, t) ==
  /\ call' = [call EXCEPT ![e] = [k \in Kinds |->
                IF k \in Waiting(e) THEN Resolved(k, mem[e].token) ELSE call[e][k]]]
  /\ flight' = [flight EXCEPT ![e] = None]
  /\ Lock!Leave(e)

\* The flight of engine e settles: who waited for it goes on, or throws.
Settle(e, t) ==
  /\ call' = [call EXCEPT ![e] = [k \in Kinds |->
                IF k \in Waiting(e) THEN Resolved(k, t) ELSE call[e][k]]]
  /\ flight' = [flight EXCEPT ![e] = None]
  /\ Lock!Leave(e)

Throw(e) ==
  /\ call' = [call EXCEPT ![e] = [k \in Kinds |->
                IF k \in Waiting(e) THEN Idle ELSE call[e][k]]]
  /\ flight' = [flight EXCEPT ![e] = None]
  /\ Lock!Leave(e)

\* syncServer or ensureAccessToken is called; its ensure reads the file, and goes
\* on in a later turn of the event loop.
Begin(e, k) ==
  /\ call[e][k].pc = "idle"
  /\ call' = [call EXCEPT ![e][k] = [pc |-> "read", state |-> file, token |-> NoToken]]
  /\ UNCHANGED <<file, mem, flight, inside, now, idpVars>>

\* The state is adopted.  A valid token is returned; otherwise a refresh is
\* started, or the one in flight joined.
Ensure(e, k) ==
  LET c == call[e][k]
      m == Adopted(mem[e], c.state) IN
  /\ c.pc = "read"
  /\ mem' = [mem EXCEPT ![e] = m]
  /\ \/ /\ m.token \in live
        /\ call' = [call EXCEPT ![e][k] = Resolved(k, m.token)]
        /\ UNCHANGED flight
     \/ /\ m.token \notin live
        /\ call' = [call EXCEPT ![e][k] = [Idle EXCEPT !.pc = "wait"]]
        /\ flight' = [flight EXCEPT ![e].pc = IF @ = "none" THEN "lock" ELSE @]
  /\ UNCHANGED <<file, inside, now, idpVars>>

\* The lock is acquired and the file read again.
Enter(e) ==
  /\ flight[e].pc = "lock"
  /\ Lock!Enter(e)
  /\ flight' = [flight EXCEPT ![e] = [pc |-> "read", state |-> file, token |-> NoToken]]
  /\ UNCHANGED <<file, mem, call, now, idpVars>>

\* A token that has become valid meanwhile is adopted, another one refreshed
\* (without any token it is a login).
Reread(e) ==
  LET m == Adopted(mem[e], flight[e].state) IN
  /\ flight[e].pc = "read"
  /\ mem' = [mem EXCEPT ![e] = m]
  /\ \/ m.token \in live /\ Settle(e, m.token)
     \/ /\ m.token \notin live
        /\ flight' = [flight EXCEPT ![e] = [pc |-> "post", state |-> Empty, token |-> m.token]]
        /\ UNCHANGED <<call, inside>>
  /\ UNCHANGED <<file, now, idpVars>>

\* A sync that has its token, and has not saved its state yet.
Underway == \E e \in Engines : call[e]["sync"].pc \in {"fetch", "save"}

\* The provider rotates the newest refresh token (or logs in); an older one
\* revokes them all.
IdpRefresh(e) ==
  LET t == flight[e].token IN
  /\ flight[e].pc = "post"
  /\ \/ /\ t = grants /\ ~replayed /\ grants < MaxGrants
        /\ grants' = grants + 1
        /\ live' = live \cup {grants + 1}
        /\ overlapped' = (overlapped \/ Underway)
        /\ flight' = [flight EXCEPT ![e] = [pc |-> "answer", state |-> Empty, token |-> grants + 1]]
        /\ UNCHANGED replayed
     \/ /\ t # grants \/ replayed
        /\ replayed' = TRUE
        /\ live' = {}
        /\ flight' = [flight EXCEPT ![e] = [pc |-> "answer", state |-> Empty, token |-> NoToken]]
        /\ UNCHANGED <<grants, overlapped>>
  /\ UNCHANGED <<file, mem, call, inside, now>>

\* A mutation of Answer: the refusal is taken for a token.
AnswerUnread(e) ==
  /\ flight[e].pc = "answer"
  /\ \/ /\ flight[e].token # NoToken
        /\ flight' = [flight EXCEPT ![e] = [pc |-> "save", token |-> flight[e].token,
                                            state |-> [updatedAt |-> now, token |-> flight[e].token]]]
        /\ UNCHANGED <<call, inside>>
     \/ flight[e].token = NoToken /\ Settle(e, NoToken)
  /\ UNCHANGED <<file, mem, now, idpVars>>

\* The answer arrives: setCached stamps the new state and starts to save it.  What
\* follows a refusal (another re-read, a login) is left to TokenRuntime: here the
\* call throws.
Answer(e) ==
  /\ flight[e].pc = "answer"
  /\ \/ /\ flight[e].token # NoToken
        /\ flight' = [flight EXCEPT ![e] = [pc |-> "save", token |-> flight[e].token,
                                            state |-> [updatedAt |-> now, token |-> flight[e].token]]]
        /\ UNCHANGED <<call, inside>>
     \/ flight[e].token = NoToken /\ Throw(e)
  /\ UNCHANGED <<file, mem, now, idpVars>>

\* A mutation of Save: only memory is updated.
SaveNothing(e) ==
  /\ flight[e].pc = "save"
  /\ flight' = [flight EXCEPT ![e].pc = "saved"]
  /\ UNCHANGED <<file, mem, call, inside, now, idpVars>>

\* saveServerState of setCached renames its file into place.
Save(e) ==
  /\ flight[e].pc = "save"
  /\ file' = flight[e].state
  /\ flight' = [flight EXCEPT ![e].pc = "saved"]
  /\ UNCHANGED <<mem, call, inside, now, idpVars>>

\* setCached updates memory; the lock is released, the flight settles.
Saved(e) ==
  /\ flight[e].pc = "saved"
  /\ mem' = [mem EXCEPT ![e] = flight[e].state]
  /\ Settle(e, flight[e].token)
  /\ UNCHANGED <<file, now, idpVars>>

-----------------------------------------------------------------------------
(* The rest of syncServer.                                                 *)

SetSync(e, c) == call' = [call EXCEPT ![e]["sync"] = c]

\* The models arrive: the next state is stamped, with the token that ensure
\* returned before, and its save starts.
FetchModels(e) ==
  LET c == call[e]["sync"] IN
  /\ c.pc = "fetch"
  /\ SetSync(e, [pc |-> "save", state |-> [updatedAt |-> now, token |-> c.token], token |-> c.token])
  /\ UNCHANGED <<file, mem, flight, inside, now, idpVars>>

\* The request for the models or the save fails: the last known state stays.
SyncFails(e) ==
  /\ call[e]["sync"].pc \in {"fetch", "save"}
  /\ SetSync(e, Idle)
  /\ UNCHANGED <<file, mem, flight, inside, now, idpVars>>

\* saveServerState of syncServer renames its file into place.
SyncSave(e) ==
  LET c == call[e]["sync"] IN
  /\ c.pc = "save"
  /\ file' = c.state
  /\ SetSync(e, [pc |-> "saved", state |-> c.state, token |-> c.token])
  /\ UNCHANGED <<mem, flight, inside, now, idpVars>>

SyncSaved(e) ==
  LET c == call[e]["sync"] IN
  /\ c.pc = "saved"
  /\ mem' = [mem EXCEPT ![e] = c.state]
  /\ SetSync(e, Idle)
  /\ UNCHANGED <<file, flight, inside, now, idpVars>>

-----------------------------------------------------------------------------

Tick ==
  /\ now < MaxTime
  /\ now' = now + 1
  /\ UNCHANGED <<file, mem, call, flight, inside, idpVars>>

\* An access token expires (bound: not the last one).
Expire(g) ==
  /\ g \in live /\ g < MaxGrants
  /\ live' = live \ {g}
  /\ UNCHANGED <<file, mem, call, flight, inside, now, grants, replayed, overlapped>>

Next ==
  \/ \E e \in Engines :
       \/ \E k \in Kinds : Begin(e, k) \/ Ensure(e, k)
       \/ Enter(e) \/ Reread(e) \/ IdpRefresh(e) \/ Answer(e) \/ Save(e) \/ Saved(e)
       \/ FetchModels(e) \/ SyncFails(e) \/ SyncSave(e) \/ SyncSaved(e)
  \/ Tick
  \/ \E g \in Grants : Expire(g)

Spec == Init /\ [][Next]_vars

-----------------------------------------------------------------------------
(***************************************************************************)
(* Properties                                                              *)
(***************************************************************************)

\* Types; who asks for models has a token.
TypeOK ==
  /\ file \in States
  /\ mem \in [Engines -> States]
  /\ call \in [Engines -> [Kinds -> [pc : CallPcs, state : States,
                                     token : Grants \cup {NoToken}]]]
  /\ \A e \in Engines : call[e]["sync"].pc \in {"fetch", "save"} => call[e]["sync"].token \in Grants
  /\ flight \in [Engines -> [pc : FlightPcs, state : States, token : Grants \cup {NoToken}]]
  /\ inside \subseteq Engines
  /\ now \in Times
  /\ grants \in 0 .. MaxGrants
  /\ live \subseteq Grants
  /\ replayed \in BOOLEAN
  /\ overlapped \in BOOLEAN

\* Unless a sync was between its ensure and its save when a token was rotated, no
\* engine presents a refresh token that another has rotated (engine.ts:234-241), and
\* when nobody is refreshing the file has the newest token set: whoever reads it
\* next goes on from there (engine.ts:240-241, "the source of truth").
NothingIsLostWithoutOverlap ==
  ~overlapped => ~replayed /\ (inside = {} => file.token = grants)

\* The file never goes back to an older token set (engine.ts:356-358, 559-562).
\* Memory may: it follows the file at the next read.
TokensOnlyAdvance == [][~overlapped' => file'.token >= file.token]_vars

\* engine.ts:559-562 says of the write of syncServer that it is based on the current
\* state because anything older "would silently roll that back".
FileNeverRollsBack == [][file'.token >= file.token]_vars
=============================================================================
