------------------------- MODULE ProviderSyncProofs -------------------------
(***************************************************************************)
(* Theorems about ProviderSync, for any number of engines, of token sets   *)
(* and of milliseconds.                                                    *)
(***************************************************************************)
EXTENDS ProviderSync, TLAPS

-----------------------------------------------------------------------------
(* The inductive invariant.                                                *)

\* The steps of a refresh between the lock and its release, and those of them in
\* which the provider has granted what the file does not have yet.
Locked  == {"read", "post", "answer", "save", "saved"}
Unsaved == {"answer", "save"}

\* Every copy of the state there is: the file, the memories, what calls and
\* refreshes have read or are writing.
Copies ==
  {file} \cup {mem[e] : e \in Engines} \cup {flight[e].state : e \in Engines}
         \cup {call[ek[1]][ek[2]].state : ek \in Engines \X Kinds}

\* The lock is held by the engine whose refresh is between taking and leaving it,
\* and by no other.
HolderRefreshes ==
  /\ \A e \in Engines : e \in inside <=> flight[e].pc \in Locked
  /\ \A e, f \in inside : e = f

\* Nothing is newer than the last grant or than the clock, and a copy with an
\* older token was not stamped later: that is why comparing ages in Adopted finds
\* the newest token.
CopiesInOrder ==
  /\ \A s \in Copies : s.token <= grants /\ s.updatedAt <= now
  /\ \A s, t \in Copies : s.token < t.token => s.updatedAt <= t.updatedAt

\* A sync that will write the file has the newest token.
SyncsAreCurrent ==
  \A e \in Engines :
    /\ call[e]["sync"].pc \in {"fetch", "save"} => call[e]["sync"].token = grants
    /\ call[e]["sync"].pc = "save" => call[e]["sync"].state.token = grants

\* So has the refresh that holds the lock, at each of its steps.
RefreshIsCurrent ==
  \A e \in Engines :
    /\ flight[e].pc \in {"read", "save", "saved"} => flight[e].state.token = grants
    /\ flight[e].pc \in {"post", "answer", "save", "saved"} => flight[e].token = grants
    /\ flight[e].pc = "post" => grants \notin live
    /\ flight[e].pc = "answer" => grants \in Grants

\* The file has the newest token unless a refresh is about to write it.
FileIsCurrent == (\A e \in Engines : flight[e].pc \notin Unsaved) => file.token = grants

Undisturbed ==
  /\ ~replayed
  /\ live \subseteq {grants}
  /\ CopiesInOrder
  /\ SyncsAreCurrent
  /\ RefreshIsCurrent
  /\ FileIsCurrent

\* What a refresh that goes to save has is a token.
SavesHaveTokens == \A e \in Engines : flight[e].pc \in {"save", "saved"} => flight[e].token \in Grants

Inv ==
  /\ TypeOK
  /\ SavesHaveTokens
  /\ HolderRefreshes
  /\ ~overlapped => Undisturbed

-----------------------------------------------------------------------------
(* Type correctness.                                                       *)

\* The fields a step replaces in a call or a refresh.
LEMMA EmptyIsAState == Empty \in States /\ Idle.state = Empty /\ None.state = Empty
  BY BoundsAssumption DEF BoundsAssumption, Empty, States, Times, NoToken, Idle, None

LEMMA AdoptedIsOneOfThem ==
  ASSUME NEW m, NEW s
  PROVE Adopted(m, s) \in {m, s}
  BY DEF Adopted

Calls == [pc : CallPcs, state : States, token : Grants \cup {NoToken}]

LEMMA IdleIsACall == Idle \in Calls /\ Idle.pc = "idle"
  BY EmptyIsAState DEF Idle, Calls, CallPcs, NoToken

LEMMA ResolvedIsACall ==
  ASSUME NEW t \in Grants
  PROVE /\ Resolved("sync", t) \in Calls
        /\ Resolved("sync", t).pc = "fetch" /\ Resolved("sync", t).token = t
        /\ Resolved("sync", t).state = Empty
        /\ Resolved("chat", t) = Idle
<1>1. Resolved("sync", t) = [pc |-> "fetch", state |-> Empty, token |-> t]
  BY DEF Resolved, Idle
<1>2. Resolved("chat", t) = Idle
  BY DEF Resolved
<1> QED
  BY <1>1, <1>2, EmptyIsAState DEF Idle, Calls, CallPcs, NoToken

LEMMA InitTypeOK == Init => TypeOK /\ SavesHaveTokens
<1> SUFFICES ASSUME Init PROVE TypeOK /\ SavesHaveTokens
  OBVIOUS
<1>1. file \in States /\ file.token \in Grants \cup {NoToken} /\ file.token \in 0 .. MaxGrants
  BY BoundsAssumption
     DEF BoundsAssumption, Init, States, Empty, Times, Grants, NoToken
<1>2. mem \in [Engines -> States]
  BY <1>1 DEF Init
<1>3. /\ call \in [Engines -> [Kinds -> Calls]]
      /\ \A e \in Engines : call[e]["sync"].pc = "idle"
  BY EmptyIsAState DEF Init, Idle, Calls, CallPcs, NoToken, Kinds
<1>4. /\ flight \in [Engines -> [pc : FlightPcs, state : States, token : Grants \cup {NoToken}]]
      /\ \A e \in Engines : flight[e].pc = "none"
  BY EmptyIsAState DEF Init, None, FlightPcs, NoToken
<1>5. now \in Times /\ grants \in 0 .. MaxGrants /\ live \subseteq Grants
  BY <1>1, BoundsAssumption DEF BoundsAssumption, Init, Times
<1> QED
  BY <1>1, <1>2, <1>3, <1>4, <1>5
     DEF Init, Lock!Init, TypeOK, SavesHaveTokens, Calls

\* What the steps of settling do to the calls of the engine.
LEMMA SettleTypeOK ==
  ASSUME TypeOK, NEW e \in Engines, NEW t \in Grants, Settle(e, t) \/ Throw(e)
  PROVE /\ call' \in [Engines -> [Kinds -> Calls]]
        /\ \A f \in Engines : call'[f]["sync"].pc \in {"fetch", "save"}
                                => call'[f]["sync"].token \in Grants
        /\ flight' \in [Engines -> [pc : FlightPcs, state : States, token : Grants \cup {NoToken}]]
        /\ inside' \subseteq Engines
<1> USE DEF TypeOK, Calls
<1>1. \A k \in Kinds : Resolved(k, t) \in Calls
  BY ResolvedIsACall, IdleIsACall DEF Kinds
<1>2. Idle \in Calls /\ Idle.pc = "idle" /\ "sync" \in Kinds
  BY IdleIsACall DEF Kinds
<1>3. Resolved("sync", t).token = t
  BY ResolvedIsACall
<1>4. None \in [pc : FlightPcs, state : States, token : Grants \cup {NoToken}]
  BY EmptyIsAState DEF None, FlightPcs, NoToken
<1>5. CASE Settle(e, t)
  BY <1>1, <1>2, <1>3, <1>4, <1>5 DEF Settle, Lock!Leave
<1>6. CASE Throw(e)
  BY <1>1, <1>2, <1>4, <1>6 DEF Throw, Lock!Leave
<1> QED
  BY <1>5, <1>6

Refreshes == [pc : FlightPcs, state : States, token : Grants \cup {NoToken}]

\* TypeOK with its sets named.
LEMMA TypeOKByName ==
  TypeOK <=> /\ file \in States
             /\ mem \in [Engines -> States]
             /\ call \in [Engines -> [Kinds -> Calls]]
             /\ \A e \in Engines : call[e]["sync"].pc \in {"fetch", "save"}
                                     => call[e]["sync"].token \in Grants
             /\ flight \in [Engines -> Refreshes]
             /\ inside \subseteq Engines
             /\ now \in Times
             /\ grants \in 0 .. MaxGrants
             /\ live \subseteq Grants
             /\ replayed \in BOOLEAN
             /\ overlapped \in BOOLEAN
  BY DEF TypeOK, Calls, Refreshes

LEMMA TypeOKStep == TypeOK /\ SavesHaveTokens /\ [Next]_vars => TypeOK' /\ SavesHaveTokens'
<1> SUFFICES ASSUME TypeOK, SavesHaveTokens, [Next]_vars PROVE TypeOK' /\ SavesHaveTokens'
  OBVIOUS
<1> USE DEF TypeOK, SavesHaveTokens, idpVars
<1>k. "sync" \in Kinds /\ "chat" \in Kinds /\ \A k \in Kinds : k \in {"sync", "chat"}
  BY DEF Kinds
<1>1. ASSUME NEW e \in Engines, NEW k \in Kinds, Begin(e, k) PROVE TypeOK' /\ SavesHaveTokens'
  <2>1. [pc |-> "read", state |-> file, token |-> NoToken] \in Calls
    BY DEF Calls, CallPcs
  <2>2. call' \in [Engines -> [Kinds -> Calls]]
    BY <1>1, <2>1 DEF Begin, Calls
  <2>3. \A f \in Engines : call'[f]["sync"].pc \in {"fetch", "save"} => call'[f]["sync"].token \in Grants
    BY <1>1, <1>k DEF Begin
  <2> QED
    BY <1>1, <2>2, <2>3 DEF Begin, Calls
<1>2. ASSUME NEW e \in Engines, NEW k \in Kinds, Ensure(e, k) PROVE TypeOK' /\ SavesHaveTokens'
  <2> DEFINE m == Adopted(mem[e], call[e][k].state)
  <2>1. m \in States
    BY AdoptedIsOneOfThem
  <2>2. mem' \in [Engines -> States]
    BY <1>2, <2>1 DEF Ensure
  <2> HIDE DEF m
  <2>3. CASE /\ m.token \in live
             /\ call' = [call EXCEPT ![e][k] = Resolved(k, m.token)]
             /\ UNCHANGED flight
    <3>1. m.token \in Grants
      BY <2>3
    <3>2. Resolved(k, m.token) \in Calls
      BY <3>1, <1>k, ResolvedIsACall, IdleIsACall
    <3>3. call' \in [Engines -> [Kinds -> Calls]]
      BY <2>3, <3>2 DEF Calls
    <3>4. \A f \in Engines : call'[f]["sync"].pc \in {"fetch", "save"} => call'[f]["sync"].token \in Grants
      BY <2>3, <3>1, <1>k, ResolvedIsACall
    <3> QED
      BY <1>2, <2>2, <2>3, <3>3, <3>4 DEF Ensure, Calls
  <2>4. CASE /\ m.token \notin live
             /\ call' = [call EXCEPT ![e][k] = [Idle EXCEPT !.pc = "wait"]]
             /\ flight' = [flight EXCEPT ![e].pc = IF @ = "none" THEN "lock" ELSE @]
    <3>1. [Idle EXCEPT !.pc = "wait"] \in Calls /\ [Idle EXCEPT !.pc = "wait"].pc = "wait"
      BY EmptyIsAState DEF Idle, Calls, CallPcs, NoToken
    <3>2. call' \in [Engines -> [Kinds -> Calls]]
      BY <2>4, <3>1 DEF Calls
    <3>3. \A f \in Engines : call'[f]["sync"].pc \in {"fetch", "save"} => call'[f]["sync"].token \in Grants
      BY <2>4, <3>1, <1>k
    <3>4. flight' \in [Engines -> Refreshes]
      BY <2>4 DEF Refreshes, FlightPcs
    <3>5. SavesHaveTokens'
      BY <2>4 DEF FlightPcs
    <3> QED
      BY <1>2, <2>2, <3>2, <3>3, <3>4, <3>5 DEF Ensure, Calls, Refreshes
  <2> QED
    BY <1>2, <2>3, <2>4 DEF Ensure, m
<1>3. ASSUME NEW e \in Engines, Enter(e) PROVE TypeOK' /\ SavesHaveTokens'
  BY <1>3 DEF Enter, Lock!Enter, FlightPcs
<1>4. ASSUME NEW e \in Engines, Reread(e) PROVE TypeOK' /\ SavesHaveTokens'
  <2> DEFINE m == Adopted(mem[e], flight[e].state)
  <2>1. m \in States
    BY AdoptedIsOneOfThem
  <2>2. mem' \in [Engines -> States]
    BY <1>4, <2>1 DEF Reread
  <2>3. m.token \in Grants \cup {NoToken}
    BY <2>1 DEF States
  <2> HIDE DEF m
  <2>4. CASE m.token \in live /\ Settle(e, m.token)
    <3>1. m.token \in Grants
      BY <2>4
    <3>2. SavesHaveTokens'
      BY <2>4 DEF Settle, None
    <3> QED
      BY <1>4, <2>2, <2>4, <3>1, <3>2, SettleTypeOK DEF Reread, Calls
  <2>5. CASE /\ m.token \notin live
             /\ flight' = [flight EXCEPT ![e] = [pc |-> "post", state |-> Empty, token |-> m.token]]
             /\ UNCHANGED <<call, inside>>
    BY <1>4, <2>2, <2>3, <2>5, EmptyIsAState DEF Reread, FlightPcs
  <2> QED
    BY <1>4, <2>4, <2>5 DEF Reread, m
<1>5. ASSUME NEW e \in Engines, IdpRefresh(e) PROVE TypeOK' /\ SavesHaveTokens'
  <2>1. CASE flight[e].token = grants /\ ~replayed /\ grants < MaxGrants
    <3>1. grants + 1 \in Grants /\ grants + 1 \in 0 .. MaxGrants
      BY <2>1, BoundsAssumption DEF BoundsAssumption, Grants
    <3> DEFINE r == [pc |-> "answer", state |-> Empty, token |-> grants + 1]
    <3>r. r \in Refreshes /\ r.pc = "answer"
      BY <3>1, EmptyIsAState DEF Refreshes, FlightPcs
    <3>f. flight' = [flight EXCEPT ![e] = r]
      BY <1>5, <2>1 DEF IdpRefresh
    <3> HIDE DEF r
    <3>2. flight' \in [Engines -> Refreshes] /\ SavesHaveTokens'
      BY <3>r, <3>f DEF Refreshes
    <3>3. grants' \in 0 .. MaxGrants /\ live' \subseteq Grants /\ overlapped' \in BOOLEAN /\ replayed' \in BOOLEAN
      BY <1>5, <2>1, <3>1 DEF IdpRefresh, Underway
    <3> QED
      BY <1>5, <3>2, <3>3 DEF IdpRefresh, Refreshes
  <2>2. CASE ~(flight[e].token = grants /\ ~replayed /\ grants < MaxGrants)
    <3> DEFINE r == [pc |-> "answer", state |-> Empty, token |-> NoToken]
    <3>r. r \in Refreshes /\ r.pc = "answer"
      BY EmptyIsAState DEF Refreshes, FlightPcs
    <3>f. flight' = [flight EXCEPT ![e] = r]
      BY <1>5, <2>2 DEF IdpRefresh
    <3> HIDE DEF r
    <3>1. flight' \in [Engines -> Refreshes] /\ SavesHaveTokens'
      BY <3>r, <3>f DEF Refreshes
    <3> QED
      BY <1>5, <2>2, <3>1 DEF IdpRefresh, Refreshes
  <2> QED
    BY <2>1, <2>2
<1>6. ASSUME NEW e \in Engines, Answer(e) PROVE TypeOK' /\ SavesHaveTokens'
  <2>1. CASE flight[e].token # NoToken
    <3>1. flight[e].token \in Grants
      BY <2>1
    <3>2. [updatedAt |-> now, token |-> flight[e].token] \in States
      BY <3>1 DEF States
    <3> DEFINE r == [pc |-> "save", token |-> flight[e].token,
                     state |-> [updatedAt |-> now, token |-> flight[e].token]]
    <3>r. r \in Refreshes /\ r.pc = "save" /\ r.token \in Grants
      BY <3>1, <3>2 DEF Refreshes, FlightPcs
    <3>f. flight' = [flight EXCEPT ![e] = r]
      BY <1>6, <2>1 DEF Answer
    <3> HIDE DEF r
    <3>3. flight' \in [Engines -> Refreshes] /\ SavesHaveTokens'
      BY <3>r, <3>f DEF Refreshes
    <3> QED
      BY <1>6, <2>1, <3>3 DEF Answer, Refreshes
  <2>2. CASE flight[e].token = NoToken
    <3>1. Throw(e)
      BY <1>6, <2>2 DEF Answer
    <3>2. 1 \in Grants
      BY BoundsAssumption DEF BoundsAssumption, Grants
    <3>3. SavesHaveTokens'
      BY <3>1 DEF Throw, None
    <3> QED
      BY <1>6, <3>1, <3>2, <3>3, SettleTypeOK DEF Answer, Calls
  <2> QED
    BY <2>1, <2>2
<1>7. ASSUME NEW e \in Engines, Save(e) PROVE TypeOK' /\ SavesHaveTokens'
  BY <1>7 DEF Save, FlightPcs
<1>8. ASSUME NEW e \in Engines, Saved(e) PROVE TypeOK' /\ SavesHaveTokens'
  <2>1. flight[e].token \in Grants
    BY <1>8 DEF Saved
  <2>2. mem' \in [Engines -> States]
    BY <1>8 DEF Saved
  <2>3. SavesHaveTokens'
    BY <1>8 DEF Saved, Settle, None
  <2> QED
    BY <1>8, <2>1, <2>2, <2>3, SettleTypeOK DEF Saved, Calls
<1>9. ASSUME NEW e \in Engines, FetchModels(e) PROVE TypeOK' /\ SavesHaveTokens'
  <2>1. [updatedAt |-> now, token |-> call[e]["sync"].token] \in States
    BY <1>9, <1>k DEF States, FetchModels
  <2>2. call' \in [Engines -> [Kinds -> Calls]]
    BY <1>9, <1>k, <2>1 DEF FetchModels, SetSync, Calls, CallPcs
  <2>3. \A f \in Engines : call'[f]["sync"].pc \in {"fetch", "save"} => call'[f]["sync"].token \in Grants
    BY <1>9, <1>k DEF FetchModels, SetSync
  <2> QED
    BY <1>9, <2>2, <2>3 DEF FetchModels, Calls
<1>10. ASSUME NEW e \in Engines, SyncFails(e) PROVE TypeOK' /\ SavesHaveTokens'
  <2>1. Idle \in Calls /\ Idle.pc = "idle"
    BY IdleIsACall
  <2>2. call' \in [Engines -> [Kinds -> Calls]]
    BY <1>10, <1>k, <2>1 DEF SyncFails, SetSync, Calls
  <2>3. \A f \in Engines : call'[f]["sync"].pc \in {"fetch", "save"} => call'[f]["sync"].token \in Grants
    BY <1>10, <1>k, <2>1 DEF SyncFails, SetSync
  <2> QED
    BY <1>10, <2>2, <2>3 DEF SyncFails, Calls
<1>11. ASSUME NEW e \in Engines, SyncSave(e) PROVE TypeOK' /\ SavesHaveTokens'
  <2>1. call' \in [Engines -> [Kinds -> Calls]]
    BY <1>11, <1>k DEF SyncSave, SetSync, Calls, CallPcs
  <2>2. \A f \in Engines : call'[f]["sync"].pc \in {"fetch", "save"} => call'[f]["sync"].token \in Grants
    BY <1>11, <1>k DEF SyncSave, SetSync
  <2> QED
    BY <1>11, <1>k, <2>1, <2>2 DEF SyncSave, Calls
<1>12. ASSUME NEW e \in Engines, SyncSaved(e) PROVE TypeOK' /\ SavesHaveTokens'
  <2>1. Idle \in Calls /\ Idle.pc = "idle"
    BY IdleIsACall
  <2>2. call' \in [Engines -> [Kinds -> Calls]]
    BY <1>12, <1>k, <2>1 DEF SyncSaved, SetSync, Calls
  <2>3. \A f \in Engines : call'[f]["sync"].pc \in {"fetch", "save"} => call'[f]["sync"].token \in Grants
    BY <1>12, <1>k, <2>1 DEF SyncSaved, SetSync
  <2>4. call[e]["sync"].state \in States
    BY <1>k
  <2>5. mem' \in [Engines -> States]
    BY <1>12, <2>4 DEF SyncSaved
  <2> QED
    BY <1>12, <2>2, <2>3, <2>5 DEF SyncSaved, Calls
<1>13. ASSUME Tick PROVE TypeOK' /\ SavesHaveTokens'
  BY <1>13, BoundsAssumption DEF BoundsAssumption, Tick, Times
<1>14. ASSUME NEW g \in Grants, Expire(g) PROVE TypeOK' /\ SavesHaveTokens'
  BY <1>14 DEF Expire
<1>15. CASE UNCHANGED vars
  BY <1>15 DEF vars
<1> QED
  BY <1>1, <1>2, <1>3, <1>4, <1>5, <1>6, <1>7, <1>8, <1>9, <1>10, <1>11, <1>12, <1>13, <1>14, <1>15
     DEF Next

\* Whatever is read from a file or put together from an answer is a state, and
\* whoever asks for models or goes to save has a token.
THEOREM TypeCorrect == Spec => []TypeOK
<1>1. Init => TypeOK /\ SavesHaveTokens
  BY InitTypeOK
<1>2. TypeOK /\ SavesHaveTokens /\ [Next]_vars => (TypeOK /\ SavesHaveTokens)'
  BY TypeOKStep
<1> QED
  BY <1>1, <1>2, PTL DEF Spec

-----------------------------------------------------------------------------
(* The lock.                                                               *)

LEMMA InitHolderRefreshes == Init => HolderRefreshes
  BY DEF Init, Lock!Init, None, Locked, HolderRefreshes

LEMMA HolderRefreshesStep ==
  TypeOK /\ HolderRefreshes /\ [Next]_vars => HolderRefreshes'
<1> SUFFICES ASSUME TypeOK, HolderRefreshes, [Next]_vars PROVE HolderRefreshes'
  OBVIOUS
<1> USE TypeOKByName DEF HolderRefreshes, Locked, Refreshes
<1>1. ASSUME NEW e \in Engines, NEW k \in Kinds, Ensure(e, k) PROVE HolderRefreshes'
  BY <1>1 DEF Ensure
<1>2. ASSUME NEW e \in Engines, Enter(e) PROVE HolderRefreshes'
  BY <1>2 DEF Enter, Lock!Enter
<1>3. ASSUME NEW e \in Engines, NEW t, Settle(e, t) \/ Throw(e) PROVE HolderRefreshes'
  BY <1>3 DEF Settle, Throw, Lock!Leave, None
<1>4. ASSUME NEW e \in Engines, Reread(e) PROVE HolderRefreshes'
  BY <1>3, <1>4 DEF Reread
<1>5. ASSUME NEW e \in Engines, IdpRefresh(e) PROVE HolderRefreshes'
  BY <1>5 DEF IdpRefresh
<1>6. ASSUME NEW e \in Engines, Answer(e) PROVE HolderRefreshes'
  <2>1. CASE Throw(e)
    BY <1>3, <2>1
  <2>2. CASE ~Throw(e)
    BY <1>6, <2>2 DEF Answer
  <2> QED
    BY <2>1, <2>2
<1>7. ASSUME NEW e \in Engines, Save(e) PROVE HolderRefreshes'
  BY <1>7 DEF Save
<1>8. ASSUME NEW e \in Engines, Saved(e) PROVE HolderRefreshes'
  BY <1>3, <1>8 DEF Saved
<1>9. CASE UNCHANGED <<flight, inside>>
  BY <1>9
<1> QED
  BY <1>1, <1>2, <1>4, <1>5, <1>6, <1>7, <1>8, <1>9
     DEF Next, Begin, FetchModels, SyncFails, SyncSave, SyncSaved, Tick, Expire, vars, idpVars

-----------------------------------------------------------------------------
(* Copies of the state.                                                    *)

\* A state that is stamped now with the newest token.
Stamp == [updatedAt |-> now, token |-> grants]

LEMMA CopiesAreStates == TypeOK => Copies \subseteq States
  BY DEF TypeOK, Copies

\* Between tokens in order, adopting the one that was stamped later finds the newest.
LEMMA AdoptedIsCurrent ==
  ASSUME TypeOK, CopiesInOrder, NEW m \in Copies, NEW s \in Copies, s.token = grants
  PROVE Adopted(m, s).token = grants
<1>1. m \in States /\ s \in States
  BY CopiesAreStates
<1>2. m.token \in Int /\ s.token \in Int /\ m.updatedAt \in Int /\ s.updatedAt \in Int /\ grants \in Int
  BY <1>1, BoundsAssumption DEF BoundsAssumption, TypeOK, States, Grants, Times, NoToken
<1>3. m.token <= grants /\ (m.token < grants => m.updatedAt <= s.updatedAt) /\ m.token >= 0
  BY <1>1, <1>2, BoundsAssumption DEF BoundsAssumption, CopiesInOrder, States, Grants, NoToken
<1> QED
  BY <1>2, <1>3 DEF Adopted, NoToken

\* The order is kept by copying, by forgetting and by stamping.
LEMMA CopiesInOrderKept ==
  ASSUME TypeOK, CopiesInOrder, Copies' \subseteq Copies \cup {Empty, Stamp},
         now' \in {now, now + 1}, grants' \in {grants, grants + 1}
  PROVE CopiesInOrder'
<1>1. now \in Nat /\ grants \in Nat
  BY BoundsAssumption DEF BoundsAssumption, TypeOK, Times
<1>2. \A s \in Copies : s.token \in Nat /\ s.updatedAt \in Nat
  BY CopiesAreStates, BoundsAssumption DEF BoundsAssumption, States, Grants, Times, NoToken
<1>3. /\ Empty.token = 0 /\ Empty.updatedAt = 0
      /\ Stamp.token = grants /\ Stamp.updatedAt = now
  BY DEF Empty, Stamp, NoToken
<1>4. \A s \in Copies' : s \in Copies \/ s = Empty \/ s = Stamp
  OBVIOUS
<1>5. \A s \in Copies' : s.token <= grants /\ s.updatedAt <= now
  BY <1>1, <1>3, <1>4 DEF CopiesInOrder
<1>6. \A s, t \in Copies' : s.token < t.token => s.updatedAt <= t.updatedAt
  <2> SUFFICES ASSUME NEW s \in Copies', NEW t \in Copies', s.token < t.token
               PROVE s.updatedAt <= t.updatedAt
    OBVIOUS
  <2>1. s.token \in Nat /\ t.token \in Nat /\ s.updatedAt \in Nat /\ t.updatedAt \in Nat
    BY <1>1, <1>2, <1>3, <1>4
  <2>2. CASE s = Stamp
    BY <2>1, <2>2, <1>1, <1>3, <1>5
  <2>3. CASE t = Stamp
    BY <2>1, <2>3, <1>1, <1>3, <1>5
  <2>4. CASE s = Empty
    BY <2>1, <2>4, <1>3
  <2>5. CASE t = Empty
    BY <2>1, <2>5, <1>3
  <2>6. CASE s \in Copies /\ t \in Copies
    BY <2>6 DEF CopiesInOrder
  <2> QED
    BY <2>2, <2>3, <2>4, <2>5, <2>6, <1>4
<1>7. \A s \in Copies' : s.token \in Nat /\ s.updatedAt \in Nat
  BY <1>1, <1>2, <1>3, <1>4
<1>8. \A s \in Copies' : s.token <= grants' /\ s.updatedAt <= now'
  BY <1>1, <1>5, <1>7
<1> QED
  BY <1>6, <1>8 DEF CopiesInOrder

\* What has been read and is kept is a copy.
LEMMA TheseAreCopies ==
  /\ file \in Copies
  /\ \A e \in Engines : mem[e] \in Copies /\ flight[e].state \in Copies
  /\ \A e \in Engines, k \in Kinds : call[e][k].state \in Copies
<1>1. file \in Copies
  BY DEF Copies
<1>2. ASSUME NEW e \in Engines PROVE mem[e] \in Copies /\ flight[e].state \in Copies
  BY DEF Copies
<1>3. ASSUME NEW e \in Engines, NEW k \in Kinds PROVE call[e][k].state \in Copies
  <2>1. <<e, k>> \in Engines \X Kinds /\ <<e, k>>[1] = e /\ <<e, k>>[2] = k
    OBVIOUS
  <2> QED
    BY <2>1 DEF Copies
<1> QED
  BY <1>1, <1>2, <1>3

\* A step that replaces one call.
LEMMA CallReplaced ==
  ASSUME TypeOK, NEW T, Copies \subseteq T, NEW e \in Engines, NEW k \in Kinds, NEW c,
         call' = [call EXCEPT ![e][k] = c], c.state \in T
  PROVE \A f \in Engines, j \in Kinds : call'[f][j].state \in T
<1>1. \A f \in Engines, j \in Kinds : call'[f][j] \in {call[f][j], c}
  BY TypeOKByName
<1> QED
  BY <1>1, TheseAreCopies

\* A step copies, forgets and stamps if it does so variable by variable.
LEMMA CopiesFrom ==
  ASSUME NEW T, file' \in T, \A e \in Engines : mem'[e] \in T /\ flight'[e].state \in T,
         \A e \in Engines, k \in Kinds : call'[e][k].state \in T
  PROVE Copies' \subseteq T
  BY DEF Copies

-----------------------------------------------------------------------------
(* Without an overlap nothing is lost.                                     *)

LEMMA InitUndisturbed == Init => Undisturbed
<1> SUFFICES ASSUME Init PROVE Undisturbed
  OBVIOUS
<1>1. file \in {Empty, [updatedAt |-> 0, token |-> 1]} /\ file.updatedAt = 0 /\ file.token \in Nat
  BY DEF Init, Empty, NoToken
<1>2. Empty.updatedAt = 0 /\ Empty.token = 0
  BY DEF Empty, NoToken
<1>3. Copies \subseteq {file, Empty}
  BY DEF Init, Copies, None, Idle
<1>4. CopiesInOrder
  BY <1>1, <1>2, <1>3 DEF Init, CopiesInOrder
<1>5. SyncsAreCurrent /\ RefreshIsCurrent
  BY DEF Init, SyncsAreCurrent, RefreshIsCurrent, Idle, None, Kinds
<1> QED
  BY <1>4, <1>5 DEF Init, Undisturbed, FileIsCurrent

\* A refresh that settles with the newest token, or throws.
LEMMA SettleUndisturbed ==
  ASSUME Inv, Undisturbed, NEW e \in Engines,
         Settle(e, grants) \/ Throw(e), grants \in Grants, UNCHANGED <<grants, live>>
  PROVE /\ \A f \in Engines : flight'[f].state \in Copies \cup {Empty, Stamp}
        /\ \A f \in Engines, k \in Kinds : call'[f][k].state \in Copies \cup {Empty, Stamp}
        /\ SyncsAreCurrent' /\ RefreshIsCurrent'
        /\ \A f \in Engines : flight'[f] = IF f = e THEN None ELSE flight[f]
<1> USE TypeOKByName DEF Inv
<1>1. \A f \in Engines : flight'[f] = IF f = e THEN None ELSE flight[f]
  BY DEF Settle, Throw
<1>2. \A k \in Kinds : Resolved(k, grants).state = Empty
  BY ResolvedIsACall DEF Kinds, Idle
<1>3. \A f \in Engines, k \in Kinds :
        call'[f][k] \in {call[f][k], Idle, Resolved(k, grants)}
  BY DEF Settle, Throw
<1>4. Resolved("sync", grants).token = grants /\ Resolved("sync", grants).pc = "fetch"
  BY ResolvedIsACall
<1>5. Idle.state = Empty /\ Idle.pc = "idle" /\ None.state = Empty /\ None.pc = "none"
  BY DEF Idle, None
<1>6. SyncsAreCurrent'
  BY <1>3, <1>4, <1>5 DEF Undisturbed, SyncsAreCurrent, Kinds
<1>7. RefreshIsCurrent'
  BY <1>1, <1>5 DEF Undisturbed, RefreshIsCurrent
<1>8. \A f \in Engines, k \in Kinds : call'[f][k].state \in Copies \cup {Empty, Stamp}
  BY <1>2, <1>3, <1>5, TheseAreCopies
<1> QED
  BY <1>1, <1>5, <1>6, <1>7, <1>8, TheseAreCopies

\* At most one refresh is between the lock and its release.
LEMMA OneRefresh ==
  ASSUME Inv, NEW e \in Engines, flight[e].pc \in Locked
  PROVE \A f \in Engines : flight[f].pc \in Locked => f = e
  BY DEF Inv, HolderRefreshes

LEMMA OverlapStays == [Next]_vars /\ overlapped => overlapped'
  BY DEF Next, vars, idpVars, Begin, Ensure, Enter, Reread, IdpRefresh, Answer, Save, Saved,
         FetchModels, SyncFails, SyncSave, SyncSaved, Tick, Expire

LEMMA UndisturbedStep ==
  ASSUME Inv, [Next]_vars, ~overlapped'
  PROVE Undisturbed'
<1> USE TypeOKByName DEF Inv, idpVars
<1>a. ~overlapped
  BY OverlapStays
<1>b. Undisturbed
  BY <1>a
<1>c. "sync" \in Kinds /\ \A k \in Kinds : k \in {"sync", "chat"}
  BY DEF Kinds
<1>d. /\ Idle.state = Empty /\ Idle.pc = "idle"
      /\ None.state = Empty /\ None.pc = "none"
  BY DEF Idle, None
<1>e. now \in Int /\ grants \in Int
  BY BoundsAssumption DEF BoundsAssumption, Times
<1> DEFINE New == Copies \cup {Empty, Stamp}
<1>1. ASSUME NEW e \in Engines, NEW k \in Kinds, Begin(e, k) PROVE Undisturbed'
  <2>1. Copies' \subseteq New
    BY <1>1, TheseAreCopies, CopiesFrom DEF Begin
  <2>2. SyncsAreCurrent'
    BY <1>1, <1>b, <1>c DEF Begin, Undisturbed, SyncsAreCurrent
  <2> QED
    BY <1>1, <1>b, <2>1, <2>2, CopiesInOrderKept
       DEF Begin, Undisturbed, RefreshIsCurrent, FileIsCurrent
<1>2. ASSUME NEW e \in Engines, NEW k \in Kinds, Ensure(e, k) PROVE Undisturbed'
  <2> DEFINE m == Adopted(mem[e], call[e][k].state)
  <2>1. m \in Copies
    BY TheseAreCopies, AdoptedIsOneOfThem
  <2>2. mem' = [mem EXCEPT ![e] = m]
    BY <1>2 DEF Ensure
  <2>3. UNCHANGED <<file, inside, now, grants, live, replayed>>
    BY <1>2 DEF Ensure
  <2> HIDE DEF m
  <2>4. CASE /\ m.token \in live
             /\ call' = [call EXCEPT ![e][k] = Resolved(k, m.token)]
             /\ UNCHANGED flight
    <3>1. m.token = grants /\ m.token \in Grants
      BY <2>4, <1>b DEF Undisturbed
    <3>2. /\ Resolved("sync", grants).state = Empty /\ Resolved("sync", grants).token = grants
          /\ Resolved("sync", grants).pc = "fetch" /\ Resolved("chat", grants) = Idle
      BY <3>1, ResolvedIsACall
    <3>s. \A f \in Engines, j \in Kinds : call'[f][j].state \in New
      BY <2>4, <3>1, <3>2, <1>c, <1>d, CallReplaced
    <3>3. Copies' \subseteq New
      BY <2>1, <2>2, <2>3, <2>4, <3>s, TheseAreCopies, CopiesFrom
    <3>4. SyncsAreCurrent'
      BY <1>b, <1>c, <2>3, <2>4, <3>1, <3>2 DEF Undisturbed, SyncsAreCurrent
    <3> QED
      BY <1>b, <2>3, <2>4, <3>3, <3>4, CopiesInOrderKept
         DEF Undisturbed, RefreshIsCurrent, FileIsCurrent
  <2>5. CASE /\ call' = [call EXCEPT ![e][k] = [Idle EXCEPT !.pc = "wait"]]
             /\ flight' = [flight EXCEPT ![e].pc = IF @ = "none" THEN "lock" ELSE @]
    <3>1. [Idle EXCEPT !.pc = "wait"].state = Empty /\ [Idle EXCEPT !.pc = "wait"].pc = "wait"
      BY DEF Idle
    <3>2. /\ \A f \in Engines : flight'[f].state = flight[f].state
          /\ \A f \in Engines : flight'[f].token = flight[f].token
          /\ \A f \in Engines : \/ flight'[f].pc = flight[f].pc
                                \/ flight[f].pc = "none" /\ flight'[f].pc = "lock"
      BY <2>5 DEF Refreshes
    <3>s. \A f \in Engines, j \in Kinds : call'[f][j].state \in New
      BY <2>5, <3>1, CallReplaced
    <3>3. Copies' \subseteq New
      BY <2>1, <2>2, <2>3, <3>2, <3>s, TheseAreCopies, CopiesFrom
    <3>4. SyncsAreCurrent'
      BY <1>b, <1>c, <2>3, <2>5, <3>1 DEF Undisturbed, SyncsAreCurrent
    <3>5. RefreshIsCurrent'
      BY <1>b, <2>3, <3>2 DEF Undisturbed, RefreshIsCurrent
    <3>6. FileIsCurrent'
      BY <1>b, <2>3, <3>2 DEF Undisturbed, FileIsCurrent, Unsaved
    <3> QED
      BY <1>b, <2>3, <3>3, <3>4, <3>5, <3>6, CopiesInOrderKept DEF Undisturbed
  <2> QED
    BY <1>2, <2>4, <2>5 DEF Ensure, m
<1>3. ASSUME NEW e \in Engines, Enter(e) PROVE Undisturbed'
  <2>1. Copies' \subseteq New
    BY <1>3, TheseAreCopies, CopiesFrom DEF Enter
  <2>2. file.token = grants
    BY <1>3, <1>b DEF Enter, Lock!Enter, HolderRefreshes, Undisturbed, FileIsCurrent, Locked, Unsaved
  <2>3. RefreshIsCurrent'
    BY <1>3, <1>b, <2>2 DEF Enter, Undisturbed, RefreshIsCurrent
  <2>4. SyncsAreCurrent' /\ FileIsCurrent'
    BY <1>3, <1>b, <2>2 DEF Enter, Undisturbed, SyncsAreCurrent, FileIsCurrent
  <2> QED
    BY <1>3, <1>b, <2>1, <2>3, <2>4, CopiesInOrderKept DEF Enter, Undisturbed
<1>4. ASSUME NEW e \in Engines, Reread(e) PROVE Undisturbed'
  <2> DEFINE m == Adopted(mem[e], flight[e].state)
  <2>1. m \in Copies
    BY TheseAreCopies, AdoptedIsOneOfThem
  <2>2. m.token = grants
    BY <1>4, <1>b, TheseAreCopies, AdoptedIsCurrent DEF Reread, Undisturbed, RefreshIsCurrent
  <2>3. mem' = [mem EXCEPT ![e] = m]
    BY <1>4 DEF Reread
  <2>4. UNCHANGED <<file, now, grants, live, replayed>>
    BY <1>4 DEF Reread
  <2>5. FileIsCurrent /\ flight[e].pc = "read" /\ file.token = grants
    BY <1>4, <1>b, OneRefresh DEF Reread, Undisturbed, FileIsCurrent, Unsaved, Locked
  <2> HIDE DEF m
  <2>6. CASE m.token \in live /\ Settle(e, m.token)
    <3>1. Settle(e, grants) /\ grants \in Grants
      BY <2>2, <2>6
    <3>2. /\ \A f \in Engines : flight'[f].state \in New
          /\ \A f \in Engines, k \in Kinds : call'[f][k].state \in New
          /\ SyncsAreCurrent' /\ RefreshIsCurrent'
      BY <1>b, <2>4, <3>1, SettleUndisturbed
    <3>3. Copies' \subseteq New
      BY <2>1, <2>3, <2>4, <3>2, TheseAreCopies, CopiesFrom
    <3> QED
      BY <1>b, <2>4, <2>5, <3>2, <3>3, CopiesInOrderKept DEF Undisturbed, FileIsCurrent
  <2>7. CASE /\ m.token \notin live
             /\ flight' = [flight EXCEPT ![e] = [pc |-> "post", state |-> Empty, token |-> m.token]]
             /\ UNCHANGED <<call, inside>>
    <3>s. \A f \in Engines : flight'[f].state \in New
      BY <2>7, TheseAreCopies
    <3>1. Copies' \subseteq New
      BY <2>1, <2>3, <2>4, <2>7, <3>s, TheseAreCopies, CopiesFrom
    <3>2. RefreshIsCurrent'
      BY <1>b, <2>2, <2>4, <2>7 DEF Undisturbed, RefreshIsCurrent
    <3>3. SyncsAreCurrent' /\ FileIsCurrent'
      BY <1>b, <2>4, <2>5, <2>7 DEF Undisturbed, SyncsAreCurrent, FileIsCurrent
    <3> QED
      BY <1>b, <2>4, <3>1, <3>2, <3>3, CopiesInOrderKept DEF Undisturbed
  <2> QED
    BY <1>4, <2>6, <2>7 DEF Reread, m
<1>5. ASSUME NEW e \in Engines, IdpRefresh(e) PROVE Undisturbed'
  <2>1. flight[e].pc = "post" /\ flight[e].token = grants /\ ~replayed /\ live = {}
    BY <1>5, <1>b DEF IdpRefresh, Undisturbed, RefreshIsCurrent
  <2> DEFINE r == [pc |-> "answer", state |-> Empty, token |-> grants + 1]
  <2>2. /\ grants' = grants + 1 /\ live' = {grants + 1} /\ ~Underway
        /\ flight' = [flight EXCEPT ![e] = r]
        /\ UNCHANGED <<file, mem, call, inside, now, replayed>>
    BY <1>5, <2>1 DEF IdpRefresh
  <2>g. grants + 1 \in Grants
    BY <1>5, <2>1, BoundsAssumption DEF BoundsAssumption, IdpRefresh, Grants
  <2>3. r.pc = "answer" /\ r.state = Empty /\ r.token = grants + 1
    OBVIOUS
  <2> HIDE DEF r
  <2>s. \A f \in Engines : flight'[f].state \in New
    BY <2>2, <2>3, TheseAreCopies
  <2>4. Copies' \subseteq New
    BY <2>2, <2>s, TheseAreCopies, CopiesFrom
  <2>5. SyncsAreCurrent'
    BY <2>2 DEF SyncsAreCurrent, Underway
  <2>6. \A f \in Engines \ {e} : flight'[f].pc \notin Locked
    BY <2>1, <2>2, OneRefresh DEF Locked
  <2>7. RefreshIsCurrent'
    BY <2>2, <2>3, <2>6, <2>g DEF RefreshIsCurrent, Locked
  <2>8. FileIsCurrent'
    BY <2>2, <2>3 DEF FileIsCurrent, Unsaved
  <2> QED
    BY <1>b, <2>2, <2>4, <2>5, <2>7, <2>8, CopiesInOrderKept DEF Undisturbed
<1>6. ASSUME NEW e \in Engines, Answer(e) PROVE Undisturbed'
  <2>1. flight[e].pc = "answer" /\ flight[e].token = grants
    BY <1>6, <1>b DEF Answer, Undisturbed, RefreshIsCurrent
  <2>2. UNCHANGED <<file, mem, now, grants, live, replayed>>
    BY <1>6 DEF Answer
  <2>3. CASE flight[e].token # NoToken
    <3> DEFINE r == [pc |-> "save", token |-> flight[e].token,
                     state |-> [updatedAt |-> now, token |-> flight[e].token]]
    <3>1. flight' = [flight EXCEPT ![e] = r] /\ UNCHANGED call
      BY <1>6, <2>3 DEF Answer
    <3>2. r.pc = "save" /\ r.state = Stamp /\ r.token = grants /\ r.state.token = grants
      BY <2>1 DEF Stamp
    <3> HIDE DEF r
    <3>s. \A f \in Engines : flight'[f].state \in New
      BY <3>1, <3>2, TheseAreCopies
    <3>3. Copies' \subseteq New
      BY <2>2, <3>1, <3>s, TheseAreCopies, CopiesFrom
    <3>4. RefreshIsCurrent'
      BY <1>b, <2>2, <3>1, <3>2 DEF Undisturbed, RefreshIsCurrent
    <3>5. FileIsCurrent'
      BY <2>2, <3>1, <3>2 DEF FileIsCurrent, Unsaved
    <3>6. SyncsAreCurrent'
      BY <1>b, <2>2, <3>1 DEF Undisturbed, SyncsAreCurrent
    <3> QED
      BY <1>b, <2>2, <3>3, <3>4, <3>5, <3>6, CopiesInOrderKept DEF Undisturbed
  <2>4. CASE flight[e].token = NoToken
    <3>1. FALSE
      BY <1>b, <2>1, <2>4 DEF Undisturbed, RefreshIsCurrent, Grants, NoToken
    <3> QED
      BY <3>1
  <2> QED
    BY <2>3, <2>4
<1>7. ASSUME NEW e \in Engines, Save(e) PROVE Undisturbed'
  <2>1. flight[e].pc = "save" /\ flight[e].state.token = grants
    BY <1>7, <1>b DEF Save, Undisturbed, RefreshIsCurrent
  <2>2. /\ file' = flight[e].state
        /\ UNCHANGED <<mem, call, inside, now, grants, live, replayed>>
    BY <1>7 DEF Save
  <2>3. \A f \in Engines : /\ flight'[f].state = flight[f].state
                           /\ flight'[f].token = flight[f].token
                           /\ flight'[f].pc = IF f = e THEN "saved" ELSE flight[f].pc
    BY <1>7 DEF Save, Refreshes
  <2>4. Copies' \subseteq New
    BY <2>2, <2>3, TheseAreCopies, CopiesFrom
  <2>5. RefreshIsCurrent'
    BY <1>b, <2>1, <2>2, <2>3 DEF Undisturbed, RefreshIsCurrent
  <2>6. SyncsAreCurrent' /\ FileIsCurrent'
    BY <1>b, <2>1, <2>2 DEF Undisturbed, SyncsAreCurrent, FileIsCurrent
  <2> QED
    BY <1>b, <2>2, <2>4, <2>5, <2>6, CopiesInOrderKept DEF Undisturbed
<1>8. ASSUME NEW e \in Engines, Saved(e) PROVE Undisturbed'
  <2>1. flight[e].pc = "saved" /\ flight[e].token = grants /\ flight[e].token \in Grants
    BY <1>8, <1>b DEF Saved, Undisturbed, RefreshIsCurrent, SavesHaveTokens
  <2>2. Settle(e, grants) /\ mem' = [mem EXCEPT ![e] = flight[e].state]
    BY <1>8, <2>1 DEF Saved
  <2>3. UNCHANGED <<file, now, grants, live, replayed>>
    BY <1>8 DEF Saved
  <2>4. /\ \A f \in Engines : flight'[f].state \in New
        /\ \A f \in Engines, k \in Kinds : call'[f][k].state \in New
        /\ SyncsAreCurrent' /\ RefreshIsCurrent'
    BY <1>b, <2>1, <2>2, <2>3, SettleUndisturbed
  <2>5. Copies' \subseteq New
    BY <2>2, <2>3, <2>4, TheseAreCopies, CopiesFrom
  <2>6. file.token = grants
    BY <1>b, <2>1, OneRefresh DEF Undisturbed, FileIsCurrent, Unsaved, Locked
  <2> QED
    BY <1>b, <2>3, <2>4, <2>5, <2>6, CopiesInOrderKept DEF Undisturbed, FileIsCurrent
<1>9. ASSUME NEW e \in Engines, FetchModels(e) PROVE Undisturbed'
  <2> DEFINE c == [pc |-> "save", state |-> [updatedAt |-> now, token |-> call[e]["sync"].token],
                   token |-> call[e]["sync"].token]
  <2>1. call[e]["sync"].pc = "fetch" /\ call[e]["sync"].token = grants
    BY <1>9, <1>b DEF FetchModels, Undisturbed, SyncsAreCurrent
  <2>2. /\ call' = [call EXCEPT ![e]["sync"] = c]
        /\ UNCHANGED <<file, mem, flight, inside, now, grants, live, replayed>>
    BY <1>9 DEF FetchModels, SetSync
  <2>3. c.pc = "save" /\ c.state = Stamp /\ c.token = grants /\ c.state.token = grants
    BY <2>1 DEF Stamp
  <2> HIDE DEF c
  <2>s. \A f \in Engines, j \in Kinds : call'[f][j].state \in New
    BY <1>c, <2>2, <2>3, TheseAreCopies, CallReplaced
  <2>4. Copies' \subseteq New
    BY <1>c, <2>2, <2>s, TheseAreCopies, CopiesFrom
  <2>5. SyncsAreCurrent'
    BY <1>b, <1>c, <2>2, <2>3 DEF Undisturbed, SyncsAreCurrent
  <2> QED
    BY <1>b, <2>2, <2>4, <2>5, CopiesInOrderKept DEF Undisturbed, RefreshIsCurrent, FileIsCurrent
<1>10. ASSUME NEW e \in Engines, SyncFails(e) PROVE Undisturbed'
  <2>1. /\ call' = [call EXCEPT ![e]["sync"] = Idle]
        /\ UNCHANGED <<file, mem, flight, inside, now, grants, live, replayed>>
    BY <1>10 DEF SyncFails, SetSync
  <2>s. \A f \in Engines, j \in Kinds : call'[f][j].state \in New
    BY <1>c, <1>d, <2>1, CallReplaced
  <2>2. Copies' \subseteq New
    BY <1>c, <2>1, <2>s, TheseAreCopies, CopiesFrom
  <2>3. SyncsAreCurrent'
    BY <1>b, <1>c, <1>d, <2>1 DEF Undisturbed, SyncsAreCurrent
  <2> QED
    BY <1>b, <2>1, <2>2, <2>3, CopiesInOrderKept DEF Undisturbed, RefreshIsCurrent, FileIsCurrent
<1>11. ASSUME NEW e \in Engines, SyncSave(e) PROVE Undisturbed'
  <2> DEFINE c == [pc |-> "saved", state |-> call[e]["sync"].state, token |-> call[e]["sync"].token]
  <2>1. call[e]["sync"].state.token = grants
    BY <1>11, <1>b DEF SyncSave, Undisturbed, SyncsAreCurrent
  <2>2. /\ call' = [call EXCEPT ![e]["sync"] = c] /\ file' = call[e]["sync"].state
        /\ UNCHANGED <<mem, flight, inside, now, grants, live, replayed>>
    BY <1>11 DEF SyncSave, SetSync
  <2>3. c.pc = "saved" /\ c.state = call[e]["sync"].state
    OBVIOUS
  <2> HIDE DEF c
  <2>s. \A f \in Engines, j \in Kinds : call'[f][j].state \in New
    BY <1>c, <2>2, <2>3, TheseAreCopies, CallReplaced
  <2>4. Copies' \subseteq New
    BY <1>c, <2>2, <2>s, TheseAreCopies, CopiesFrom
  <2>5. SyncsAreCurrent'
    BY <1>b, <1>c, <2>2, <2>3 DEF Undisturbed, SyncsAreCurrent
  <2> QED
    BY <1>b, <2>1, <2>2, <2>4, <2>5, CopiesInOrderKept DEF Undisturbed, RefreshIsCurrent, FileIsCurrent
<1>12. ASSUME NEW e \in Engines, SyncSaved(e) PROVE Undisturbed'
  <2>1. /\ call' = [call EXCEPT ![e]["sync"] = Idle]
        /\ mem' = [mem EXCEPT ![e] = call[e]["sync"].state]
        /\ UNCHANGED <<file, flight, inside, now, grants, live, replayed>>
    BY <1>12 DEF SyncSaved, SetSync
  <2>s. \A f \in Engines, j \in Kinds : call'[f][j].state \in New
    BY <1>c, <1>d, <2>1, CallReplaced
  <2>2. Copies' \subseteq New
    BY <1>c, <2>1, <2>s, TheseAreCopies, CopiesFrom
  <2>3. SyncsAreCurrent'
    BY <1>b, <1>c, <1>d, <2>1 DEF Undisturbed, SyncsAreCurrent
  <2> QED
    BY <1>b, <2>1, <2>2, <2>3, CopiesInOrderKept DEF Undisturbed, RefreshIsCurrent, FileIsCurrent
<1>13. CASE UNCHANGED <<file, mem, call, flight, grants, replayed>>
            /\ live' \subseteq live /\ now' \in {now, now + 1}
  <2>1. Copies' \subseteq New
    BY <1>13 DEF Copies
  <2> QED
    BY <1>b, <1>13, <2>1, CopiesInOrderKept
       DEF Undisturbed, SyncsAreCurrent, RefreshIsCurrent, FileIsCurrent
<1> QED
  BY <1>1, <1>2, <1>3, <1>4, <1>5, <1>6, <1>7, <1>8, <1>9, <1>10, <1>11, <1>12, <1>13
     DEF Next, Tick, Expire, vars

THEOREM Invariance == Spec => []Inv
<1>1. Init => Inv
  BY InitTypeOK, InitHolderRefreshes, InitUndisturbed DEF Inv
<1>2. Inv /\ [Next]_vars => Inv'
  BY TypeOKStep, HolderRefreshesStep, UndisturbedStep DEF Inv
<1> QED
  BY <1>1, <1>2, PTL DEF Spec

\* No engine presents a refresh token that another one has rotated, and between
\* refreshes the file has the newest token set, unless a sync was between its ensure
\* and its save when a token was rotated.
THEOREM NothingIsLost == Spec => []NothingIsLostWithoutOverlap
<1>1. Inv => NothingIsLostWithoutOverlap
  BY DEF Inv, Undisturbed, FileIsCurrent, HolderRefreshes, Locked, Unsaved,
         NothingIsLostWithoutOverlap
<1> QED
  BY <1>1, Invariance, PTL

\* No write of the file, of a refresh or of a sync, puts an older token set into it.
THEOREM TheFileAdvances == Spec => TokensOnlyAdvance
<1>1. ASSUME Inv, [Next]_vars PROVE [~overlapped' => file'.token >= file.token]_vars
  <2> SUFFICES ASSUME ~overlapped', file' # file PROVE file'.token >= file.token
    BY <1>1, BoundsAssumption
       DEF BoundsAssumption, Inv, TypeOK, States, Grants, NoToken
  <2>1. ~overlapped /\ Undisturbed
    BY <1>1, OverlapStays DEF Inv
  <2>2. file'.token = grants
    BY <1>1, <2>1
       DEF Next, vars, Begin, Ensure, Enter, Reread, IdpRefresh, Answer, Save, Saved, FetchModels,
           SyncFails, SyncSave, SyncSaved, Tick, Expire, Undisturbed, SyncsAreCurrent, RefreshIsCurrent
  <2>3. file.token <= grants
    BY <2>1, TheseAreCopies DEF Undisturbed, CopiesInOrder
  <2>4. file.token \in Int /\ grants \in Int
    BY <1>1, BoundsAssumption DEF BoundsAssumption, Inv, TypeOK, States, Grants, NoToken
  <2> QED
    BY <2>2, <2>3, <2>4
<1> QED
  BY <1>1, Invariance, PTL DEF Spec, TokensOnlyAdvance
=============================================================================
