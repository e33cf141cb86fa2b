--------------------------- MODULE FileLockProofs ---------------------------
(***************************************************************************)
(* Theorems about FileLock, for any number of processes, any thresholds    *)
(* and any number of crashes.                                              *)
(***************************************************************************)
EXTENDS FileLock, TLAPS

-----------------------------------------------------------------------------
(* Type correctness.                                                       *)

LEMMA FileExists == \A f \in Files : f # NoFile
  BY NoFileAssumption, TimeAssumption
     DEF NoFileAssumption, TimeAssumption, Files, Ages

LEMMA ZeroIsInRange == 0 \in 0 .. MaxWait /\ 0 \in 0 .. MaxHold /\ 0 \in 0 .. MaxFaults
  BY TimeAssumption, SwitchAssumption
     DEF MaxWait, TimeAssumption, SwitchAssumption

LEMMA TypeOKStep == TypeOK /\ [Next]_vars => TypeOK'
<1> SUFFICES ASSUME TypeOK, [Next]_vars PROVE TypeOK'
  OBVIOUS
<1> USE TimeAssumption, SwitchAssumption, NoFileAssumption
    DEF TimeAssumption, SwitchAssumption, NoFileAssumption
<1>1. ASSUME NEW p \in Procs, Begin(p) PROVE TypeOK'
  BY <1>1, ZeroIsInRange DEF TypeOK, Begin, Goto, ResetTimers, Steps, Waiting, MaxWait
<1>2. ASSUME NEW p \in Procs, CreateFile(p) PROVE TypeOK'
  BY <1>2, ZeroIsInRange DEF TypeOK, CreateFile, Goto, ResetTimers, Steps, Holding, Files, Ages
<1>3. ASSUME NEW p \in Procs, WritePayload(p) PROVE TypeOK'
  BY <1>3 DEF TypeOK, WritePayload, Goto, Steps, Holding, Files, Ages
<1>4. ASSUME NEW p \in Procs, CreateRefused(p) PROVE TypeOK'
  BY <1>4 DEF TypeOK, CreateRefused, Goto, Steps, Waiting
<1>5. ASSUME NEW p \in Procs, ReadAge(p) PROVE TypeOK'
  BY <1>5 DEF TypeOK, ReadAge, Goto, Steps, Waiting
<1>6. ASSUME NEW p \in Procs, BreakLock(p) PROVE TypeOK'
  BY <1>6 DEF TypeOK, BreakLock, Goto, Steps, Waiting
<1>7. ASSUME NEW p \in Procs, WakeUp(p) PROVE TypeOK'
  BY <1>7 DEF TypeOK, WakeUp, Goto, Steps, Waiting
<1>8. ASSUME NEW p \in Procs, Failing(p) PROVE TypeOK'
  BY <1>8 DEF TypeOK, Failing, Unwritable, WriteFails, Goto, Steps
<1>9. ASSUME NEW p \in Procs, Leaving(p) PROVE TypeOK'
  BY <1>9, ZeroIsInRange DEF TypeOK, Leaving, Release, ReleaseNothing, Goto, ResetTimers, Steps
<1>10. ASSUME NEW p \in Procs, Crash(p) PROVE TypeOK'
  BY <1>10, ZeroIsInRange DEF TypeOK, Crash, Goto, ResetTimers, Steps
<1>11. ASSUME Tick PROVE TypeOK'
  <2>1. lockFile' \in Files \cup {NoFile}
    <3>1. CASE lockFile = NoFile
      BY <3>1, <1>11 DEF Tick
    <3>2. CASE lockFile # NoFile
      <4>1. lockFile \in Files
        BY <3>2 DEF TypeOK
      <4>2. Saturate(lockFile.age, Stale + 1) \in Ages
        BY <4>1 DEF Saturate, Files, Ages
      <4>3. lockFile' = [lockFile EXCEPT !.age = Saturate(lockFile.age, Stale + 1)]
        BY <3>2, <1>11 DEF Tick
      <4> QED
        BY <4>1, <4>2, <4>3 DEF Files
    <3> QED
      BY <3>1, <3>2
  <2>2. waited' \in [Procs -> 0 .. MaxWait]
    BY <1>11 DEF Tick, TypeOK, Saturate, MaxWait
  <2>3. held' \in [Procs -> 0 .. MaxHold]
    BY <1>11 DEF Tick, TypeOK, Saturate
  <2> QED
    BY <2>1, <2>2, <2>3, <1>11 DEF Tick, TypeOK
<1>12. CASE UNCHANGED vars
  BY <1>12 DEF TypeOK, vars
<1> QED
  BY <1>1, <1>2, <1>3, <1>4, <1>5, <1>6, <1>7, <1>8, <1>9, <1>10, <1>11, <1>12
     DEF Next, Acquiring

LEMMA InitTypes == Init => TypeOK
<1> SUFFICES ASSUME Init PROVE TypeOK
  OBVIOUS
<1> QED
  BY ZeroIsInRange DEF Init, TypeOK, Steps

\* The file, the locals of the calls and the history keep their types
\* (lock.ts:113-188).
THEOREM TypeCorrect == Spec => []TypeOK
  BY InitTypes, TypeOKStep, PTL DEF Spec

-----------------------------------------------------------------------------
(* Mutual exclusion as long as no lock file has been broken.  It is        *)
(* inductive together with: the file at the lock path is the holder's.     *)

HolderOwnsFile ==
  ~broken => \A p \in Holders : lockFile # NoFile /\ lockFile.owner = p

UInv == TypeOK /\ HolderOwnsFile

LEMMA HolderOwnsFileGivesMutex == HolderOwnsFile => MutexUntilBroken
  BY DEF HolderOwnsFile, MutexUntilBroken, Mutex

LEMMA UInvStep == UInv /\ [Next]_vars => UInv'
<1> SUFFICES ASSUME UInv, [Next]_vars PROVE UInv'
  OBVIOUS
<1>0. TypeOK'
  BY TypeOKStep DEF UInv
<1> SUFFICES ASSUME ~broken', NEW h \in Holders'
             PROVE  (lockFile # NoFile /\ lockFile.owner = h)'
  BY <1>0 DEF UInv, HolderOwnsFile
<1> USE DEF UInv, HolderOwnsFile, TypeOK, Holders
<1>1. ASSUME NEW p \in Procs, Begin(p) PROVE (lockFile # NoFile /\ lockFile.owner = h)'
  BY <1>1 DEF Begin, Goto, ResetTimers, Holding
<1>2. ASSUME NEW p \in Procs, CreateFile(p) PROVE (lockFile # NoFile /\ lockFile.owner = h)'
  <2>1. \A q \in Procs : lk[q] \notin Holding
    BY <1>2 DEF CreateFile
  <2>2. h = p
    BY <1>2, <2>1 DEF CreateFile, Goto, ResetTimers
  <2>3. lockFile' \in Files /\ lockFile'.owner = p
    BY <1>2, <1>0, TimeAssumption DEF CreateFile, Files, Ages, TimeAssumption
  <2> QED
    BY <2>2, <2>3, FileExists
<1>3. ASSUME NEW p \in Procs, WritePayload(p) PROVE (lockFile # NoFile /\ lockFile.owner = h)'
  <2>1. h \in Holders /\ ~broken
    BY <1>3 DEF WritePayload, Goto, Holding
  <2>2. lockFile \in Files /\ lockFile.owner = h
    BY <2>1
  <2>3. lockFile' \in Files /\ lockFile'.owner = h
    BY <2>2, <1>3, TimeAssumption DEF WritePayload, Files, Ages, TimeAssumption
  <2> QED
    BY <2>3, FileExists
<1>4. ASSUME NEW p \in Procs, CreateRefused(p) PROVE (lockFile # NoFile /\ lockFile.owner = h)'
  BY <1>4 DEF CreateRefused, Goto, Holding
<1>5. ASSUME NEW p \in Procs, ReadAge(p) PROVE (lockFile # NoFile /\ lockFile.owner = h)'
  BY <1>5 DEF ReadAge, Goto, Holding
<1>6. ASSUME NEW p \in Procs, BreakLock(p) PROVE (lockFile # NoFile /\ lockFile.owner = h)'
  <2>1. ~broken /\ lockFile = NoFile
    BY <1>6 DEF BreakLock
  <2>2. h \in Holders
    BY <1>6 DEF BreakLock, Goto, Holding
  <2> QED
    BY <2>1, <2>2
<1>7. ASSUME NEW p \in Procs, WakeUp(p) PROVE (lockFile # NoFile /\ lockFile.owner = h)'
  BY <1>7 DEF WakeUp, Goto, Holding
<1>8. ASSUME NEW p \in Procs, Failing(p) PROVE (lockFile # NoFile /\ lockFile.owner = h)'
  BY <1>8 DEF Failing, Unwritable, WriteFails, Goto, Holding
<1>9. ASSUME NEW p \in Procs, Release(p) PROVE (lockFile # NoFile /\ lockFile.owner = h)'
  <2>1. p \in Holders /\ ~broken
    BY <1>9 DEF Release, Holding
  <2>2. h \in Holders /\ h # p
    BY <1>9 DEF Release, Goto, ResetTimers, Holding
  <2> QED
    BY <2>1, <2>2
<1>10. ASSUME NEW p \in Procs, ReleaseNothing(p) PROVE (lockFile # NoFile /\ lockFile.owner = h)'
  BY <1>10 DEF ReleaseNothing, Goto, ResetTimers, Holding
<1>11. ASSUME NEW p \in Procs, Crash(p) PROVE (lockFile # NoFile /\ lockFile.owner = h)'
  BY <1>11 DEF Crash, Goto, ResetTimers, Holding
<1>12. ASSUME Tick PROVE (lockFile # NoFile /\ lockFile.owner = h)'
  <2>1. h \in Holders /\ ~broken
    BY <1>12 DEF Tick
  <2>2. lockFile \in Files /\ lockFile.owner = h
    BY <2>1
  <2>3. lockFile' = [lockFile EXCEPT !.age = Saturate(lockFile.age, Stale + 1)]
    BY <2>1, <1>12 DEF Tick
  <2>4. lockFile' \in Files
    BY <2>2, <2>3, TimeAssumption DEF Files, Ages, Saturate, TimeAssumption
  <2>5. lockFile'.owner = h
    BY <2>2, <2>3 DEF Files
  <2> QED
    BY <2>4, <2>5, FileExists
<1>13. CASE UNCHANGED vars
  BY <1>13 DEF vars
<1> QED
  BY <1>1, <1>2, <1>3, <1>4, <1>5, <1>6, <1>7, <1>8, <1>9, <1>10, <1>11, <1>12, <1>13
     DEF Next, Acquiring, Leaving

\* Whatever crashes, failing calls and delays there are, a second process gets
\* in only after a stale lock was broken (lock.ts:130-175).
THEOREM MutexUntilFirstBreak == Spec => []MutexUntilBroken
<1>1. Init => UInv
  <2>1. Init => HolderOwnsFile
    BY DEF Init, HolderOwnsFile, Holders, Holding
  <2>2. Init => TypeOK
    BY InitTypes
  <2> QED
    BY <2>1, <2>2 DEF UInv
<1>2. UInv => MutexUntilBroken
  BY HolderOwnsFileGivesMutex DEF UInv
<1> QED
  BY <1>1, UInvStep, <1>2, PTL DEF Spec

-----------------------------------------------------------------------------
(* In the circumstances Benign describes no lock is ever judged stale: the *)
(* file at the lock path belongs to a live holder and is no older than his *)
(* hold, which ends before the file gets older than Stale.                 *)

OwnerIsHolding ==
  lockFile # NoFile => /\ lockFile.owner \in Holders
                       /\ lockFile.age <= held[lockFile.owner]

NobodyBreaks == ~broken /\ \A p \in Procs : lk[p] # "break"

BInv == UInv /\ NobodyBreaks /\ OwnerIsHolding

LEMMA NeverAbandoned ==
  ASSUME Benign, BInv
  PROVE  ~Abandoned
<1> SUFFICES ASSUME lockFile # NoFile PROVE ~(lockFile.age > Stale)
  BY DEF Abandoned
<1>1. lockFile \in Files
  BY DEF BInv, UInv, TypeOK
<1>2. held[lockFile.owner] \in 0 .. MaxHold
  BY <1>1 DEF BInv, UInv, TypeOK, Files
<1>3. lockFile.age <= held[lockFile.owner]
  BY DEF BInv, OwnerIsHolding
<1>4. lockFile.age \in Nat
  BY <1>1, TimeAssumption DEF Files, Ages, TimeAssumption
<1> QED
  BY <1>2, <1>3, <1>4, TimeAssumption DEF Benign, TimeAssumption

LEMMA BInvStep ==
  ASSUME Benign, BInv, [Next]_vars
  PROVE  NobodyBreaks' /\ OwnerIsHolding'
<1> DEFINE Goal == NobodyBreaks' /\ OwnerIsHolding'
<1>0. TypeOK /\ TypeOK' /\ UInv'
  BY TypeOKStep, UInvStep DEF BInv, UInv
<1>a. lockFile # NoFile => lockFile \in Files
  BY <1>0 DEF TypeOK
<1> USE <1>0 DEF BInv, NobodyBreaks, OwnerIsHolding, TypeOK, Holders
<1>1. ASSUME NEW p \in Procs, Begin(p) PROVE Goal
  BY <1>1, <1>a DEF Begin, Goto, ResetTimers, Holding, Files
<1>2. ASSUME NEW p \in Procs, CreateFile(p) PROVE Goal
  <2>1. lockFile' = [owner |-> p, age |-> 0] /\ held'[p] = 0 /\ lk'[p] = "write"
    BY <1>2 DEF CreateFile, Goto, ResetTimers
  <2>2. NobodyBreaks'
    BY <1>2 DEF CreateFile, Goto, ResetTimers
  <2> QED
    BY <2>1, <2>2 DEF Holding
<1>3. ASSUME NEW p \in Procs, WritePayload(p) PROVE Goal
  <2>1. NobodyBreaks'
    BY <1>3 DEF WritePayload, Goto
  <2>2. ASSUME lockFile' # NoFile
        PROVE  lockFile'.owner \in Holders' /\ lockFile'.age <= held'[lockFile'.owner]
    <3>1. lockFile \in Files
      BY <2>2, <1>3, <1>a DEF WritePayload
    <3>2. lockFile'.owner = lockFile.owner /\ lockFile'.age \in {0, lockFile.age}
      BY <3>1, <2>2, <1>3 DEF WritePayload, Files
    <3>3. lockFile.owner \in Holders /\ lockFile.age <= held[lockFile.owner]
      BY <3>1, <2>2, <1>3 DEF WritePayload
    <3>4. lockFile.owner \in Holders' /\ held' = held
      BY <3>3, <1>3 DEF WritePayload, Goto, Holding
    <3>5. 0 <= held[lockFile.owner]
      BY <3>3, TimeAssumption DEF TimeAssumption
    <3> QED
      BY <3>2, <3>3, <3>4, <3>5
  <2> QED
    BY <2>1, <2>2
<1>4. ASSUME NEW p \in Procs, CreateRefused(p) PROVE Goal
  BY <1>4, <1>a DEF CreateRefused, Goto, Holding, Files
<1>5. ASSUME NEW p \in Procs, ReadAge(p) PROVE Goal
  <2>1. ~Abandoned
    BY NeverAbandoned
  <2> QED
    BY <1>5, <1>a, <2>1 DEF ReadAge, Goto, Holding, Files
<1>6. ASSUME NEW p \in Procs, BreakLock(p) PROVE Goal
  BY <1>6 DEF BreakLock
<1>7. ASSUME NEW p \in Procs, WakeUp(p) PROVE Goal
  BY <1>7, <1>a DEF WakeUp, Goto, Holding, Files
<1>8. ASSUME NEW p \in Procs, Failing(p) \/ Crash(p) PROVE Goal
  BY <1>8, SwitchAssumption
     DEF Failing, Unwritable, WriteFails, Crash, Benign, SwitchAssumption
<1>9. ASSUME NEW p \in Procs, Release(p) PROVE Goal
  BY <1>9 DEF Release, Goto, ResetTimers
<1>10. ASSUME NEW p \in Procs, ReleaseNothing(p) PROVE Goal
  BY <1>10, <1>a DEF ReleaseNothing, Goto, ResetTimers, Holding, Files
<1>11. ASSUME Tick PROVE Goal
  <2>1. NobodyBreaks'
    BY <1>11 DEF Tick
  <2>2. ASSUME lockFile' # NoFile
        PROVE  lockFile'.owner \in Holders' /\ lockFile'.age <= held'[lockFile'.owner]
    <3>1. lockFile \in Files /\ lockFile # NoFile
      BY <2>2, <1>11, <1>a DEF Tick
    <3> DEFINE o == lockFile.owner
    <3>2. o \in Holders /\ lockFile.age <= held[o] /\ o \in Procs
      BY <3>1 DEF Files
    <3>3. held[o] < MaxHold
      BY <3>2, <1>11 DEF Tick, Benign
    <3>4. held'[o] = held[o] + 1
      BY <3>2, <3>3, <1>11 DEF Tick, Saturate
    <3>5. lockFile'.owner = o /\ lockFile'.age = Saturate(lockFile.age, Stale + 1)
      BY <3>1, <1>11 DEF Tick, Files
    <3>6. lockFile'.age <= lockFile.age + 1
      BY <3>1, <3>5, TimeAssumption DEF Saturate, Files, Ages, TimeAssumption
    <3>7. o \in Holders'
      BY <3>2, <1>11 DEF Tick
    <3>8. lockFile.age \in Nat /\ lockFile'.age \in Int /\ held[o] \in Nat
      BY <3>1, <3>2, <3>5, TimeAssumption DEF Saturate, Files, Ages, TimeAssumption
    <3> QED
      BY <3>2, <3>4, <3>5, <3>6, <3>7, <3>8
  <2> QED
    BY <2>1, <2>2
<1>12. CASE UNCHANGED vars
  BY <1>12 DEF vars
<1> QED
  BY <1>1, <1>2, <1>3, <1>4, <1>5, <1>6, <1>7, <1>8, <1>9, <1>10, <1>11, <1>12
     DEF Next, Acquiring, Leaving

LEMMA BInvHolds ==
  ASSUME Benign
  PROVE  Spec => []BInv
<1>1. Init => BInv
  BY InitTypes
     DEF Init, BInv, UInv, HolderOwnsFile, NobodyBreaks, OwnerIsHolding, Holders, Holding
<1>2. BInv /\ [Next]_vars => BInv'
  BY BInvStep, UInvStep DEF BInv
<1> QED
  BY <1>1, <1>2, PTL DEF Spec

\* In those circumstances the lock is a mutual exclusion, for any number of
\* processes (lock.ts:102-112).
THEOREM BenignMutex ==
  ASSUME Benign
  PROVE  Spec => []Mutex
<1>1. BInv => Mutex
  BY DEF BInv, UInv, HolderOwnsFile, NobodyBreaks, Mutex
<1> QED
  BY <1>1, BInvHolds, PTL

\* ... and a live holder's file stays until he removes it (lock.ts:6-11).
THEOREM BenignHolderKeepsFile ==
  ASSUME Benign
  PROVE  Spec => LiveHolderKeepsFile
<1> DEFINE Keeps(p) ==
      (p \in Holders /\ p \in Holders' /\ lockFile # NoFile /\ lockFile.owner = p)
      => (lockFile' # NoFile /\ lockFile'.owner = p)
<1>1. BInv /\ BInv' => \A p \in Procs : Keeps(p)
  BY DEF BInv, UInv, HolderOwnsFile, NobodyBreaks
<1> QED
  BY <1>1, BInvHolds, PTL DEF LiveHolderKeepsFile

\* ... and every behaviour of the lock is one of AdvisoryLock.
THEOREM BenignRefinement ==
  ASSUME Benign
  PROVE  Spec => ImplementsAdvisoryLock
<1>1. Init => Advisory!Init
  BY DEF Init, Advisory!Init, Holders, Holding
<1>2. BInv /\ BInv' /\ [Next]_vars => [Advisory!Next]_Holders
  <2> SUFFICES ASSUME BInv, BInv', [Next]_vars, Holders' # Holders
               PROVE  Advisory!Next
    OBVIOUS
  <2> USE DEF Holders
  <2>0. lk \in [Procs -> Steps] /\ \A p \in Procs : lk[p] # "break"
    BY DEF BInv, UInv, TypeOK, NobodyBreaks
  <2>1. ASSUME NEW p \in Procs, CreateFile(p) PROVE Advisory!Enter(p)
    <3>1. Holders = {}
      BY <2>1 DEF CreateFile, BInv, UInv, HolderOwnsFile, NobodyBreaks
    <3>2. Holders' = {p}
      BY <3>1, <2>0, <2>1 DEF CreateFile, Goto, ResetTimers, Holding
    <3> QED
      BY <3>1, <3>2 DEF Advisory!Enter
  <2>2. ASSUME NEW p \in Procs, Release(p) PROVE Advisory!Leave(p)
    <3>1. p \in Holders
      BY <2>2 DEF Release, Holding
    <3>2. Holders' = Holders \ {p}
      BY <2>0, <2>2 DEF Release, Goto, ResetTimers, Holding
    <3> QED
      BY <3>1, <3>2 DEF Advisory!Leave
  <2>3. ASSUME NEW p \in Procs, WritePayload(p) PROVE FALSE
    BY <2>0, <2>3 DEF WritePayload, Goto, Holding
  <2>4. ASSUME NEW p \in Procs, Begin(p) \/ CreateRefused(p) \/ WakeUp(p) PROVE FALSE
    BY <2>0, <2>4 DEF Begin, CreateRefused, WakeUp, Goto, ResetTimers, Holding
  <2>5. ASSUME NEW p \in Procs, ReadAge(p) \/ BreakLock(p) PROVE FALSE
    BY <2>0, <2>5 DEF ReadAge, BreakLock, Goto, Holding
  <2>6. ASSUME NEW p \in Procs, ReleaseNothing(p) PROVE FALSE
    BY <2>0, <2>6 DEF ReleaseNothing, Goto, ResetTimers, Holding
  <2>7. ASSUME NEW p \in Procs, Failing(p) \/ Crash(p) PROVE FALSE
    BY <2>7, SwitchAssumption
       DEF Failing, Unwritable, WriteFails, Crash, Benign, SwitchAssumption, BInv, UInv, TypeOK
  <2>8. ~Tick /\ ~UNCHANGED vars
    BY DEF Tick, vars
  <2> QED
    BY <2>1, <2>2, <2>3, <2>4, <2>5, <2>6, <2>7, <2>8
       DEF Next, Acquiring, Leaving, Advisory!Next
<1> QED
  BY <1>1, <1>2, BInvHolds, PTL
     DEF Spec, ImplementsAdvisoryLock, Advisory!Spec
=============================================================================
