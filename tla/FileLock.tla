------------------------------ MODULE FileLock ------------------------------
(***************************************************************************)
(* acquireFileLock of packages/opencode-auth-core/src/lock.ts: an advisory *)
(* lock between processes, made of one file that is created with           *)
(* open(path, "wx") and removed with unlink(path).                         *)
(*                                                                         *)
(* Every await of the function is a boundary between two actions, so the   *)
(* steps of several processes on the file interleave as their system calls *)
(* do.  Time is a Tick that ages the file, the waits and the holds; a      *)
(* process may be arbitrarily slow between two of its steps, except that   *)
(* with Timely a holder releases within MaxHold ticks.                     *)
(***************************************************************************)
EXTENDS Integers, FiniteSets

CONSTANTS
  Procs,        \* the processes that share one cache directory
  NoFile,       \* the lock path does not exist
  Stale,        \* options.staleMs, in ticks
  Margin,       \* LOCK_WAIT_MARGIN_MS, in ticks
  MaxHold,      \* how long a holder is observed to hold, in ticks
  Timely,       \* TRUE: no live holder holds longer than MaxHold
  MaxFaults     \* how many crashes and failing calls (EACCES, ENOSPC) there are

ASSUME NoFileAssumption == NoFile \notin [owner : Procs, age : Nat]
ASSUME TimeAssumption ==
  /\ Stale \in Nat \ {0}
  /\ Margin \in Nat \ {0}
  /\ MaxHold \in Nat
ASSUME SwitchAssumption ==
  /\ Timely \in BOOLEAN
  /\ MaxFaults \in Nat

VARIABLES
  lockFile,     \* NoFile, or the file at the lock path
  lk,           \* where each process is in acquireFileLock
  waited,       \* ticks since its call began: the deadline is MaxWait
  held,         \* ticks since its open(path, "wx") succeeded
  broken,       \* history: somebody unlinked a lock he judged stale
  faults        \* crashes and failing calls so far

vars == <<lockFile, lk, waited, held, broken, faults>>

MaxWait == Stale + Margin
Ages    == 0 .. Stale + 1         \* older than Stale + 1 is the same as Stale + 1
Files   == [owner : Procs, age : Ages]

Waiting == {"open", "age", "break", "sleep"}
Holding == {"write", "held"}
Steps   == Waiting \cup Holding \cup {"idle", "unavailable"}

Holders == {p \in Procs : lk[p] \in Holding}
Expired(p) == waited[p] = MaxWait          \* Date.now() >= deadline
Abandoned  == lockFile # NoFile /\ lockFile.age > Stale

Init ==
  /\ lockFile = NoFile
  /\ lk = [p \in Procs |-> "idle"]
  /\ waited = [p \in Procs |-> 0]
  /\ held = [p \in Procs |-> 0]
  /\ broken = FALSE
  /\ faults = 0

-----------------------------------------------------------------------------
Goto(p, step) == lk' = [lk EXCEPT ![p] = step]

ResetTimers(p) ==
  /\ waited' = [waited EXCEPT ![p] = 0]
  /\ held' = [held EXCEPT ![p] = 0]

\* acquireFileLock is called and mkdir succeeds.
Begin(p) ==
  /\ lk[p] = "idle"
  /\ Goto(p, "open")
  /\ ResetTimers(p)
  /\ UNCHANGED <<lockFile, broken, faults>>

\* mkdir, or open for a reason other than EEXIST, fails: "unwritable".
Unwritable(p) ==
  /\ faults < MaxFaults
  /\ faults' = faults + 1
  /\ lk[p] \in {"idle", "open"}
  /\ Goto(p, "unavailable")
  /\ UNCHANGED <<lockFile, waited, held, broken>>

\* A mutation of CreateFile: open(path, "w") in place of "wx".
CreateFileNotExclusive(p) ==
  /\ lk[p] = "open"
  /\ lockFile' = [owner |-> p, age |-> 0]
  /\ Goto(p, "write")
  /\ ResetTimers(p)
  /\ UNCHANGED <<broken, faults>>

\* A mutation of CreateFile: a file without a timestamp is infinitely old.
CreateFileUndated(p) ==
  /\ lk[p] = "open"
  /\ lockFile = NoFile
  /\ lockFile' = [owner |-> p, age |-> Stale + 2]
  /\ Goto(p, "write")
  /\ ResetTimers(p)
  /\ UNCHANGED <<broken, faults>>

\* open(path, "wx") creates the file.
CreateFile(p) ==
  /\ lk[p] = "open"
  /\ lockFile = NoFile
  /\ lockFile' = [owner |-> p, age |-> 0]
  /\ Goto(p, "write")
  /\ ResetTimers(p)
  /\ UNCHANGED <<broken, faults>>

\* The payload carries a fresh acquiredAt.  It goes to the file p created,
\* which is at the lock path only as long as nobody has unlinked it.
WritePayload(p) ==
  /\ lk[p] = "write"
  /\ lockFile' = IF lockFile # NoFile /\ lockFile.owner = p
                 THEN [lockFile EXCEPT !.age = 0] ELSE lockFile
  /\ Goto(p, "held")
  /\ UNCHANGED <<waited, held, broken, faults>>

\* The write fails after the create: the caller goes on without the lock, and
\* the file stays behind with nobody to release it.
WriteFails(p) ==
  /\ faults < MaxFaults
  /\ faults' = faults + 1
  /\ lk[p] = "write"
  /\ Goto(p, "unavailable")
  /\ UNCHANGED <<lockFile, waited, held, broken>>

\* open(path, "wx") fails with EEXIST.
CreateRefused(p) ==
  /\ lk[p] = "open"
  /\ lockFile # NoFile
  /\ Goto(p, "age")
  /\ UNCHANGED <<lockFile, waited, held, broken, faults>>

\* A mutation of ReadAge: a live lock is waited for without looking at the
\* deadline.
ReadAgeNoDeadline(p) ==
  /\ lk[p] = "age"
  /\ Goto(p, IF lockFile = NoFile THEN "open"
             ELSE IF Abandoned THEN "break" ELSE "sleep")
  /\ UNCHANGED <<lockFile, waited, held, broken, faults>>

\* A mutation of ReadAge: the age is compared with >= in place of >.
ReadAgeTooEager(p) ==
  /\ lk[p] = "age"
  /\ Goto(p, IF lockFile = NoFile THEN "open"
             ELSE IF lockFile.age >= Stale THEN "break"
             ELSE IF Expired(p) THEN "unavailable" ELSE "sleep")
  /\ UNCHANGED <<lockFile, waited, held, broken, faults>>

\* A mutation of ReadAge: an old lock is waited for, never broken.
ReadAgeNeverBreaks(p) ==
  /\ lk[p] = "age"
  /\ Goto(p, IF Expired(p) THEN "unavailable"
             ELSE IF lockFile = NoFile THEN "open" ELSE "sleep")
  /\ UNCHANGED <<lockFile, waited, held, broken, faults>>

\* lockAgeMs, and the branch taken on what it returns.  A payload that is not
\* there yet makes it fall back to the file's mtime, which ages the same.
ReadAge(p) ==
  /\ lk[p] = "age"
  /\ \/ /\ Abandoned
        /\ Goto(p, "break")
     \/ /\ ~Abandoned
        /\ Expired(p)
        /\ Goto(p, "unavailable")
     \/ /\ ~Abandoned
        /\ ~Expired(p)
        /\ Goto(p, IF lockFile = NoFile THEN "open" ELSE "sleep")
  /\ UNCHANGED <<lockFile, waited, held, broken, faults>>

\* unlink(lockPath) of the lock judged stale: by path, so it removes whatever
\* file is there by now.  It fails when there is none.
BreakLock(p) ==
  /\ lk[p] = "break"
  /\ lockFile' = NoFile
  /\ broken' = (broken \/ lockFile # NoFile)
  /\ Goto(p, IF Expired(p) THEN "unavailable"
             ELSE IF lockFile = NoFile THEN "sleep" ELSE "open")
  /\ UNCHANGED <<waited, held, faults>>

\* sleep(pollIntervalMs) is over.
WakeUp(p) ==
  /\ lk[p] = "sleep"
  /\ Goto(p, "open")
  /\ UNCHANGED <<lockFile, waited, held, broken, faults>>

\* FileLock.release of a lock that was acquired: unlink by path, errors
\* swallowed, whoever created the file.
Release(p) ==
  /\ lk[p] = "held"
  /\ lockFile' = NoFile
  /\ Goto(p, "idle")
  /\ ResetTimers(p)
  /\ UNCHANGED <<broken, faults>>

\* FileLock.release of a lock that was not acquired does nothing.
ReleaseNothing(p) ==
  /\ lk[p] = "unavailable"
  /\ Goto(p, "idle")
  /\ ResetTimers(p)
  /\ UNCHANGED <<lockFile, broken, faults>>

-----------------------------------------------------------------------------
\* The process dies; what it left in the file system stays.
Crash(p) ==
  /\ faults < MaxFaults
  /\ lk[p] # "idle"
  /\ faults' = faults + 1
  /\ Goto(p, "idle")
  /\ ResetTimers(p)
  /\ UNCHANGED <<lockFile, broken>>

\* One unit of time.  Counters saturate where the code stops telling values
\* apart; with Timely, time waits for a holder that has used up MaxHold.
Saturate(n, max) == IF n < max THEN n + 1 ELSE max

Tick ==
  /\ Timely => \A p \in Holders : held[p] < MaxHold
  /\ lockFile' = IF lockFile = NoFile THEN NoFile
                 ELSE [lockFile EXCEPT !.age = Saturate(lockFile.age, Stale + 1)]
  /\ waited' = [p \in Procs |-> IF lk[p] \in Waiting
                                THEN Saturate(waited[p], MaxWait) ELSE waited[p]]
  /\ held' = [p \in Procs |-> IF lk[p] \in Holding
                              THEN Saturate(held[p], MaxHold) ELSE held[p]]
  /\ UNCHANGED <<lk, broken, faults>>

-----------------------------------------------------------------------------
\* The steps of a call that has begun, up to holding the lock or giving up.
Acquiring(p) ==
  \/ CreateFile(p) \/ WritePayload(p) \/ CreateRefused(p)
  \/ ReadAge(p) \/ BreakLock(p) \/ WakeUp(p)

Failing(p) == Unwritable(p) \/ WriteFails(p)

Leaving(p) == Release(p) \/ ReleaseNothing(p)

Next ==
  \/ \E p \in Procs : \/ Begin(p) \/ Acquiring(p) \/ Failing(p)
                      \/ Leaving(p) \/ Crash(p)
  \/ Tick

Spec == Init /\ [][Next]_vars

\* The event loop of a live process runs its continuations, and time passes.
\* Nothing obliges a process to call acquireFileLock, to fail or to crash.
Fairness ==
  /\ \A p \in Procs : WF_vars(Acquiring(p)) /\ WF_vars(Leaving(p))
  /\ WF_vars(Tick)

FairSpec == Spec /\ Fairness

\* With callers that keep coming, as the chats of a running client do.
BusySpec == FairSpec /\ \A p \in Procs : WF_vars(Begin(p))

-----------------------------------------------------------------------------
(***************************************************************************)
(* Properties                                                              *)
(***************************************************************************)

\* The variables keep their types (lock.ts has no state of its own: these are
\* the file and the locals of each call).
TypeOK ==
  /\ lockFile \in Files \cup {NoFile}
  /\ lk \in [Procs -> Steps]
  /\ waited \in [Procs -> 0 .. MaxWait]
  /\ held \in [Procs -> 0 .. MaxHold]
  /\ broken \in BOOLEAN
  /\ faults \in 0 .. MaxFaults

\* Two processes never hold the lock at once.  This is what the caller counts
\* on; lock.ts can give it only while no lock file is judged abandoned.
Mutex == \A p, q \in Holders : p = q

\* Whatever crashes, failures and delays there are, two processes hold the
\* lock at once only after somebody has broken a lock file (the unlink of
\* lock.ts:164): creation and release alone never let a second one in.
MutexUntilBroken == ~broken => Mutex

\* The file of a holder that is alive stays until that holder removes it
\* (lock.ts:6-11: "so a slow-but-alive holder is never robbed of its lock").
LiveHolderKeepsFile ==
  [][\A p \in Procs :
       (p \in Holders /\ p \in Holders' /\ lockFile # NoFile /\ lockFile.owner = p)
       => (lockFile' # NoFile /\ lockFile'.owner = p)]_vars

\* A call of acquireFileLock comes back, with the lock or without it, however
\* long others hold the lock and however often it changes hands.
CallReturns ==
  \A p \in Procs : lk[p] \in Waiting ~> lk[p] \notin Waiting

\* A file left behind by a process that died (or whose write failed) does not
\* lock the others out for good: as long as calls keep coming it is removed.
Orphaned == lockFile # NoFile /\ lockFile.owner \notin Holders

OrphanRemoved == Orphaned ~> ~Orphaned

\* The circumstances lock.ts is written for: a holder is done before its file
\* reaches staleMs, and nobody dies holding it.
Benign == Timely /\ MaxHold <= Stale /\ MaxFaults = 0

\* With timely holders, no crashes and no failing writes the file is a real
\* mutual exclusion: the processes that hold it behave as AdvisoryLock says.
Advisory == INSTANCE AdvisoryLock WITH inside <- Holders
ImplementsAdvisoryLock == Advisory!Spec
=============================================================================
