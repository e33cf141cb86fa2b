---------------------------- MODULE AdvisoryLock ----------------------------
(***************************************************************************)
(* What the token runtime is promised by its cross-process lock: at any    *)
(* time at most one process is inside.  A process that is not inside may   *)
(* have given up waiting; that is invisible here.                          *)
(***************************************************************************)
CONSTANT Procs

VARIABLE inside      \* the processes that hold the lock

Init == inside = {}

Enter(p) ==
  /\ inside = {}
  /\ inside' = {p}

Leave(p) ==
  /\ p \in inside
  /\ inside' = inside \ {p}

Next == \E p \in Procs : Enter(p) \/ Leave(p)

Spec == Init /\ [][Next]_inside
=============================================================================
