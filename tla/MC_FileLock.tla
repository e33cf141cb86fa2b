---------------------------- MODULE MC_FileLock -----------------------------
(* Processes of FileLock as model values, for TLC. *)
EXTENDS FileLock, TLC

CONSTANTS p1, p2, p3

ThreeProcs == {p1, p2, p3}
=============================================================================
