-------------------------- MODULE MC_TokenRuntime ---------------------------
(* Two processes, the first with two callers, for TLC. *)
EXTENDS TokenRuntime, TLC

CONSTANTS p1, p2, c1, c2, c3

TwoCallers   == {c1, c3}
ThreeCallers == {c1, c2, c3}
RunsIn       == [c \in Callers |-> IF c = c3 THEN p2 ELSE p1]
Symmetric    == Permutations({c1, c2})
=============================================================================
