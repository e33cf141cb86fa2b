----------------------------- MODULE MC_Broker -----------------------------
(* Instances of Broker for TLC: nothing tells sockets, command ids, browsers *)
(* or remote agents apart.                                                   *)
EXTENDS Broker, TLC

Symmetry == Permutations(Conns) \cup Permutations(Reqs) \cup Permutations(Browsers)
            \cup Permutations(Agents \ Locals)
=============================================================================
