-------------------------- MODULE MC_ProviderSync --------------------------
(* Instances of ProviderSync for TLC: engines differ in nothing. *)
EXTENDS ProviderSync, TLC

Symmetry == Permutations(Engines)
=============================================================================
