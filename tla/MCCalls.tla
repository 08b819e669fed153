------------------------------ MODULE MCCalls ------------------------------
(* Calls with the bounds of the configurations. *)
EXTENDS Calls, TLC

Symmetry == Permutations(Numbers)
=============================================================================
