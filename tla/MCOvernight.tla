----------------------------- MODULE MCOvernight -----------------------------
(* Overnight with two interchangeable symbols. *)
EXTENDS Overnight, TLC

Symmetry == Permutations(Symbol)
==============================================================================
