---------------------------- MODULE MCSideEngine ----------------------------
(* SideEngine with interchangeable symbols. *)
EXTENDS SideEngine, TLC

Symmetry == Permutations(Symbol)
==============================================================================
