-------------------------- MODULE MCPaperAccount ---------------------------
(* Two symbols; amounts that every division of the model divides. *)
EXTENDS PaperAccount, TLC

Symmetry == Permutations(Symbol)
=============================================================================
