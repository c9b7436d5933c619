------------------------------ MODULE MCQuotes ------------------------------
(* Two threads, and a call of each kind. *)
EXTENDS Quotes, TLC
Kinds == {"holdings", "prices", "rankings", "create_order"}
AccountOnly == {"holdings", "prices"}
=============================================================================
