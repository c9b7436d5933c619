---------------------------- MODULE MCNewsGuard ----------------------------
(* The domestic engine with its warming thread, and the page. *)
EXTENDS NewsGuard

OneDirectory == [o \in Owner |-> "state"]
============================================================================
