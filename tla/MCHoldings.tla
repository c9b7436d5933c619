----------------------------- MODULE MCHoldings ------------------------------
(***************************************************************************)
(* The instance of Holdings that TLC checks: few enough shares and orders  *)
(* for all interleavings, enough for partial fills and a second OCO.       *)
(***************************************************************************)
EXTENDS Holdings
==============================================================================
