---------------------------- MODULE MCLiveOrders -----------------------------
(***************************************************************************)
(* LiveOrders for TLC: three orders of up to two shares.  Three ids let a  *)
(* buy be followed by a close and its chase, two shares make a partial     *)
(* fill.                                                                   *)
(***************************************************************************)
EXTENDS LiveOrders

ThreeOrders == 1 .. 3
==============================================================================
