-------------------------- MODULE MCMarketSession --------------------------
(* Three days: a holiday between two trading days. *)
EXTENDS MarketSession
=============================================================================
