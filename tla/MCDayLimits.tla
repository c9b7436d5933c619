---------------------------- MODULE MCDayLimits ----------------------------
(***************************************************************************)
(* Small instances of DayLimits for TLC.  The symbols are interchangeable. *)
(* The tables of the ledger, whose last week is a number in DayLimits, are *)
(* compared with what they are meant to be.                                *)
(***************************************************************************)
EXTENDS DayLimits, Accounts

Shuffles == Permutations(Symbols)
OneLoss == {-1, 0}

Practice == {"paper", "sim"}
Trading == {"live"}

\* Two days of one month and one of the next year; balances missing, of one day, and written late.
Dates == {20261229, 20261230, 20270104}
SomeTrades == TradeRows(Practice, Dates, {"a", "b"}, {-3, 2})
Balance(date, n) == [mode |-> "paper", date |-> date, allocation |-> n]
Balances == {<<>>, <<Balance(20261230, 10)>>, <<Balance(20270104, 20), Balance(20261229, 10)>>}
Ledgers == [trades : BoundedSeq(SomeTrades, 3), equity : Balances]

ASSUME TablesAgree ==
    \A l \in Ledgers : SumsAgree(l) /\ DrawdownIsTheWorstRun(l) /\ OneMeasure(l)

Mixed == BoundedSeq(TradeRows(Practice \cup Trading, Dates, {"a"}, {-3}), 3)

ASSUME TradingIsKept ==
    \A rows \in Mixed : ResetKeeps([trades |-> rows, equity |-> <<>>], Practice, Trading)
============================================================================
