------------------------------ MODULE Accounts ------------------------------
(***************************************************************************)
(* What the ledger makes of its rows (ledger.py): the days, the months     *)
(* made of the days, the years made of the months, and the totals, the     *)
(* techniques and the modes made of the trades themselves.  The page shows *)
(* these tables side by side, so they had better agree.  Rates and         *)
(* averages, which only divide what is here, are left out.  A ledger is a  *)
(* record of the rows of its two tables, in the order they were written:   *)
(* a trade may be booked days late, by reconcile.                          *)
(***************************************************************************)
EXTENDS Integers, Sequences, FiniteSets, SequencesExt, FiniteSetsExt

TradeRows(modes, dates, techniques, results) ==
    [mode : modes, date : dates, technique : techniques, pnl : results]

\* Dates are numbers with the digits of the ISO date.
Month(date) == date \div 100
Year(month) == month \div 100

(* The rows of some modes, and what a reset of these modes leaves. *)
Of(l, ms) ==
    [trades |-> SelectSeq(l.trades, LAMBDA r : r.mode \in ms),
     equity |-> SelectSeq(l.equity, LAMBDA r : r.mode \in ms)]

Reset(l, ms) ==
    [trades |-> SelectSeq(l.trades, LAMBDA r : r.mode \notin ms),
     equity |-> SelectSeq(l.equity, LAMBDA r : r.mode \notin ms)]

------------------------------------------------------------------------------
\* The tables

Sum(rows) == FoldLeft(LAMBDA n, r : n + r.pnl, 0, rows)
Count(rows) == FoldLeft(LAMBDA n, r : n + r.trades, 0, rows)
Wins(rows) == Len(SelectSeq(rows, LAMBDA r : r.pnl > 0))
Rising(S) == SetToSortSeq(S, LAMBDA a, b : a < b)
RunningSum(rows, n) == Sum(SubSeq(rows, 1, n))

Best(rows) == Max({rows[i].pnl : i \in DOMAIN rows})
Worst(rows) == Min({rows[i].pnl : i \in DOMAIN rows})

(* The last row of equity of a date counts, 0 without one. *)
Allocation(l, d) ==
    LET rows == SelectSeq(l.equity, LAMBDA r : r.date = d)
    IN IF rows = <<>> THEN 0 ELSE Last(rows).allocation

(* The allocation that returns are measured against: the first there is    *)
(* among the days up to the n-th.                                          *)
Base(days, n) ==
    LET some == {i \in 1 .. n : days[i].allocation # 0}
    IN IF some = {} THEN 0 ELSE days[Min(some)].allocation

Daily(l) ==
    LET all == l.trades
        dates == Rising({all[i].date : i \in DOMAIN all})
        Day(d) == LET rows == SelectSeq(all, LAMBDA r : r.date = d)
                  IN [date |-> d, pnl |-> Sum(rows), trades |-> Len(rows), wins |-> Wins(rows),
                      allocation |-> Allocation(l, d)]
        days == [i \in DOMAIN dates |-> Day(dates[i])]
    IN [i \in DOMAIN days |->
          [date |-> days[i].date, pnl |-> days[i].pnl, trades |-> days[i].trades,
           wins |-> days[i].wins, allocation |-> days[i].allocation,
           cumulative |-> RunningSum(days, i), base |-> Base(days, i)]]

Monthly(l) ==
    LET days == Daily(l)
        months == Rising({Month(days[i].date) : i \in DOMAIN days})
        Rows(m) == SelectSeq(days, LAMBDA d : Month(d.date) = m)
        sums == [i \in DOMAIN months |-> [pnl |-> Sum(Rows(months[i]))]]
    IN [i \in DOMAIN months |->
          [month |-> months[i], pnl |-> sums[i].pnl, trades |-> Count(Rows(months[i])),
           days |-> Len(Rows(months[i])), best |-> Best(Rows(months[i])),
           worst |-> Worst(Rows(months[i])), cumulative |-> RunningSum(sums, i)]]

Yearly(l) ==
    LET days == Daily(l)
        months == Monthly(l)
        years == Rising({Year(months[i].month) : i \in DOMAIN months})
        Rows(y) == SelectSeq(months, LAMBDA m : Year(m.month) = y)
        DaysOf(y) == SelectSeq(days, LAMBDA d : Year(Month(d.date)) = y)
        sums == [i \in DOMAIN years |-> [pnl |-> Sum(Rows(years[i]))]]
    IN [i \in DOMAIN years |->
          [year |-> years[i], pnl |-> sums[i].pnl, trades |-> Count(Rows(years[i])),
           best |-> Best(DaysOf(years[i])), worst |-> Worst(DaysOf(years[i])),
           base |-> Base(days, Len(days)), cumulative |-> RunningSum(sums, i)]]

------------------------------------------------------------------------------
\* Drawdowns, and the tables made of trades

(* In the order of their exits, those of one time as they were written. *)
ByExit(rows) ==
    LET order == SetToSortSeq(DOMAIN rows, LAMBDA i, j :
                     rows[i].date < rows[j].date \/ (rows[i].date = rows[j].date /\ i < j))
    IN [n \in DOMAIN rows |-> rows[order[n]]]

Drawdown(rows) ==
    LET Step(c, r) == LET running == c.running + r.pnl
                          peak == Max({c.peak, running})
                      IN [running |-> running, peak |-> peak, mdd |-> Min({c.mdd, running - peak})]
    IN FoldLeft(Step, [running |-> 0, peak |-> 0, mdd |-> 0], ByExit(rows)).mdd

Totals(l) ==
    LET days == Daily(l) IN
    [trades |-> Len(l.trades), pnl |-> Sum(l.trades), mdd |-> Drawdown(l.trades),
     base |-> Base(days, Len(days)), days |-> Len(days)]

ByTechnique(l) ==
    [k \in {l.trades[i].technique : i \in DOMAIN l.trades} |->
        LET rows == SelectSeq(l.trades, LAMBDA r : r.technique = k)
        IN [trades |-> Len(rows), pnl |-> Sum(rows), mdd |-> Drawdown(rows)]]

ByMode(l) ==
    [m \in {l.trades[i].mode : i \in DOMAIN l.trades} |->
        LET rows == Of(l, {m}).trades IN [trades |-> Len(rows), pnl |-> Sum(rows)]]

------------------------------------------------------------------------------
\* What the tables are meant to be, of the rows of one group of modes

LastSum(table) == IF table = <<>> THEN 0 ELSE Last(table).cumulative
Total(table) == FoldSet(LAMBDA k, n : n + table[k].pnl, 0, DOMAIN table)

(* The tables of a page tell the same: the last line of the days, of the   *)
(* months and of the years, the techniques together and the modes together *)
(* are the total, trades and money.                                        *)
SumsAgree(l) ==
    LET t == Totals(l)
        tables == <<Daily(l), Monthly(l), Yearly(l)>>
        byTechnique == ByTechnique(l)
        byMode == ByMode(l)
    IN /\ \A i \in DOMAIN tables : LastSum(tables[i]) = t.pnl /\ Count(tables[i]) = t.trades
       /\ Total(byTechnique) = t.pnl
       /\ Total(byMode) = t.pnl

(* The drawdown is what the name says: the most that was lost over any run *)
(* of successive trades, in the order of their exits.                      *)
DrawdownIsTheWorstRun(l) ==
    LET rows == ByExit(l.trades)
        losses == {Sum(SubSeq(rows, i, j)) : i, j \in DOMAIN rows}
    IN Drawdown(l.trades) = Min({0} \cup losses)

(* Returns of the days, the years and the whole are measured against one   *)
(* allocation, beginning with the first day that has one, and the best and *)
(* the worst day that the months and the years show are the best and the   *)
(* worst of the days.                                                      *)
OneMeasure(l) ==
    LET days == Daily(l)
        results == {days[i].pnl : i \in DOMAIN days}
        years == Yearly(l)
        base == Totals(l).base
    IN days # <<>> =>
        /\ \A i \in DOMAIN days :
              days[i].base = IF \A k \in 1 .. i : days[k].allocation = 0 THEN 0 ELSE base
        /\ \A i \in DOMAIN years : years[i].base = base
        /\ \A table \in {Monthly(l), years} :
              /\ Max(results) = Max({table[i].best : i \in DOMAIN table})
              /\ Min(results) = Min({table[i].worst : i \in DOMAIN table})

(* Practice can be forgotten without a trace in the tables of real trading. *)
ResetKeeps(l, ms, others) ==
    LET kept == Of(Reset(l, ms), others) IN
    kept = Of(l, others) /\ Of(Reset(l, ms), ms).trades = <<>>
============================================================================
