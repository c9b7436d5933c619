-------------------------- MODULE DayLimits_proofs ---------------------------
(***************************************************************************)
(* Proofs about DayLimits, for any number of symbols, any limits and any   *)
(* number of days and crashes.  The invariant relates the state in memory, *)
(* the file, and the locals of manage_positions and try_entries.           *)
(***************************************************************************)
EXTENDS DayLimits, Sums

\* What the arithmetic of the budget needs to know of the types.
Shape ==
    /\ state \in DailyState /\ disk \in DailyState
    /\ pc \in Control
    /\ todo \subseteq Symbols /\ current \subseteq Symbols
    /\ budget \in Nat
    /\ day \in 1 .. Days

\* In memory and in the file there are never too many positions.
Capped ==
    /\ Cardinality(state.held) <= MaxPositions
    /\ Cardinality(disk.held) <= MaxPositions

\* try_entries: the remaining budget is what is left once all is sold; a position
\* about to be registered has its place.
Buying ==
    /\ pc \in {"buying", "bought"} =>
         state.trades + Cardinality(state.held) + budget <= MaxTrades
    /\ pc = "bought" => budget > 0 /\ Cardinality(state.held) < MaxPositions

\* manage_positions looks at positions it still has, each of them once.
Selling ==
    /\ pc \in {"manage", "sold", "booked"} => todo \subseteq state.held
    /\ pc = "sold" => current \subseteq state.held \ todo

\* A halt is in the file.
Saved == state.halted => disk.halted /\ disk.date = state.date

Inv ==
    /\ Shape
    /\ TradesStayInBudget
    /\ Capped
    /\ Buying
    /\ Selling
    /\ Saved

\* Sets of symbols can be counted.
LEMMA Countable ==
  ASSUME NEW S, S \subseteq Symbols
  PROVE  IsFiniteSet(S) /\ Cardinality(S) \in Nat
BY LimitsAssumption, FS_Subset, FS_CardinalityType

\* The first state satisfies the invariant.
LEMMA InitInv == Init => Inv
BY LimitsAssumption, FS_EmptySet
DEF Init, Inv, Shape, TradesStayInBudget, Capped, Buying, Selling, Saved, NewDay, Nothing,
    DailyState, Control

\* The kill switch changes no count, and what it halts is saved.
LEMMA CheckKeeps ==
  ASSUME Inv, NEW saved \in BOOLEAN, CheckKillSwitch(saved)
  PROVE  /\ state' \in DailyState /\ disk' \in DailyState
         /\ state'.trades = state.trades /\ state'.held = state.held /\ state'.date = state.date
         /\ disk' \in {state', state, disk}
         /\ Saved'
         /\ state.halted => state'.halted
<1> USE DEF Inv, Shape, DailyState, Saved
<1>1. /\ state' = Checked /\ Checked \in DailyState
      /\ Checked.trades = state.trades /\ Checked.held = state.held /\ Checked.date = state.date
      /\ Checked.halted <=> state.halted \/ ~Clear
  BY DEF CheckKillSwitch, Checked
<1>2. disk' = IF ~Clear /\ ~state.halted THEN Checked ELSE IF saved THEN state ELSE disk
  BY DEF CheckKillSwitch
<1> QED
  BY <1>1, <1>2

\* So does a halt for another reason.
LEMMA HaltKeeps ==
  ASSUME Inv, Halt \/ NoHalt
  PROVE  /\ state' \in DailyState /\ disk' \in DailyState
         /\ state'.trades = state.trades /\ state'.held = state.held /\ state'.date = state.date
         /\ disk' \in {state', state, disk}
         /\ Saved'
         /\ state.halted => state'.halted
BY DEF Inv, Shape, DailyState, Saved, Halt, NoHalt

\* A step that changes no count leaves the limits alone.
LEMMA CountsKeep ==
  ASSUME Inv,
         state'.trades = state.trades, state'.held = state.held,
         disk' \in {state', state, disk}
  PROVE  TradesStayInBudget' /\ Capped'
BY DEF Inv, TradesStayInBudget, Capped

\* Dropping ghosts leaves fewer positions.
LEMMA DropKeeps ==
  ASSUME NEW STATE from, from \in DailyState, state' = Without(from)
  PROVE  /\ state' \in DailyState /\ state'.trades = from.trades /\ state'.date = from.date
         /\ state'.held \subseteq from.held /\ state'.halted = from.halted
         /\ Cardinality(state'.held) <= Cardinality(from.held)
<1>1. /\ Without(from) \in DailyState /\ Without(from).trades = from.trades
      /\ Without(from).date = from.date /\ Without(from).halted = from.halted
      /\ Without(from).held = from.held \cap owned
  <2>1. [s \in Symbols |-> IF s \in owned THEN from.banked[s] ELSE 0] \in [Symbols -> Int]
    BY DEF DailyState
  <2> QED
    BY <2>1 DEF Without, DailyState
<1>2. IsFiniteSet(from.held)
  BY Countable DEF DailyState
<1> QED
  BY <1>1, <1>2, FS_Subset

\* The invariant is inductive.
LEMMA StepInv == Inv /\ [Next]_vars => Inv'
<1> SUFFICES ASSUME Inv, [Next]_vars PROVE Inv'
  OBVIOUS
<1> USE DEF Inv
<1>0. /\ Cardinality(state.held) \in Nat /\ Cardinality(disk.held) \in Nat
      /\ IsFiniteSet(state.held) /\ IsFiniteSet(disk.held)
      /\ state.trades \in Nat /\ disk.trades \in Nat
  BY Countable DEF Shape, DailyState
\* A step that leaves the state and the file alone.
<1>1. ASSUME UNCHANGED <<state, disk>> PROVE TradesStayInBudget' /\ Capped' /\ Saved'
  BY <1>1 DEF TradesStayInBudget, Capped, Saved
<1>2. CASE Rollover
  <2>1. /\ state' = NewDay(day, state.held, state.banked) /\ disk' = state'
        /\ pc' = "top" /\ UNCHANGED <<day, todo, current, budget>>
    BY <1>2 DEF Rollover, loop
  <2>2. /\ state' \in DailyState /\ state'.trades = 0 /\ state'.held = state.held
        /\ state'.halted = FALSE
    BY <2>1 DEF NewDay, DailyState, Shape
  <2> QED
    BY <1>0, <2>1, <2>2, LimitsAssumption
    DEF Shape, TradesStayInBudget, Capped, Buying, Selling, Saved, Control
<1>3. CASE Begin
  BY <1>1, <1>3 DEF Begin, Shape, Control, Buying, Selling
<1>4. CASE Prices
  BY <1>1, <1>4 DEF Prices, Shape, Control, Buying, Selling, DailyState
<1>5. CASE NoPrices
  <2>1. (Halt \/ NoHalt) /\ pc' \in {"entries", "check"} /\ UNCHANGED <<loop, day>>
    BY <1>5 DEF NoPrices
  <2> QED
    BY <2>1, HaltKeeps, CountsKeep DEF Shape, Buying, Selling, Control, loop
<1>6. ASSUME NEW s \in Symbols, Keep(s) PROVE Inv'
  <2>1. /\ Halt \/ NoHalt
        /\ pc = "manage" /\ pc' = pc /\ todo' = todo \ {s}
        /\ UNCHANGED <<current, budget, day>>
    BY <1>6 DEF Keep
  <2> QED
    BY <2>1, HaltKeeps, CountsKeep DEF Shape, Buying, Selling, Control
<1>7. ASSUME NEW s \in Symbols, Sell(s) PROVE Inv'
  BY <1>1, <1>7 DEF Sell, Shape, Control, Buying, Selling
<1>8. ASSUME NEW s \in Symbols, NEW pnl \in Outcomes, SellPart(s, pnl) PROVE Inv'
  <2>1. /\ state' = [state EXCEPT !.realized = @ + pnl, !.banked[s] = pnl]
        /\ pnl \in Int /\ pc = "manage" /\ pc' = "booked" /\ todo' = todo \ {s}
        /\ UNCHANGED <<disk, current, budget, day>>
    BY <1>8, LimitsAssumption DEF SellPart
  <2>2. /\ state' \in DailyState /\ state'.trades = state.trades /\ state'.held = state.held
        /\ state'.halted = state.halted /\ state'.date = state.date
    <3> DEFINE b == [state.banked EXCEPT ![s] = pnl]
               r == state.realized + pnl
    <3>1. b \in [Symbols -> Int] /\ r \in Int
      BY <2>1 DEF Shape, DailyState
    <3>2. state' = [state EXCEPT !.realized = r, !.banked = b]
      BY <2>1 DEF Shape, DailyState
    <3> HIDE DEF b, r
    <3> QED
      BY <3>1, <3>2 DEF Shape, DailyState
  <2> QED
    BY <2>1, <2>2, CountsKeep DEF Shape, Buying, Selling, Saved, Control
<1>9. ASSUME NEW s \in Symbols, NEW pnl \in Outcomes, Book(s, pnl) PROVE Inv'
  <2> DEFINE total == pnl + state.banked[s]
  <2>1. /\ state' = [state EXCEPT !.trades = @ + 1,
                                  !.losses = IF total >= 0 THEN 0 ELSE @ + 1,
                                  !.realized = @ + pnl, !.held = @ \ {s}, !.banked[s] = 0]
        /\ pnl \in Int /\ pc = "sold" /\ pc' = "booked" /\ current = {s} /\ current' = {}
        /\ UNCHANGED <<disk, todo, budget, day>>
    BY <1>9, LimitsAssumption DEF Book
  <2> HIDE DEF total
  <2>2. /\ state' \in DailyState /\ state'.trades = state.trades + 1
        /\ state'.held = state.held \ {s}
        /\ state'.halted = state.halted /\ state'.date = state.date
    <3> DEFINE n == state.trades + 1
               b == [state.banked EXCEPT ![s] = 0]
               r == state.realized + pnl
               l == IF total >= 0 THEN 0 ELSE state.losses + 1
               h == state.held \ {s}
    <3>1. b \in [Symbols -> Int] /\ r \in Int /\ l \in Nat /\ n \in Nat /\ h \in SUBSET Symbols
      BY <2>1 DEF Shape, DailyState
    <3>2. state' = [state EXCEPT !.trades = n, !.losses = l, !.realized = r, !.held = h,
                                 !.banked = b]
      BY <2>1 DEF Shape, DailyState
    <3> HIDE DEF n, b, r, l, h
    <3>3. /\ state' \in DailyState /\ state'.trades = n /\ state'.held = h
          /\ state'.halted = state.halted /\ state'.date = state.date
      BY <3>1, <3>2 DEF Shape, DailyState
    <3> QED
      BY <3>3 DEF n, h
  <2>3. s \in state.held /\ s \notin todo /\ todo \subseteq state.held
    BY <2>1 DEF Selling
  <2>4. Cardinality(state'.held) = Cardinality(state.held) - 1
    BY <1>0, <2>2, <2>3, FS_RemoveElement
  <2> QED
    BY <1>0, <2>1, <2>2, <2>3, <2>4, LimitsAssumption
    DEF Shape, TradesStayInBudget, Capped, Buying, Selling, Saved, Control
<1>10. CASE SaveAndCheck
  <2>1. /\ CheckKillSwitch(TRUE) /\ pc = "booked" /\ pc' = "manage" /\ UNCHANGED <<loop, day>>
    BY <1>10 DEF SaveAndCheck
  <2> QED
    BY <2>1, CheckKeeps, CountsKeep DEF Shape, Buying, Selling, Control, loop
<1>11. CASE Managed
  BY <1>1, <1>11 DEF Managed, Shape, Control, Buying, Selling, loop
<1>12. CASE Check
  <2>1. /\ CheckKillSwitch(FALSE) /\ pc' \in {"query", "entries"}
        /\ UNCHANGED <<todo, current, budget, day>>
    BY <1>12 DEF Check
  <2> QED
    BY <2>1, CheckKeeps, CountsKeep DEF Shape, Buying, Selling, Control
<1>13. CASE SkipEntries
  BY <1>1, <1>13 DEF SkipEntries, Shape, Control, Buying, Selling, loop
<1>14. CASE TryEntries
  <2>1. /\ CheckKillSwitch(FALSE) /\ pc' \in {"buying", "reconcile"} /\ ~NoRoom
        /\ budget' = MaxTrades - state.trades - Cardinality(state.held)
        /\ UNCHANGED <<todo, current, day>>
    BY <1>14 DEF TryEntries
  <2>2. budget' \in Nat
    BY <1>0, <2>1, LimitsAssumption DEF NoRoom
  <2> QED
    <3>1. /\ state' \in DailyState /\ disk' \in DailyState
          /\ state'.trades = state.trades /\ state'.held = state.held
          /\ disk' \in {state', state, disk} /\ Saved'
      BY <2>1, CheckKeeps
    <3>2. TradesStayInBudget' /\ Capped'
      BY <3>1, CountsKeep
    <3> QED
      BY <1>0, <2>1, <2>2, <3>1, <3>2, LimitsAssumption DEF Shape, Buying, Selling, Control
<1>15. ASSUME NEW s \in Symbols, NotBought(s) PROVE Inv'
  <2>1. /\ Halt \/ NoHalt
        /\ pc = "buying" /\ pc' = pc /\ budget > 0 /\ budget' = budget - 1
        /\ UNCHANGED <<todo, current, day>>
    BY <1>15 DEF NotBought, MayBuy
  <2> QED
    BY <1>0, <2>1, LimitsAssumption, HaltKeeps, CountsKeep DEF Shape, Buying, Selling, Control
<1>16. ASSUME NEW s \in Symbols, Buy(s) PROVE Inv'
  BY <1>1, <1>16 DEF Buy, MayBuy, Shape, Control, Buying, Selling
<1>17. ASSUME NEW s \in Symbols, Register(s) PROVE Inv'
  <2>1. /\ state' = [state EXCEPT !.held = @ \cup {s}] /\ disk' = state'
        /\ pc = "bought" /\ pc' = "buying" /\ budget' = budget - 1 /\ current' = {}
        /\ UNCHANGED <<todo, day>>
    BY <1>17 DEF Register
  <2>2. /\ state' \in DailyState /\ state'.trades = state.trades
        /\ state'.held = state.held \cup {s}
        /\ state'.halted = state.halted /\ state'.date = state.date
    BY <2>1 DEF Shape, DailyState
  <2>3. /\ Cardinality(state'.held) \in Nat
        /\ Cardinality(state'.held) <= Cardinality(state.held) + 1
    BY <1>0, <2>2, FS_AddElement, Countable DEF DailyState
  <2> QED
    BY <1>0, <2>1, <2>2, <2>3, LimitsAssumption
    DEF Shape, TradesStayInBudget, Capped, Buying, Selling, Saved, Control
<1>18. CASE EntriesDone
  BY <1>1, <1>18 DEF EntriesDone, Shape, Control, Buying, Selling, loop
<1>19. CASE SkipReconcile
  BY <1>1, <1>19 DEF SkipReconcile, Shape, Control, Buying, Selling, loop
<1>20. ASSUME NEW gains \in [Symbols -> Outcomes], Reconcile(gains) PROVE Inv'
  <2>1. /\ state' = Without(state) /\ disk' \in {disk, state'} /\ pc' = "top"
        /\ Ghosts(state) # {} => disk' = state'
        /\ UNCHANGED <<loop, day>>
    BY <1>20 DEF Reconcile, DropGhosts
  <2>2. /\ state' \in DailyState /\ state'.trades = state.trades /\ state'.date = state.date
        /\ state'.halted = state.halted
        /\ Cardinality(state'.held) <= Cardinality(state.held)
        /\ Cardinality(state'.held) \in Nat
    BY <2>1, DropKeeps, Countable DEF Shape, DailyState
  <2> QED
    BY <1>0, <2>1, <2>2, LimitsAssumption
    DEF Shape, TradesStayInBudget, Capped, Buying, Selling, Saved, Control, loop
<1>21. ASSUME NEW gains \in [Symbols -> Outcomes], Restart(gains) PROVE Inv'
  <2>1. /\ state' = Without(Loaded) \/ state' = Loaded
        /\ disk' = state' /\ pc' = "top" /\ UNCHANGED <<loop, day>>
    BY <1>21 DEF Restart, DropGhosts
  <2>2. /\ Loaded \in DailyState /\ Loaded.trades <= disk.trades /\ Loaded.trades \in Nat
        /\ Loaded.held = disk.held
    BY <1>0 DEF Loaded, NewDay, Shape, DailyState
  <2>3. /\ state' \in DailyState /\ state'.trades = Loaded.trades
        /\ Cardinality(state'.held) <= Cardinality(Loaded.held)
        /\ Cardinality(state'.held) \in Nat
    BY <1>0, <2>1, <2>2, DropKeeps, Countable DEF DailyState
  <2> QED
    BY <1>0, <2>1, <2>2, <2>3, LimitsAssumption
    DEF Shape, TradesStayInBudget, Capped, Buying, Selling, Saved, Control, loop
<1>22. ASSUME NEW s \in Symbols, SoldOutside(s) PROVE Inv'
  BY <1>1, <1>22 DEF SoldOutside, Shape, Buying, Selling, loop
<1>23. CASE TimePasses
  BY <1>1, <1>23 DEF TimePasses, Shape, Buying, Selling, loop
<1>24. CASE Midnight
  BY <1>1, <1>24, LimitsAssumption DEF Midnight, Shape, Buying, Selling, loop
<1>25. CASE Crash
  BY <1>1, <1>25 DEF Crash, Shape, Control, Buying, Selling
<1>26. CASE CacheExpires
  BY <1>1, <1>26 DEF CacheExpires, Shape, Buying, Selling, loop
<1>27. CASE UNCHANGED vars
  BY <1>1, <1>27 DEF vars, Shape, Buying, Selling
<1> QED
  BY <1>2, <1>3, <1>4, <1>5, <1>6, <1>7, <1>8, <1>9, <1>10, <1>11, <1>12, <1>13, <1>14, <1>15,
     <1>16, <1>17, <1>18, <1>19, <1>20, <1>21, <1>22, <1>23, <1>24, <1>25, <1>26, <1>27 DEF Next

\* The invariant holds, with the two limits in it.
LEMMA InvHolds == Spec => []Inv
BY InitInv, StepInv, PTL DEF Spec

(***************************************************************************)
(* try_entries and _close_position: what is held can be sold within        *)
(* daily_max_trades, whatever fails, crashes or is sold elsewhere.         *)
(***************************************************************************)
THEOREM BudgetCorrect == Spec => []TradesStayInBudget
BY InvHolds, PTL DEF Inv

(***************************************************************************)
(* try_entries: never more than max_positions.                             *)
(***************************************************************************)
THEOREM CapCorrect == Spec => []PositionsStayInCap
<1>1. Inv => PositionsStayInCap
  BY DEF Inv, Capped, PositionsStayInCap
<1> QED
  BY InvHolds, <1>1, PTL

(***************************************************************************)
(* _halt and DailyState: a halt outlives every restart of its day.         *)
(***************************************************************************)
THEOREM HaltCorrect == Spec => HaltLastsTheDay
<1>1. Inv /\ [Next]_vars => [state.halted /\ state'.date = state.date => state'.halted]_vars
  <2> SUFFICES ASSUME Inv, Next, state.halted, state'.date = state.date PROVE state'.halted
    OBVIOUS
  <2> USE DEF Inv
  <2>1. ASSUME UNCHANGED state PROVE state'.halted
    BY <2>1
  <2>2. CASE Rollover
    BY <2>2 DEF Rollover, NewDay
  <2>3. ASSUME Halt \/ NoHalt PROVE state'.halted
    BY <2>3, HaltKeeps
  <2>4. ASSUME NEW saved \in BOOLEAN, CheckKillSwitch(saved) PROVE state'.halted
    BY <2>4, CheckKeeps
  <2>5. ASSUME NEW s \in Symbols, NEW pnl \in Outcomes, SellPart(s, pnl) PROVE state'.halted
    BY <2>5 DEF SellPart, Shape, DailyState
  <2>6. ASSUME NEW s \in Symbols, NEW pnl \in Outcomes, Book(s, pnl) PROVE state'.halted
    BY <2>6 DEF Book, Shape, DailyState
  <2>7. ASSUME NEW s \in Symbols, Register(s) PROVE state'.halted
    BY <2>7 DEF Register, Shape, DailyState
  <2>8. ASSUME NEW gains \in [Symbols -> Outcomes], Reconcile(gains) PROVE state'.halted
    BY <2>8, DropKeeps DEF Reconcile, DropGhosts, Shape
  <2>9. ASSUME NEW gains \in [Symbols -> Outcomes], Restart(gains) PROVE state'.halted
    <3>1. state' = Without(Loaded) \/ state' = Loaded
      BY <2>9 DEF Restart, DropGhosts
    <3>2. Loaded \in DailyState /\ Loaded.date = day /\ (disk.date = day => Loaded = disk)
      BY DEF Loaded, NewDay, Shape, DailyState
    <3>3. state'.halted = Loaded.halted /\ state'.date = Loaded.date
      BY <3>1, <3>2, DropKeeps
    <3> QED
      BY <3>2, <3>3 DEF Saved
  <2> QED
    BY <2>1, <2>2, <2>3, <2>4, <2>5, <2>6, <2>7, <2>8, <2>9
    DEF Next, Begin, Prices, NoPrices, Keep, Sell, SaveAndCheck, Managed, Check, SkipEntries,
        TryEntries, NotBought, Buy, EntriesDone, SkipReconcile, SoldOutside, TimePasses,
        CacheExpires,
        Midnight, Crash
<1> QED
  BY InvHolds, <1>1, PTL DEF HaltLastsTheDay, Spec
------------------------------------------------------------------------------
\* The limits on losses

\* Money is counted in integers, and what is not held is worth nothing.
Money ==
    /\ ledger \in Int /\ cache \subseteq Int
    /\ mark \in [Symbols -> Marks]
    /\ \A s \in Symbols \ state.held : mark[s] = 0

\* None of the limits is reached, nor was the weekly one when the ledger was read.
Within ==
    /\ \A pnl \in cache : pnl > -WeeklyLimit
    /\ state.realized + Unrealized > -DailyLimit
    /\ state.losses >= MaxLosses => ReduceAfterLoss \/ cooled

\* What try_entries found out when it began is true until it ends.
Guarded == pc \in {"buying", "bought"} => Within

\* The kill switch lets a pass begin only within the limits.
LEMMA ClearIsWithin ==
  ASSUME Inv, Money, CheckKillSwitch(FALSE), Clear, UNCHANGED <<mark, cooled>>
  PROVE  Within'
<1>1. state' = Checked /\ cache' = {WeeklyPnl} /\ state'.held = state.held
  BY CheckKeeps DEF CheckKillSwitch
<1>2. WeeklyPnl \in Int /\ WeeklyLimit \in Int /\ DailyLimit \in Int
  <2>1. cache # {} => (CHOOSE pnl \in cache : TRUE) \in cache
    OBVIOUS
  <2>2. WeeklyPnl \in Int
    BY <2>1 DEF Money, WeeklyPnl
  <2> QED
    BY <2>2, LimitsAssumption
<1>3. \A pnl \in cache' : pnl > -WeeklyLimit
  BY <1>1, <1>2 DEF Clear, WeeklyHit
<1>4. /\ state.realized \in Int /\ state.losses \in Nat
      /\ state'.realized = state.realized
      /\ state'.losses = IF Resumes THEN 0 ELSE state.losses
  BY <1>1 DEF Inv, Shape, DailyState, Checked
<1>5. Unrealized' = Unrealized
  BY <1>1 DEF Unrealized
<1>6. Unrealized \in Int
  <2>1. IsFiniteSet(state.held) /\ \A s \in state.held : mark[s] \in Int
    BY Countable, LimitsAssumption DEF Inv, Shape, DailyState, Money
  <2> QED
    BY <2>1, SumType DEF Unrealized
<1>7. state'.realized + Unrealized' > -DailyLimit
  BY <1>2, <1>4, <1>5, <1>6 DEF Clear, DailyHit
<1>8. state'.losses >= MaxLosses => ReduceAfterLoss \/ cooled'
  BY <1>4, LimitsAssumption DEF Clear, Resumes, LossesHit
<1> QED
  BY <1>3, <1>7, <1>8 DEF Within

\* A position that is new has gained and lost nothing.
LEMMA NewIsWorthless ==
  ASSUME Inv, Money, NEW s \in Symbols, state'.held = state.held \cup {s}, UNCHANGED mark
  PROVE  Unrealized' = Unrealized
<1>1. CASE s \in state.held
  BY <1>1 DEF Unrealized
<1>2. CASE s \notin state.held
  <2>1. IsFiniteSet(state'.held) /\ \A x \in state'.held : mark[x] \in Int
    <3>1. state'.held \subseteq Symbols
      BY DEF Inv, Shape, DailyState
    <3> QED
      BY <3>1, Countable, LimitsAssumption DEF Money
  <2>2. state'.held \ {s} = state.held /\ mark[s] = 0
    BY <1>2 DEF Money
  <2>3. SumFunctionOnSet(mark, state'.held) = 0 + SumFunctionOnSet(mark, state.held)
    BY <2>1, <2>2, SumRemove
  <2>4. SumFunctionOnSet(mark, state.held) \in Int
    <3>1. IsFiniteSet(state.held)
      BY Countable DEF Inv, Shape, DailyState
    <3> QED
      BY <2>1, <3>1, SumType
  <2> QED
    BY <2>3, <2>4 DEF Unrealized
<1> QED
  BY <1>1, <1>2

\* What reconcile drops is worth a number.
LEMMA GainType ==
  ASSUME NEW gains \in [Symbols -> Outcomes], NEW from \in DailyState
  PROVE  Gain(gains, Ghosts(from)) \in Int
<1>1. Ghosts(from) \subseteq Symbols
  BY DEF Ghosts, DailyState
<1>2. IsFiniteSet(Ghosts(from)) /\ \A s \in Ghosts(from) : gains[s] \in Int
  BY <1>1, Countable, LimitsAssumption
<1> QED
  BY <1>2, SumType DEF Gain

LEMMA MoneyStep == Inv /\ Money /\ [Next]_vars => Money'
<1> SUFFICES ASSUME Inv, Money, [Next]_vars PROVE Money'
  OBVIOUS
\* A step that moves no money.
<1>1. ASSUME UNCHANGED <<ledger, cache, mark>>, state'.held = state.held PROVE Money'
  BY <1>1 DEF Money
<1>2. CASE Rollover
  BY <1>1, <1>2 DEF Rollover, NewDay
<1>3. CASE Prices
  BY <1>3 DEF Prices, Money
<1>4. ASSUME Halt \/ NoHalt, UNCHANGED <<ledger, cache, mark>> PROVE Money'
  BY <1>1, <1>4, HaltKeeps
<1>5. ASSUME NEW s \in Symbols, NEW pnl \in Outcomes, SellPart(s, pnl) PROVE Money'
  <2>1. state'.held = state.held
    BY <1>5 DEF SellPart, Inv, Shape, DailyState
  <2> QED
    BY <1>5, <2>1 DEF SellPart, Money
<1>6. ASSUME NEW s \in Symbols, NEW pnl \in Outcomes, Book(s, pnl) PROVE Money'
  <2>1. state'.held = state.held \ {s}
    BY <1>6 DEF Book, Inv, Shape, DailyState
  <2>2. ledger' \in Int
    <3>1. pnl \in Int /\ state.banked[s] \in Int
      BY LimitsAssumption DEF Inv, Shape, DailyState
    <3> QED
      BY <1>6, <3>1 DEF Book, Money
  <2>3. mark' = [mark EXCEPT ![s] = 0] /\ cache' \subseteq Int
    BY <1>6 DEF Book, Money
  <2> QED
    BY <2>1, <2>2, <2>3, LimitsAssumption DEF Money
<1>7. ASSUME NEW saved \in BOOLEAN, CheckKillSwitch(saved), UNCHANGED <<ledger, mark>> PROVE Money'
  <2>1. state'.held = state.held
    BY <1>7, CheckKeeps
  <2>2. cache' \subseteq Int
    BY <1>7 DEF CheckKillSwitch, WeeklyPnl, Money
  <2> QED
    BY <1>7, <2>1, <2>2 DEF Money
<1>8. ASSUME NEW s \in Symbols, Register(s) PROVE Money'
  <2>1. state'.held = state.held \cup {s}
    BY <1>8 DEF Register, Inv, Shape, DailyState
  <2> QED
    BY <1>8, <2>1 DEF Register, Money
<1>9. ASSUME NEW gains \in [Symbols -> Outcomes], Reconcile(gains) PROVE Money'
  <2>1. state'.held = state.held \cap owned /\ UNCHANGED cache
    BY <1>9 DEF Reconcile, DropGhosts, Without, Inv, Shape, DailyState
  <2>2. ledger' \in Int
    BY <1>9, GainType DEF Reconcile, DropGhosts, Money, Inv, Shape
  <2>3. mark' = [s \in Symbols |-> IF s \in owned THEN mark[s] ELSE 0]
    BY <1>9 DEF Reconcile
  <2> QED
    BY <2>1, <2>2, <2>3, LimitsAssumption DEF Money
<1>10. ASSUME NEW gains \in [Symbols -> Outcomes], Restart(gains) PROVE Money'
  <2>1. Loaded \in DailyState
    BY DEF Loaded, NewDay, Inv, Shape, DailyState
  <2>2. ledger' \in Int
    BY <1>10, <2>1, GainType DEF Restart, DropGhosts, Money
  <2> QED
    BY <1>10, <2>2 DEF Restart, Money
<1>11. CASE Midnight
  BY <1>11 DEF Midnight, Money
<1>12. CASE Crash
  BY <1>12 DEF Crash, Money
<1>13. CASE CacheExpires
  BY <1>13 DEF CacheExpires, Money
<1> QED
  BY <1>1, <1>2, <1>3, <1>4, <1>5, <1>6, <1>7, <1>8, <1>9, <1>10, <1>11, <1>12, <1>13
  DEF Next, vars, risk, Begin, NoPrices, Keep, Sell, SaveAndCheck, Managed, Check, SkipEntries,
      TryEntries, NotBought, Buy, EntriesDone, SkipReconcile, SoldOutside, TimePasses

LEMMA GuardedStep == Inv /\ Money /\ Guarded /\ [Next]_vars => Guarded'
<1> SUFFICES ASSUME Inv, Money, Guarded, [Next]_vars, pc' \in {"buying", "bought"} PROVE Within'
  BY DEF Guarded
\* Nothing within a pass makes the losses larger.
<1>1. ASSUME Within, mark' = mark, cooled' = cooled, cache' \subseteq cache,
             Unrealized' = Unrealized,
             state'.realized = state.realized, state'.losses = state.losses
      PROVE  Within'
  BY <1>1 DEF Within
<1>2. CASE TryEntries
  BY <1>2, ClearIsWithin DEF TryEntries
<1>3. ASSUME NEW s \in Symbols, NotBought(s) PROVE Within'
  <2>1. /\ state'.realized = state.realized /\ state'.losses = state.losses
        /\ state'.held = state.held
    BY <1>3 DEF NotBought, Halt, NoHalt, Inv, Shape, DailyState
  <2> QED
    BY <1>1, <1>3, <2>1 DEF NotBought, MayBuy, Guarded, Unrealized
<1>4. ASSUME NEW s \in Symbols, Buy(s) PROVE Within'
  BY <1>1, <1>4 DEF Buy, MayBuy, Guarded, Unrealized, risk
<1>5. ASSUME NEW s \in Symbols, Register(s) PROVE Within'
  <2>1. /\ state'.realized = state.realized /\ state'.losses = state.losses
        /\ state'.held = state.held \cup {s}
    BY <1>5 DEF Register, Inv, Shape, DailyState
  <2> QED
    BY <1>1, <1>5, <2>1, NewIsWorthless DEF Register, Guarded
<1>6. ASSUME NEW s \in Symbols, SoldOutside(s) PROVE Within'
  BY <1>1, <1>6 DEF SoldOutside, Guarded, Unrealized, risk
<1>7. CASE CacheExpires
  BY <1>1, <1>7 DEF CacheExpires, Guarded, Unrealized
<1>8. CASE UNCHANGED vars
  BY <1>1, <1>8 DEF vars, Guarded, Unrealized
<1> QED
  BY <1>2, <1>3, <1>4, <1>5, <1>6, <1>7, <1>8
  DEF Next, Rollover, Begin, Prices, NoPrices, Keep, Sell, SellPart, Book, SaveAndCheck, Managed,
      Check, SkipEntries, EntriesDone, SkipReconcile, Reconcile, Restart, TimePasses, Midnight,
      Crash

(***************************************************************************)
(* _check_kill_switch and try_entries: nothing is bought while a limit on  *)
(* losses is reached, the losses of what is still held among them, however *)
(* many were bought since the check and whatever was sold elsewhere.       *)
(***************************************************************************)
THEOREM OpensCorrect == Spec => OpensWithinLimits
<1>1. Init => Money /\ Guarded
  BY LimitsAssumption DEF Init, Money, Guarded, NewDay, Nothing
<1>2. Money /\ Guarded /\ Inv
      => (Opens => /\ cache = {ledger} => ledger > -WeeklyLimit
                   /\ state.realized + Unrealized > -DailyLimit
                   /\ state.losses >= MaxLosses => ReduceAfterLoss \/ cooled)
  BY DEF Opens, Guarded, Within
<1> QED
  BY <1>1, <1>2, InvHolds, MoneyStep, GuardedStep, PTL DEF Spec, OpensWithinLimits
------------------------------------------------------------------------------
\* Types

\* What no limit depends on.
Counts ==
    /\ owned \subseteq Symbols
    /\ failures \in 0 .. DegradeAfter
    /\ dropped \in Nat
    /\ crashes \in 0 .. MaxCrashes

Flags == forced \in BOOLEAN /\ cooled \in BOOLEAN

LEMMA BoundsAreNat == DegradeAfter \in Nat /\ MaxCrashes \in Nat
BY LimitsAssumption

\* What reconcile drops is counted.
LEMMA GhostsCounted ==
  ASSUME NEW from \in DailyState
  PROVE  Cardinality(Ghosts(from)) \in Nat
BY Countable DEF Ghosts, DailyState

LEMMA CountsStep == Inv /\ Counts /\ [Next]_vars => Counts'
<1> SUFFICES ASSUME Inv, Counts, [Next]_vars PROVE Counts'
  OBVIOUS
<1> USE DEF Counts
\* A step that counts nothing.
<1>1. ASSUME UNCHANGED <<owned, failures, dropped, crashes>> PROVE Counts'
  BY <1>1
<1>2. CASE Midnight
  BY <1>2 DEF Midnight
<1>3. CASE Prices \/ NoPrices
  <2>1. UNCHANGED <<owned, dropped, crashes>>
    BY <1>3 DEF Prices, NoPrices, loop
  <2>2. failures' \in {0, failures, failures + 1} /\ (failures' = failures + 1 => ~Degraded)
    BY <1>3 DEF Prices, NoPrices
  <2> QED
    BY <2>1, <2>2, BoundsAreNat DEF Degraded
<1>4. CASE Crash
  BY <1>4, BoundsAreNat DEF Crash
<1>5. ASSUME NEW s \in Symbols, Sell(s) \/ Buy(s) \/ SoldOutside(s) PROVE Counts'
  BY <1>5 DEF Sell, Buy, SoldOutside, risk, loop
<1>6. ASSUME NEW s \in Symbols, NEW pnl \in Outcomes, Book(s, pnl) PROVE Counts'
  BY <1>6 DEF Book
<1>7. ASSUME NEW gains \in [Symbols -> Outcomes], Reconcile(gains) PROVE Counts'
  <2>1. Cardinality(Ghosts(state)) \in Nat
    BY GhostsCounted DEF Inv, Shape
  <2> QED
    BY <1>7, <2>1 DEF Reconcile, DropGhosts, loop
<1>8. ASSUME NEW gains \in [Symbols -> Outcomes], Restart(gains) PROVE Counts'
  <2>1. Loaded \in DailyState
    BY DEF Loaded, NewDay, Inv, Shape, DailyState
  <2>2. Cardinality(Ghosts(Loaded)) \in Nat
    BY <2>1, GhostsCounted
  <2> QED
    BY <1>8, <2>2 DEF Restart, DropGhosts, loop
<1> QED
  BY <1>1, <1>2, <1>3, <1>4, <1>5, <1>6, <1>7, <1>8
  DEF Next, vars, risk, loop, Rollover, Begin, Keep, SellPart, SaveAndCheck, Managed, Check,
      SkipEntries, TryEntries, NotBought, Register, EntriesDone, SkipReconcile, TimePasses,
      CacheExpires

LEMMA FlagsStep == Flags /\ [Next]_vars => Flags'
BY DEF Flags, Next, vars, risk, loop, Rollover, Begin, Prices, NoPrices, Keep, Sell, SellPart, Book,
       SaveAndCheck, Managed, Check, SkipEntries, TryEntries, NotBought, Buy, Register, EntriesDone,
       SkipReconcile, Reconcile, SoldOutside, TimePasses, CacheExpires, Midnight, Crash, Restart

(***************************************************************************)
(* The engine's state and its file are a DailyState whatever fails, is     *)
(* sold elsewhere or crashes, and its counters stay within their ranges.   *)
(***************************************************************************)
THEOREM TypeCorrect == Spec => []TypeOK
<1>1. Init => Money /\ Counts /\ Flags
  <2>1. Init => Money
    BY LimitsAssumption DEF Init, Money, NewDay, Nothing
  <2>2. Init => Counts
    BY BoundsAreNat DEF Init, Counts
  <2>3. Init => Flags
    BY DEF Init, Flags
  <2> QED
    BY <2>1, <2>2, <2>3
<1>2. Inv /\ Money /\ Counts /\ Flags => TypeOK
  BY DEF Inv, Shape, Money, Counts, Flags, TypeOK
<1> QED
  BY <1>1, <1>2, InvHolds, MoneyStep, CountsStep, FlagsStep, PTL DEF Spec
==============================================================================
