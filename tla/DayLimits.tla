------------------------------ MODULE DayLimits ------------------------------
(***************************************************************************)
(* The daily limits of the domestic engine (daytrader/engine.py): the      *)
(* kill switch, the cap on positions and the budget of trades, over days   *)
(* and restarts.  Modelled: DailyState with its file, one round of run()   *)
(* (rollover, manage_positions, the forced close, try_entries, the         *)
(* reconciliation), _close_position and _open_position cut where the       *)
(* process can die, and safety.reconcile for positions that are gone.      *)
(*                                                                         *)
(* Money is counted in units of the limits.  Which technique fires, which  *)
(* candidate scores best and what it fills at is left open; cooldown only  *)
(* narrows the choice of candidates.                                       *)
(***************************************************************************)
EXTENDS Integers, FiniteSets, Functions

CONSTANTS
    Symbols,         \* the candidates
    MaxPositions,    \* capital.max_positions
    MaxTrades,       \* risk.daily_max_trades
    MaxLosses,       \* risk.max_consecutive_losses
    ReduceAfterLoss, \* risk.reduce_after_loss
    DailyLimit,      \* risk.daily_loss_limit_pct of the allocation
    WeeklyLimit,     \* risk.weekly_loss_limit_pct of the allocation
    DegradeAfter,    \* live.degrade_after_failures
    Marks,           \* what a held position may have gained or lost
    Outcomes,        \* what a sale may realize
    Days,            \* bound: the calendar days of a behaviour
    MaxDropped,      \* bound: the positions reconcile() drops in a day
    MaxCrashes       \* bound: the crashes of a behaviour

ASSUME LimitsAssumption ==
    /\ IsFiniteSet(Symbols)
    /\ {MaxPositions, MaxTrades, MaxLosses, DegradeAfter, Days} \subseteq Nat \ {0}
    /\ {DailyLimit, WeeklyLimit, MaxDropped, MaxCrashes} \subseteq Nat
    /\ ReduceAfterLoss \in BOOLEAN
    /\ Marks \subseteq Int /\ 0 \in Marks
    /\ Outcomes \subseteq Int

VARIABLES
    state,     \* self.state: the DailyState of the running engine
    disk,      \* daily_state.json
    ledger,    \* the pnl of this week's rows in the ledger
    cache,     \* _weekly_pnl_cache: that sum as last read, or nothing
    mark,      \* what each held position has gained or lost at its last price
    owned,     \* the shares of the program that are in the account, per symbol
    pc,        \* where run() is
    todo,      \* manage_positions: the positions still to look at
    forced,    \* manage_positions(force_close=True)
    current,   \* the symbol that is being sold or bought
    budget,    \* try_entries: what is left of the trades of the day
    failures,  \* _api_fail_streak, up to DegradeAfter
    cooled,    \* the last loss is far enough away for _loss_halt_expired
    day,       \* the calendar
    dropped,   \* history: the positions reconcile() has dropped today
    crashes    \* history: how often the process died

vars == <<state, disk, ledger, cache, mark, owned, pc, todo, forced, current, budget,
          failures, cooled, day, dropped, crashes>>

risk == <<ledger, cache, mark, cooled>>
loop == <<todo, forced, current, budget>>

DailyState ==
    [ date     : 1 .. Days,
      trades   : Nat,
      losses   : Nat,                    \* consecutive_losses
      realized : Int,                    \* realized_pnl
      halted   : BOOLEAN,
      held     : SUBSET Symbols,         \* the keys of positions
      banked   : [Symbols -> Int] ]      \* Position.realized, after a partial sale

Control == {"down", "top", "query", "manage", "sold", "booked", "check", "entries",
            "buying", "bought", "reconcile"}

TypeOK ==
    /\ state \in DailyState /\ disk \in DailyState
    /\ ledger \in Int /\ cache \in SUBSET Int
    /\ mark \in [Symbols -> Marks]
    /\ owned \subseteq Symbols
    /\ pc \in Control
    /\ todo \subseteq Symbols /\ forced \in BOOLEAN
    /\ current \in SUBSET Symbols
    /\ budget \in Nat
    /\ failures \in 0 .. DegradeAfter
    /\ cooled \in BOOLEAN
    /\ day \in 1 .. Days
    /\ dropped \in Nat
    /\ crashes \in 0 .. MaxCrashes

------------------------------------------------------------------------------
\* The kill switch

\* DailyState(today): what a new day starts from; positions are carried over.
NewDay(today, held, banked) ==
    [date |-> today, trades |-> 0, losses |-> 0, realized |-> 0, halted |-> FALSE,
     held |-> held, banked |-> banked]

Nothing == [s \in Symbols |-> 0]

Degraded == failures = DegradeAfter

\* _unrealized_pnl: over the positions at their last price.
Unrealized == SumFunctionOnSet(mark, state.held)

\* _weekly_pnl: the cache, which is good for 15 seconds, or the ledger.
WeeklyPnl == IF cache = {} THEN ledger ELSE CHOOSE pnl \in cache : TRUE

WeeklyHit == -WeeklyPnl >= WeeklyLimit
\* Mutated DailyHit: open losses do not count.
RealizedHit == -state.realized >= DailyLimit

DailyHit == -(state.realized + Unrealized) >= DailyLimit
LossesHit == ~ReduceAfterLoss /\ state.losses >= MaxLosses
TradesHit == state.trades >= MaxTrades

\* The expired halt on losses: the count starts again, "entries resume".
Resumes == ~WeeklyHit /\ ~DailyHit /\ LossesHit /\ cooled

\* _check_kill_switch is true.
Clear == ~WeeklyHit /\ ~DailyHit /\ (LossesHit => cooled) /\ ~TradesHit

\* The state after _check_kill_switch; _halt does nothing to a halted engine and
\* nothing ever clears halted.
Checked ==
    [state EXCEPT !.halted = @ \/ ~Clear, !.losses = IF Resumes THEN 0 ELSE @]

\* What _check_kill_switch does; saved says that the caller has just saved.
CheckKillSwitch(saved) ==
    /\ state' = Checked
    /\ disk' = IF ~Clear /\ ~state.halted THEN Checked ELSE IF saved THEN state ELSE disk
    /\ cache' = {WeeklyPnl}

\* Mutated Halt: the halt is not saved.
HaltInMemory ==
    /\ state' = [state EXCEPT !.halted = TRUE]
    /\ UNCHANGED disk

\* _halt for any other reason.
Halt ==
    /\ state' = [state EXCEPT !.halted = TRUE]
    /\ disk' = IF state.halted THEN disk ELSE state'

NoHalt == UNCHANGED <<state, disk>>

------------------------------------------------------------------------------
\* One round of run()

Init ==
    /\ state = NewDay(1, {}, Nothing)
    /\ disk = state
    /\ ledger = 0 /\ cache = {}
    /\ mark = Nothing
    /\ owned = {}
    /\ pc = "top"
    /\ todo = {} /\ forced = FALSE /\ current = {} /\ budget = 0
    /\ failures = 0
    /\ cooled = FALSE
    /\ day = 1
    /\ dropped = 0
    /\ crashes = 0

\* _rollover_if_new_day.
Rollover ==
    /\ pc = "top"
    /\ state.date # day
    /\ state' = NewDay(day, state.held, state.banked)
    /\ disk' = state'
    /\ UNCHANGED <<ledger, cache, mark, owned, pc, loop, failures, cooled, day, dropped, crashes>>

\* manage_positions; without positions it has nothing to do.
Begin ==
    /\ pc = "top"
    /\ state.date = day
    /\ forced' = FALSE
    /\ pc' = IF state.held = {} THEN "check" ELSE "query"
    /\ UNCHANGED <<state, disk, risk, owned, todo, current, budget, failures, day, dropped, crashes>>

\* prices() answers: _api_ok, and every position gets a last price.
Prices ==
    /\ pc = "query"
    /\ failures' = 0
    /\ mark' \in [Symbols -> Marks]
    /\ \A s \in Symbols \ state.held : mark'[s] = 0
    /\ todo' = state.held
    /\ pc' = "manage"
    /\ UNCHANGED <<state, disk, ledger, cache, cooled, owned, forced, current, budget,
                   day, dropped, crashes>>

\* prices() fails: _api_fail, which halts when it has lasted.
NoPrices ==
    /\ pc = "query"
    /\ failures' = IF Degraded THEN failures ELSE failures + 1
    /\ \/ failures' = DegradeAfter /\ Halt
       \/ NoHalt
    /\ pc' = IF forced THEN "entries" ELSE "check"
    /\ UNCHANGED <<ledger, cache, mark, cooled, owned, loop, day, dropped, crashes>>

\* The position stays: no exit fires, a server order is in the way, or the sale
\* fails; a fatal failure halts.
Keep(s) ==
    /\ pc = "manage"
    /\ s \in todo
    /\ todo' = todo \ {s}
    /\ Halt \/ NoHalt
    /\ UNCHANGED <<ledger, cache, mark, cooled, owned, pc, forced, current, budget, failures, day, dropped, crashes>>

\* sell() fills for the whole position, or the server order has sold it.
Sell(s) ==
    /\ pc = "manage"
    /\ s \in todo
    /\ owned' = owned \ {s}
    /\ todo' = todo \ {s}
    /\ current' = {s}
    /\ pc' = "sold"
    /\ UNCHANGED <<state, disk, risk, forced, budget, failures, day, dropped, crashes>>

\* A part is sold (scale_out, or a partial fill): booked, saved and checked.  The
\* bound: at most one part of a position is sold before the rest.
SellPart(s, pnl) ==
    /\ pc = "manage"
    /\ s \in todo \cap owned
    /\ state.banked[s] = 0
    /\ state' = [state EXCEPT !.realized = @ + pnl, !.banked[s] = pnl]
    /\ todo' = todo \ {s}
    /\ cache' = {}
    /\ pc' = "booked"
    /\ UNCHANGED <<disk, ledger, mark, cooled, owned, forced, current, budget, failures, day, dropped, crashes>>

\* _close_position books the end of a trade: with what was banked, it is one
\* trade, and one loss or the end of a row of losses.  It forgets the cache and
\* then writes the ledger; snapshot(), called by the web server in a thread of
\* its own, may put the sum of the old ledger back into the cache.
Book(s, pnl) ==
    LET total == pnl + state.banked[s] IN
    /\ pc = "sold"
    /\ current = {s}
    /\ state' = [state EXCEPT !.trades = @ + 1,
                              !.losses = IF total >= 0 THEN 0 ELSE @ + 1,
                              !.realized = @ + pnl,
                              !.held = @ \ {s},
                              !.banked[s] = 0]
    /\ ledger' = ledger + total
    /\ cache' \in {{}, {ledger}}
    /\ mark' = [mark EXCEPT ![s] = 0]
    /\ cooled' = (cooled /\ total >= 0)
    /\ current' = {}
    /\ pc' = "booked"
    /\ UNCHANGED <<disk, owned, todo, forced, budget, failures, day, dropped, crashes>>

\* Its last two lines: save, and _check_kill_switch.
SaveAndCheck ==
    /\ pc = "booked"
    /\ CheckKillSwitch(TRUE)
    /\ pc' = "manage"
    /\ UNCHANGED <<ledger, mark, cooled, owned, loop, failures, day, dropped, crashes>>

Managed ==
    /\ pc = "manage"
    /\ todo = {}
    /\ pc' = IF forced THEN "entries" ELSE "check"
    /\ UNCHANGED <<state, disk, risk, owned, loop, failures, day, dropped, crashes>>

\* A kill switch that is not clear closes every position.
Check ==
    /\ pc = "check"
    /\ CheckKillSwitch(FALSE)
    /\ forced' = (~Clear /\ state.held # {})
    /\ pc' = IF forced' THEN "query" ELSE "entries"
    /\ UNCHANGED <<ledger, mark, cooled, owned, todo, current, budget, failures, day, dropped, crashes>>

\* Why try_entries stops before it looks at the limits, or is not called.
NoRoom ==
    \/ state.halted
    \/ Degraded
    \/ Cardinality(state.held) >= MaxPositions
    \/ MaxTrades - state.trades - Cardinality(state.held) <= 0

SkipEntries ==
    /\ pc = "entries"
    /\ NoRoom
    /\ pc' = "reconcile"
    /\ UNCHANGED <<state, disk, risk, owned, loop, failures, day, dropped, crashes>>

\* try_entries: the budget, and the kill switch once more.
TryEntries ==
    /\ pc = "entries"
    /\ ~NoRoom
    /\ budget' = MaxTrades - state.trades - Cardinality(state.held)
    /\ CheckKillSwitch(FALSE)
    /\ pc' = IF Clear THEN "buying" ELSE "reconcile"
    /\ UNCHANGED <<ledger, mark, cooled, owned, todo, forced, current, failures, day, dropped, crashes>>

\* Mutated MayBuy: max_positions is only looked at when the pass starts.
MayBuyBeyondCap(s) ==
    /\ pc = "buying"
    /\ budget > 0
    /\ s \notin state.held

\* The next of the scored candidates, with budget and a free position left.
MayBuy(s) ==
    /\ pc = "buying"
    /\ budget > 0
    /\ Cardinality(state.held) < MaxPositions
    /\ s \notin state.held

\* _open_position gives up: bad news, too small an amount, or the order fails.
NotBought(s) ==
    /\ MayBuy(s)
    /\ budget' = budget - 1
    /\ Halt \/ NoHalt
    /\ UNCHANGED <<ledger, cache, mark, cooled, owned, pc, todo, forced, current, failures, day, dropped, crashes>>

\* buy() fills.
Buy(s) ==
    /\ MayBuy(s)
    /\ owned' = owned \cup {s}
    /\ current' = {s}
    /\ pc' = "bought"
    /\ UNCHANGED <<state, disk, risk, todo, forced, budget, failures, day, dropped, crashes>>

\* Mutated Register: a purchase does not use up the budget.
RegisterForFree(s) ==
    /\ pc = "bought"
    /\ current = {s}
    /\ state' = [state EXCEPT !.held = @ \cup {s}]
    /\ disk' = state'
    /\ cache' = {}
    /\ current' = {}
    /\ pc' = "buying"
    /\ UNCHANGED <<ledger, mark, cooled, owned, todo, forced, budget, failures, day, dropped, crashes>>

\* The position is registered and saved.
Register(s) ==
    /\ pc = "bought"
    /\ current = {s}
    /\ state' = [state EXCEPT !.held = @ \cup {s}]
    /\ disk' = state'
    /\ cache' = {}
    /\ budget' = budget - 1
    /\ current' = {}
    /\ pc' = "buying"
    /\ UNCHANGED <<ledger, mark, cooled, owned, todo, forced, failures, day, dropped, crashes>>

EntriesDone ==
    /\ pc = "buying"
    /\ pc' = "reconcile"
    /\ UNCHANGED <<state, disk, risk, owned, loop, failures, day, dropped, crashes>>

\* reconcile(): what the account no longer holds is written to the ledger and
\* dropped.  Nothing is counted: not the trade, the loss or the pnl of the day.
Ghosts(from) == from.held \ owned

Without(from) ==
    [from EXCEPT !.held = @ \cap owned,
                 !.banked = [s \in Symbols |-> IF s \in owned THEN from.banked[s] ELSE 0]]

Gain(gains, ghosts) == SumFunctionOnSet(gains, ghosts)

DropGhosts(from, gains) ==
    /\ state' = Without(from)
    /\ ledger' = ledger + Gain(gains, Ghosts(from))
    /\ dropped' = dropped + Cardinality(Ghosts(from))

\* Every reconcile_every_loops rounds, or holdings() fails.
SkipReconcile ==
    /\ pc = "reconcile"
    /\ pc' = "top"
    /\ UNCHANGED <<state, disk, risk, owned, loop, failures, day, dropped, crashes>>

Reconcile(gains) ==
    /\ pc = "reconcile"
    /\ DropGhosts(state, gains)
    /\ disk' = IF Ghosts(state) = {} THEN disk ELSE state'
    /\ mark' = [s \in Symbols |-> IF s \in owned THEN mark[s] ELSE 0]
    /\ pc' = "top"
    /\ UNCHANGED <<cache, cooled, owned, loop, failures, day, crashes>>

------------------------------------------------------------------------------
\* The account, the clock and the process

\* A stop or target order at the server, or the user, sells the position.
SoldOutside(s) ==
    /\ s \in owned
    /\ s \in state.held
    /\ dropped + Cardinality(Ghosts(state)) < MaxDropped
    /\ owned' = owned \ {s}
    /\ UNCHANGED <<state, disk, risk, pc, loop, failures, day, dropped, crashes>>

\* loss_halt_cooldown_hours go by, or the next session begins.
TimePasses ==
    /\ pc = "top"
    /\ ~cooled
    /\ cooled' = TRUE
    /\ UNCHANGED <<state, disk, ledger, cache, mark, owned, pc, loop, failures, day, dropped, crashes>>

\* 15 seconds after the ledger was read.
CacheExpires ==
    /\ cache # {}
    /\ cache' = {}
    /\ UNCHANGED <<state, disk, ledger, mark, cooled, owned, pc, loop, failures,
                   day, dropped, crashes>>

\* Midnight, outside trading hours; perhaps the end of the week too.
Midnight ==
    /\ pc \in {"top", "down"}
    /\ day < Days
    /\ day' = day + 1
    /\ dropped' = 0
    /\ ledger' \in {ledger, 0} /\ cache' = {}
    /\ UNCHANGED <<state, disk, mark, cooled, owned, pc, loop, failures, crashes>>

Crash ==
    /\ pc # "down"
    /\ crashes < MaxCrashes
    /\ crashes' = crashes + 1
    /\ pc' = "down"
    /\ todo' = {} /\ forced' = FALSE /\ current' = {} /\ budget' = 0
    /\ failures' = 0
    /\ cache' = {}
    /\ UNCHANGED <<state, disk, ledger, mark, cooled, owned, day, dropped>>

\* DailyState._load: the counters of another day are not taken over.
Loaded ==
    IF disk.date = day THEN disk ELSE NewDay(day, disk.held, disk.banked)

\* Engine(), run(), resume(): the file, then the account if it can be read.
Restart(gains) ==
    /\ pc = "down"
    /\ \/ DropGhosts(Loaded, gains)
       \/ state' = Loaded /\ UNCHANGED <<ledger, dropped>>
    /\ disk' = state'
    /\ mark' \in [Symbols -> Marks]
    /\ \A s \in Symbols \ state'.held : mark'[s] = 0
    /\ pc' = "top"
    /\ UNCHANGED <<cache, cooled, owned, loop, failures, day, crashes>>

Next ==
    \/ Rollover \/ Begin \/ Prices \/ NoPrices
    \/ \E s \in Symbols : Keep(s) \/ Sell(s)
    \/ \E s \in Symbols, pnl \in Outcomes : SellPart(s, pnl) \/ Book(s, pnl)
    \/ SaveAndCheck \/ Managed \/ Check
    \/ SkipEntries \/ TryEntries
    \/ \E s \in Symbols : NotBought(s) \/ Buy(s) \/ Register(s)
    \/ EntriesDone \/ SkipReconcile
    \/ \E gains \in [Symbols -> Outcomes] : Reconcile(gains) \/ Restart(gains)
    \/ \E s \in Symbols : SoldOutside(s)
    \/ TimePasses \/ CacheExpires \/ Midnight \/ Crash

Spec == Init /\ [][Next]_vars

------------------------------------------------------------------------------
\* Properties

(***************************************************************************)
(* try_entries: "opening two when one trade is left makes two when they    *)
(* are sold".  What is held can always be sold within daily_max_trades,    *)
(* in memory and in the file, whenever the process dies.                   *)
(***************************************************************************)
TradesStayInBudget ==
    /\ state.trades + Cardinality(state.held) <= MaxTrades
    /\ disk.trades + Cardinality(disk.held) <= MaxTrades

(***************************************************************************)
(* Never more than max_positions at once, although several candidates are  *)
(* bought in one pass.                                                     *)
(***************************************************************************)
PositionsStayInCap == Cardinality(state.held) <= MaxPositions

(***************************************************************************)
(* A position is only opened while none of the loss limits is reached,     *)
(* open losses included, however many were bought or sold since the check; *)
(* for the weekly limit, where the cached sum is that of the ledger.       *)
(***************************************************************************)
Opens == pc = "buying" /\ pc' = "bought"

OpensWithinLimits ==
    [][ Opens
          => /\ cache = {ledger} => ledger > -WeeklyLimit
             /\ state.realized + Unrealized > -DailyLimit
             /\ state.losses >= MaxLosses => ReduceAfterLoss \/ cooled ]_vars

(***************************************************************************)
(* A halt lasts for the day: no restart, reload or later step takes it     *)
(* back before the date changes.                                           *)
(***************************************************************************)
HaltLastsTheDay == [][ state.halted /\ state'.date = state.date => state'.halted ]_vars
==============================================================================
