---------------------------- MODULE PaperAccount ----------------------------
(***************************************************************************)
(* The simulated money of the overseas, crypto and swing engines: the      *)
(* sizes of purchases, additions and partial sales (sizing.py), the paper  *)
(* brokers that move cash and the book of positions, the trade record an   *)
(* engine writes when a position is gone, the state file, and the cash an  *)
(* engine gives itself back when it is started again.                      *)
(* Money and quantities are whole: the amounts a configuration gives are   *)
(* multiples of every divisor below, so no division here rounds.           *)
(***************************************************************************)
EXTENDS Integers, FiniteSets, Functions

CONSTANTS
    Symbol,
    Kinds,        \* which engines: a subset of {"overseas", "crypto", "swing"}
    Price,        \* the prices of one unit of any symbol, in its currency
    Rate,         \* exchange rates (only the swing engine converts)
    Budget, MaxPositions,
    EntryPct,     \* first_ratio * signal and volatility multipliers, percent
    AddPct,       \* the multipliers of an addition, percent
    InitialPct,   \* sizing.initial_ratio, percent
    MaxAdds,      \* sizing.max_adds
    StepPct,      \* add_step: the rise an addition waits for, percent
    FirstPct,     \* exit_first_at, percent
    TakePct,      \* the profit target of the second partial sale, percent
    ExitParts,    \* a partial sale sells one ExitParts-th of the position
    FeePct,       \* commission, percent
    MaxTrades,    \* bound: the trades closed
    MaxRestarts   \* bound: how often the engine is built anew

ASSUME PaperAssumption ==
    /\ Kinds \subseteq {"overseas", "crypto", "swing"}
    /\ Price \subseteq Nat \ {0} /\ Rate \subseteq Nat \ {0}
    /\ Budget \in Nat /\ MaxPositions \in Nat \ {0}
    /\ EntryPct \subseteq Nat /\ AddPct \subseteq Nat /\ InitialPct \in 0 .. 100
    /\ MaxAdds \in Nat \ {0}
    /\ StepPct \in Nat \ {0} /\ FirstPct \in Nat \ {0} /\ TakePct \in Nat
    /\ ExitParts \in Nat \ {0, 1} /\ FeePct \in Nat
    /\ MaxTrades \in Nat /\ MaxRestarts \in Nat

VARIABLES
    kind,      \* which engine this is
    rate,      \* _usd_krw_rate() now
    cash,      \* broker.cash
    pos,       \* state.book: a position or NoPosition for every symbol
    closed,    \* the sum of the pnl of state.closed
    stateFile, \* the state file: positions and the sum of closed
    mode,      \* run_once, or liquidate_all
    visited,   \* the symbols this pass has dealt with
    trades,    \* how many trades are closed
    restarts,  \* how often the engine was built anew
    drift      \* history: why cash may differ from the books (see Drifts)

paperVars == <<kind, rate, cash, pos, closed, stateFile, mode, visited, trades, restarts,
               drift>>

NoPosition == [qty |-> 0]
(* cost is quantity * entry_price; at is the rate of the purchase (history),
   1 where nothing is converted. *)
Position == [qty : Nat \ {0}, cost : Nat, invested : Nat, adds : 0 .. MaxAdds,
             lastFill : Price, scaledOut : 0 .. 2, soldValue : Nat,
             realized : Int, at : Rate \cup {1}]

Held == {s \in Symbol : pos[s] # NoPosition}
Positions(p) == {s \in Symbol : p[s] # NoPosition}

PaperTypeOK ==
    /\ kind \in Kinds /\ rate \in Rate
    /\ cash \in Int /\ closed \in Int
    /\ \A s \in Held : pos[s] \in Position
    /\ \A s \in Positions(stateFile.pos) : stateFile.pos[s] \in Position
    /\ stateFile.closed \in Int
    /\ mode \in {"pass", "liquidate"} /\ visited \subseteq Symbol
    /\ restarts \in 0 .. MaxRestarts
    /\ trades \in 0 .. MaxTrades /\ stateFile.trades \in 0 .. trades
    /\ drift \subseteq {"restart", "rate"}

------------------------------------------------------------------------------
\* Amounts (sizing.py)

Pct(x, p) == (x * p) \div 100
Least(a, b) == IF a < b THEN a ELSE b
Most(a, b) == IF a < b THEN b ELSE a

Cap == Budget \div MaxPositions

\* entry_amount: never more than the cap.
EntryAmount(pct) == Least(Cap, Pct(Cap, pct))

AddAmountUncapped(p, pct) ==
    Pct(Pct(Cap, 100 - InitialPct) \div MaxAdds, pct + 100)

\* add_amount: the rest of the cap in equal shares, never more than the room.
AddAmount(p, pct) ==
    LET each == Pct(Cap, 100 - InitialPct) \div MaxAdds
    IN Most(0, Least(Pct(each, pct), Cap - p.invested))

\* add_due: price rose by a step over the last purchase and over the average.
AddDue(p, price) ==
    /\ p.adds < MaxAdds /\ p.scaledOut = 0
    /\ price * 100 >= p.lastFill * (100 + StepPct)
    /\ price * p.qty * 100 >= p.cost * (100 + StepPct)

Gains(p, price, pct) == price * p.qty * 100 >= p.cost * (100 + pct)

\* exit_step: a partial sale is due.
StepDue(p, price) ==
    \/ p.scaledOut = 0 /\ Gains(p, price, FirstPct)
    \/ p.scaledOut = 1 /\ Gains(p, price, TakePct)

\* breakeven_hit (its buffer of 0.1 % is less than one price step).
BreakevenHit(p, price) == p.scaledOut >= 1 /\ price * p.qty <= p.cost

------------------------------------------------------------------------------
\* The brokers

Fx == IF kind = "swing" THEN rate ELSE 1

\* What a purchase of a given value takes from the cash: only the swing
\* broker charges its commission here.
Paid(value) == (IF kind = "swing" THEN value + Pct(value, FeePct) ELSE value) * Fx

\* What selling brings, given the value of the part and what it had cost.
Proceeds(value, cost) ==
    IF kind = "swing" THEN (value - Pct(value, FeePct)) * Fx
                      ELSE value - Pct(value + cost, FeePct)

Bought(amount, price) ==
    LET qty == amount \div (Fx * price)
    IN [qty |-> qty, cost |-> qty * price, invested |-> Paid(qty * price),
        adds |-> 0, lastFill |-> price, scaledOut |-> 0, soldValue |-> 0,
        realized |-> 0, at |-> Fx]

\* _merge_buy
Merged(p, new) ==
    [p EXCEPT !.qty = @ + new.qty, !.cost = @ + new.cost,
              !.invested = @ + new.invested, !.adds = @ + 1,
              !.lastFill = new.lastFill]

\* The cost of a part.
CostOf(p, qty) == (p.cost * qty) \div p.qty

ShrunkUnbooked(p, qty, value, pnl) ==
    [p EXCEPT !.qty = @ - qty,
              !.cost = @ - CostOf(p, qty),
              !.invested = (@ * (p.qty - qty)) \div p.qty,
              !.scaledOut = @ + 1, !.soldValue = @ + value]

\* _shrink, and what _execute_exit adds up for the record of the trade
Shrunk(p, qty, value, pnl) ==
    [p EXCEPT !.qty = @ - qty,
              !.cost = @ - CostOf(p, qty),
              !.invested = (@ * (p.qty - qty)) \div p.qty,
              !.scaledOut = @ + 1, !.realized = @ + pnl, !.soldValue = @ + value]

Drifts(p) == IF kind = "swing" /\ p.at # rate THEN {"rate"} ELSE {}

\* buy and add; the engine has compared the amount with the cash before.
Purchase(s, p, amount, next) ==
    /\ amount > 0 /\ amount <= cash
    /\ p.qty > 0 /\ p.invested <= cash
    /\ cash' = cash - p.invested
    /\ pos' = [pos EXCEPT ![s] = next]
    /\ UNCHANGED <<closed, trades, drift>>

\* The profit of selling qty of p; its cost is reckoned at the rate of today.
Profit(p, qty, price) == Proceeds(qty * price, CostOf(p, qty)) - Paid(CostOf(p, qty))

SellPart(s, qty, price) ==
    LET p == pos[s]
    IN /\ cash' = cash + Proceeds(qty * price, CostOf(p, qty))
       /\ pos' = [pos EXCEPT ![s] = Shrunk(p, qty, qty * price, Profit(p, qty, price))]
       /\ drift' = drift \cup Drifts(p)
       /\ UNCHANGED <<closed, trades>>

\* The last sale of a trade writes one record with the profit of all its sales.
SellAll(s, price) ==
    LET p == pos[s]
    IN /\ trades < MaxTrades /\ trades' = trades + 1
       /\ cash' = cash + Proceeds(p.qty * price, p.cost)
       /\ pos' = [pos EXCEPT ![s] = NoPosition]
       /\ closed' = closed + Profit(p, p.qty, price) + p.realized
       /\ drift' = drift \cup Drifts(p)

------------------------------------------------------------------------------
\* The engine's pass over the symbols (run_once), at prices it asks for

\* _try_entry, with any signal; a symbol may also be left alone.
Enter(s) ==
    /\ pos[s] = NoPosition /\ Cardinality(Held) < MaxPositions
    /\ \E pct \in EntryPct, price \in Price :
         LET amount == EntryAmount(pct)
             p == Bought(amount, price)
         IN Purchase(s, p, amount, p)

Leave(s) == pos[s] = NoPosition /\ UNCHANGED <<cash, pos, closed, trades, drift>>

\* _manage_position: protect what a first sale earned, or follow an exit
\* technique, or sell a part, or add (never in the swing engine), in that order.
Close(s, price) ==
    /\ BreakevenHit(pos[s], price) /\ ~ StepDue(pos[s], price)
    /\ SellAll(s, price)

Exit(s, price) ==
    /\ ~ BreakevenHit(pos[s], price) \/ StepDue(pos[s], price)
    /\ SellAll(s, price)

\* split_quantity
Part(p) == Most(1, p.qty \div ExitParts)

Trim(s, price) ==
    /\ StepDue(pos[s], price)
    /\ IF Part(pos[s]) < pos[s].qty THEN SellPart(s, Part(pos[s]), price) ELSE SellAll(s, price)

Quiet(s, price) == ~ StepDue(pos[s], price) /\ ~ BreakevenHit(pos[s], price)

AddTo(s, price) ==
    /\ Quiet(s, price) /\ kind # "swing" /\ AddDue(pos[s], price)
    /\ \E pct \in AddPct :
         LET amount == AddAmount(pos[s], pct)
             p == Bought(amount, price)
         IN Purchase(s, p, amount, Merged(pos[s], p))

Keep(s, price) == Quiet(s, price) /\ UNCHANGED <<cash, pos, closed, trades, drift>>

Manage(s) ==
    /\ pos[s] # NoPosition
    /\ \E price \in Price :
         Close(s, price) \/ Exit(s, price) \/ Trim(s, price) \/ AddTo(s, price) \/ Keep(s, price)

Visit(s) ==
    /\ mode = "pass" /\ s \notin visited
    /\ Enter(s) \/ Leave(s) \/ Manage(s)
    /\ visited' = visited \cup {s}
    /\ UNCHANGED <<kind, rate, stateFile, mode, restarts>>

\* liquidate_all: asked for by the server, it sells everything and saves.
BeginLiquidate ==
    /\ mode = "pass" /\ visited = {} /\ Held # {}
    /\ trades + Cardinality(Held) <= MaxTrades
    /\ mode' = "liquidate"
    /\ UNCHANGED <<kind, rate, cash, pos, closed, stateFile, visited, trades, restarts, drift>>

Liquidate(s) ==
    /\ mode = "liquidate" /\ s \in Held
    /\ \E price \in Price : SellAll(s, price)
    /\ UNCHANGED <<kind, rate, stateFile, mode, visited, restarts>>

\* The end of run_once, or of liquidate_all, writes the file.
End ==
    /\ \/ mode = "pass" /\ visited = Symbol
       \/ mode = "liquidate" /\ Held = {}
    /\ mode' = "pass" /\ visited' = {}
    /\ stateFile' = [pos |-> pos, closed |-> closed, trades |-> trades]
    /\ UNCHANGED <<kind, rate, cash, pos, closed, trades, restarts, drift>>

\* The cash an engine starts with: the realised profits, less what is locked
\* in its positions, a position's locked money being what was paid for it less
\* what its partial sales brought.
Locked(p) == IF p = NoPosition THEN 0 ELSE Most(0, p.invested - p.soldValue)

Restored(f) == Budget + f.closed - SumFunction([s \in Symbol |-> Locked(f.pos[s])])

\* The engine is built anew: stopped and started from the web page, or the
\* process died.  What was not saved is forgotten.
Restarted ==
    /\ restarts < MaxRestarts /\ restarts' = restarts + 1
    /\ pos' = stateFile.pos /\ closed' = stateFile.closed /\ trades' = stateFile.trades
    /\ cash' = Restored(stateFile)
    /\ mode' = "pass" /\ visited' = {}
    /\ drift' = IF \E s \in Positions(stateFile.pos) : stateFile.pos[s].scaledOut > 0
                THEN drift \cup {"restart"} ELSE drift
    /\ UNCHANGED <<kind, rate, stateFile>>

\* external: the exchange rate the program reads moves.
Rated ==
    /\ kind = "swing" /\ visited = {} /\ mode = "pass"
    /\ rate' \in Rate \ {rate}
    /\ UNCHANGED <<kind, cash, pos, closed, stateFile, mode, visited, trades, restarts, drift>>

PaperInit ==
    /\ kind \in Kinds /\ rate \in Rate
    /\ cash = Budget /\ closed = 0 /\ trades = 0 /\ restarts = 0
    /\ pos = [s \in Symbol |-> NoPosition]
    /\ stateFile = [pos |-> pos, closed |-> 0, trades |-> 0]
    /\ mode = "pass" /\ visited = {} /\ drift = {}

PaperNext ==
    \/ \E s \in Symbol : Visit(s) \/ Liquidate(s)
    \/ BeginLiquidate \/ End \/ Restarted \/ Rated

PaperSpec == PaperInit /\ [][PaperNext]_paperVars

------------------------------------------------------------------------------
\* Properties

(* However it was bought, added to, trimmed and reloaded, a symbol never holds
   more than its share of the budget, the swing broker's commission aside
   (sizing.py: "the limit of a symbol; never more than this is put in one"). *)
WithinCap == \A s \in Held : pos[s].invested <= Cap + (IF kind = "swing" THEN Pct(Cap, FeePct) ELSE 0)

(* What the amounts of a configuration are chosen for: the shares the books *)
(* are divided into are whole.                                             *)
NothingRounds ==
    \A s \in Held : LET p == pos[s] IN
        /\ (p.cost * Part(p)) % p.qty = 0
        /\ kind = "swing" =>
              (p.cost * FeePct) % 100 = 0 /\ (CostOf(p, Part(p)) * FeePct) % 100 = 0

(* The books balance: the cash and what was paid for the positions are the
   budget, the profits recorded and the profits of the partial sales; except
   after a restart with a position partly sold, which gives the cost of the part
   sold back twice, and after the swing engine sold at another exchange rate than
   it bought at. *)
BooksBalance ==
    drift = {} =>
        cash + SumFunction([s \in Symbol |-> IF s \in Held THEN pos[s].invested ELSE 0])
            = Budget + closed
              + SumFunction([s \in Symbol |-> IF s \in Held THEN pos[s].realized ELSE 0])

=============================================================================
