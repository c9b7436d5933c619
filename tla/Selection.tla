----------------------------- MODULE Selection -----------------------------
(***************************************************************************)
(* How the domestic engine picks what it buys and manages what it holds,   *)
(* over the rounds of one trading day: the screener (themes, buckets, the  *)
(* round robin over themes, the filters, the watchlist), try_entries (all  *)
(* candidates are judged first, then the strongest signals are bought) and *)
(* manage_positions (exits, sales in parts, break-even, adding).  The web  *)
(* server's thread may force a new screening at any moment.                *)
(* Quantities, orders and the kill switch's own arithmetic are the matter  *)
(* of Holdings, LiveOrders and DayLimits; here an order is filled in full, *)
(* in part or not at all, and the kill switch may strike at any check.     *)
(***************************************************************************)
EXTENDS Playbook, SequencesExt

CONSTANTS
    Stock, Theme,
    Members,        \* themes.yaml: the sequence of symbols of a theme
    Watchlist,      \* screen.watchlist, a sequence of symbols
    TopThemes, PerTheme,    \* screen.top_themes, screen.candidates_per_theme
    Spare,          \* how many times over the shortlist is cut; 3 in the code
    MinPrice, MaxPrice, MinChange, MaxChange, MinAmount,    \* screen.*
    Rankings,       \* what a ranking may answer: rows of some symbols
    Vets,           \* what may be known of each symbol when it is vetted
    Chartings,      \* what the bars of each symbol may show
    Stats,          \* results of each rule, as the ledger may have them
    Signs,          \* what bars and clock may say of a held position
    Hours,          \* the day's windows, in order
    Price, BuyPrice,        \* the prices seen while held, and paid when bought
    MaxPositions, DailyMaxTrades,
    FirstExit,      \* sizing.first_exit_at, percent
    MaxAdds, AddStep        \* sizing.max_adds, sizing.add_step_pct

\* A row of a ranking.
Row == [price : Nat, change : Int, amount : Nat]

ASSUME SelectionAssumption ==
    /\ IsFiniteSet(Theme) /\ "watchlist" \notin Theme
    /\ \A t \in Theme : Members[t] \in Seq(Stock) /\ IsInjective(Members[t])
    /\ \A t, u \in Theme : t # u => ToSet(Members[t]) \cap ToSet(Members[u]) = {}
    /\ Watchlist \in Seq(Stock)
    /\ {TopThemes, PerTheme, Spare} \subseteq Nat \ {0}
    /\ \A r \in Rankings : DOMAIN r \subseteq Stock /\ \A s \in DOMAIN r : r[s] \in Row
    /\ Stats \subseteq [Rules -> [trades : Nat, wins : 0 .. 100]]
    /\ "fixed" \in ExitEnabled
    /\ Hours \in Seq(STRING) /\ Hours # <<>>
    /\ {MaxPositions, DailyMaxTrades} \subseteq Nat
    /\ Price \subseteq Nat \ {0} /\ BuyPrice \subseteq Price
    /\ {FirstExit, StopLoss, TakeProfit} \subseteq Nat \ {0} /\ AddStep \in Nat

VARIABLES
    step,      \* where the engine's loop is
    clock,     \* which of Hours it is
    todo,      \* held symbols manage_positions still has to look at
    force,     \* manage_positions(force_close)
    mayAdd,    \* _allow_add
    halted,    \* state.halted
    report,    \* the last screening
    stats,     \* what set_performance was told
    positions, \* state.positions
    trades,    \* state.trades
    cooling,   \* symbols in state.cooldown
    orbDone,   \* _orb_done
    scored,    \* the verdicts still to be bought, strongest first
    budget     \* the local budget of try_entries

selectionVars == <<step, clock, todo, force, mayAdd, halted, report, stats, positions, trades,
                  cooling, orbDone, scored, budget>>
holding == <<positions, trades, cooling>>
picking == <<report, stats>>
buying  == <<scored, budget>>

Window  == Hours[clock]
Trading == Window \in {"open", "main", "close"}

------------------------------------------------------------------------------
\* The screener.

\* The elements of S, one after the other as the strict total order R has them.
Ordered(S, R) ==
    [k \in 1 .. Cardinality(S) |->
        CHOOSE x \in S : Cardinality({y \in S : <<y, x>> \in R}) = k - 1]

\* Of the elements of seq, those at the places in ok, in their order.
Picked(seq, ok) ==
    LET order == Ordered(ok, {e \in ok \X ok : e[1] < e[2]})
    IN [k \in 1 .. Cardinality(ok) |-> seq[order[k]]]

\* sorted: the elements of seq by falling weight; equals keep their order.
Falling(seq, weight) ==
    LET places == DOMAIN seq
        order  == Ordered(places, {e \in places \X places :
                      \/ weight[seq[e[1]]] > weight[seq[e[2]]]
                      \/ weight[seq[e[1]]] = weight[seq[e[2]]] /\ e[1] < e[2]})
    IN [k \in DOMAIN seq |-> seq[order[k]]]

(* market_snapshot: two rankings; of a symbol in both, the larger amount. *)
MarketSnapshot(busy, rising) ==
    [s \in DOMAIN busy \cup DOMAIN rising |->
        IF s \notin DOMAIN busy THEN rising[s]
        ELSE IF s \in DOMAIN rising /\ rising[s].amount > busy[s].amount
             THEN rising[s] ELSE busy[s]]

IsUp(market, s) == s \in DOMAIN market /\ market[s].change >= MinChange

UpMembers(market, t) ==
    Picked(Members[t], {i \in DOMAIN Members[t] : IsUp(market, Members[t][i])})

Qualified(market) == {t \in Theme : Len(UpMembers(market, t)) >= MinMembersUp}

HardFilter(row) ==
    /\ MinPrice <= row.price /\ row.price <= MaxPrice
    /\ MinChange <= row.change /\ row.change <= MaxChange
    /\ row.amount >= MinAmount

(* The members of a picked theme that are up and pass the hard filter, the *)
(* largest trading amount first.                                           *)
Bucket(market, t) ==
    LET largest == Falling(UpMembers(market, t), [s \in DOMAIN market |-> market[s].amount])
    IN Picked(largest, {i \in DOMAIN largest : HardFilter(market[largest[i]])})

\* Where the buckets have something: <<k, i>> is the place i of the bucket k.
Places(buckets) == UNION {{k} \X DOMAIN buckets[k] : k \in DOMAIN buckets}

\* the shortlist as it once was: theme after theme, cut at the limit
OneAfterTheOther(buckets, limit) ==
    LET places == Places(buckets)
        order  == Ordered(places, {e \in places \X places :
                      e[1][1] < e[2][1] \/ (e[1][1] = e[2][1] /\ e[1][2] < e[2][2])})
    IN [n \in {m \in 1 .. Cardinality(places) : m <= limit} |->
           buckets[order[n][1]][order[n][2]]]

(* The shortlist: the first of every bucket, the second of every bucket... *)
(* up to the limit.                                                        *)
RoundRobin(buckets, limit) ==
    LET places == Places(buckets)
        order  == Ordered(places, {e \in places \X places :
                      e[1][2] < e[2][2] \/ (e[1][2] = e[2][2] /\ e[1][1] < e[2][1])})
    IN [n \in {m \in 1 .. Cardinality(places) : m <= limit} |->
           buckets[order[n][1]][order[n][2]]]

(* _news_filter and _meta_filter.  Metadata that could not be read counts  *)
(* as blank and passes; warnings that could not be read do not.            *)
Vetted(s, vet) == vet[s] \in {"clean", "blank"}

(* The shortlist's candidates: vetted, and at most PerTheme of each theme. *)
Chosen(shortlist, vet, theme) ==
    Picked(shortlist, {i \in DOMAIN shortlist :
        /\ Vetted(shortlist[i], vet)
        /\ Cardinality({j \in 1 .. i - 1 : /\ theme[shortlist[j]] = theme[shortlist[i]]
                                           /\ Vetted(shortlist[j], vet)}) < PerTheme})

\* _watchlist_candidates, without a look at what the themes brought already
WatchlistAnyway(have, market, vet) ==
    Picked(Watchlist, {i \in DOMAIN Watchlist :
        /\ Watchlist[i] \in DOMAIN market \/ vet[Watchlist[i]] # "unpriced"
        /\ Vetted(Watchlist[i], vet)})

(* The watchlist needs no theme, only a price and a clean record. *)
WatchlistCandidates(have, market, vet) ==
    Picked(Watchlist, {i \in DOMAIN Watchlist :
        /\ Watchlist[i] \notin have
        /\ \A j \in 1 .. i - 1 : Watchlist[j] # Watchlist[i]
        /\ Watchlist[i] \in DOMAIN market \/ vet[Watchlist[i]] # "unpriced"
        /\ Vetted(Watchlist[i], vet)})

ThemeOf(s, themes) == CHOOSE t \in ToSet(themes) : s \in ToSet(Members[t])

(* build_report.  themes is the picked themes by falling score; a score is *)
(* the theme's breadth, strength, liquidity and news, so any order may be. *)
BuildReport(market, themes, vet) ==
    LET buckets   == [k \in DOMAIN themes |-> Bucket(market, themes[k])]
        shortlist == RoundRobin(buckets, TopThemes * PerTheme * Spare)
        theme     == [s \in ToSet(shortlist) |-> ThemeOf(s, themes)]
        chosen    == Chosen(shortlist, vet, theme)
        ofTheme(s) == [symbol  |-> s, theme |-> theme[s],
                       rank    |-> CHOOSE k \in DOMAIN themes : themes[k] = theme[s],
                       breadth |-> Len(UpMembers(market, theme[s]))]
        ofWatch(s) == [symbol |-> s, theme |-> "watchlist", rank |-> 0, breadth |-> 0]
        watched   == WatchlistCandidates(ToSet(chosen), market, vet)
    IN [bucket     |-> [k \in ToSet(themes) |-> Bucket(market, k)],
        rejected   |-> {s \in Stock : ~Vetted(s, vet)},
        candidates |-> [k \in DOMAIN chosen |-> ofTheme(chosen[k])] \o
                       [k \in DOMAIN watched |-> ofWatch(watched[k])]]

NoReport == [bucket |-> [t \in {} |-> <<>>], rejected |-> {}, candidates |-> <<>>]

(* What a screening may find, over the rankings and what is known.  Of the *)
(* qualified themes the TopThemes best are picked.                         *)
Reports ==
    {BuildReport(ask[1], ask[2], ask[3]) : ask \in UNION {
        LET best == IF Cardinality(Qualified(m)) < TopThemes
                    THEN Cardinality(Qualified(m)) ELSE TopThemes
        IN {m} \X {q \in [1 .. best -> Qualified(m)] : IsInjective(q)} \X Vets :
        m \in {MarketSnapshot(busy, rising) : busy, rising \in Rankings}}}

(* rescreen when it is due: the report, the candidates, the performance. *)
NewReport == report' \in Reports /\ stats' \in Stats

------------------------------------------------------------------------------
\* The loop, and manage_positions.

SelectionInit ==
    /\ step = "idle" /\ clock = 1
    /\ todo = {} /\ force = FALSE /\ mayAdd = FALSE /\ halted = FALSE
    /\ report = NoReport /\ stats \in Stats
    /\ positions = [s \in {} |-> 0] /\ trades = 0 /\ cooling = {} /\ orbDone = {}
    /\ scored = <<>> /\ budget = 0

(* A round: the window, _allow_add, and manage_positions over what is held. *)
BeginRound ==
    /\ step = "idle"
    /\ clock' \in clock .. Len(Hours)
    /\ mayAdd' = (~halted /\ Hours[clock'] \in {"open", "main", "close"})
    /\ todo' = DOMAIN positions /\ force' = FALSE
    /\ step' = IF DOMAIN positions = {} THEN "check" ELSE "manage"
    /\ UNCHANGED <<halted, orbDone, holding, picking, buying>>

(* The prices cannot be read: nothing is managed in this round. *)
NoPrices ==
    /\ step = "manage" /\ todo = DOMAIN positions
    /\ todo' = {}
    /\ UNCHANGED <<step, clock, force, mayAdd, halted, orbDone, holding, picking, buying>>

EndManage ==
    /\ step = "manage" /\ todo = {}
    /\ step' = IF force THEN "screen" ELSE "check"
    /\ UNCHANGED <<clock, todo, force, mayAdd, halted, orbDone, holding, picking, buying>>

(* The kill switch; a halt closes all that is held. *)
Check ==
    /\ step = "check"
    /\ \/ ~halted /\ step' = "screen" /\ UNCHANGED <<todo, force, halted>>
       \/ /\ halted' = TRUE
          /\ todo' = DOMAIN positions /\ force' = (DOMAIN positions # {})
          /\ step' = IF DOMAIN positions = {} THEN "screen" ELSE "manage"
    /\ UNCHANGED <<clock, mayAdd, orbDone, holding, picking, buying>>

\* The position once its price is seen.
Seen(s, p) ==
    [positions[s] EXCEPT !.last = p, !.peak = IF p > @ THEN p ELSE @, !.short = FALSE]

(* A price is seen.  Without one a position is left alone, unless it has to *)
(* be closed: then the last known price, its peak, has to do, which is one  *)
(* of Price as well.                                                        *)
Look(s, p) == step = "manage" /\ s \in todo /\ p \in Price

NoPrice(s) ==
    /\ step = "manage" /\ s \in todo /\ ~force
    /\ todo' = todo \ {s}
    /\ UNCHANGED <<step, clock, force, mayAdd, halted, orbDone, holding, picking, buying>>

(* _close_position: in full, in part, or the order fails.  A sale of the   *)
(* whole that leaves a rest has fallen short.  Every sale asks the kill    *)
(* switch, and a fatal failure halts as well.                              *)
Sold(s, p, part, outcome) ==
    /\ \/ /\ outcome = "all"
          /\ positions' = [u \in DOMAIN positions \ {s} |-> positions[u]]
          /\ trades' = trades + 1 /\ cooling' = cooling \cup {s}
       \/ /\ outcome = "part"
          /\ positions' = [positions EXCEPT ![s] =
                            IF part THEN [Seen(s, p) EXCEPT !.scaledOut = @ + 1]
                                    ELSE [Seen(s, p) EXCEPT !.short = TRUE]]
          /\ UNCHANGED <<trades, cooling>>
       \/ /\ outcome = "none"
          /\ positions' = [positions EXCEPT ![s] = [Seen(s, p) EXCEPT !.short = TRUE]]
          /\ UNCHANGED <<trades, cooling>>
    /\ halted' \in {halted, TRUE}
    /\ todo' = todo \ {s}
    /\ UNCHANGED <<step, clock, force, mayAdd, orbDone, picking, buying>>

Outcomes == {"all", "part", "none"}

Close(s, p, signs) ==
    /\ Look(s, p)
    /\ EvaluateExit(Seen(s, p), p, force, signs) # "none"
    /\ \E outcome \in Outcomes : Sold(s, p, FALSE, outcome)

(* exit_step: the first part at half the way, the second at the target. *)
ExitStep(s, p) ==
    LET gain == (p - positions[s].entry) * 100 IN
    /\ ScaleOut
    /\ \/ positions[s].scaledOut = 0 /\ gain >= FirstExit * positions[s].entry
       \/ positions[s].scaledOut = 1 /\ gain >= TakeProfit * positions[s].entry

(* breakeven_hit: a gain once taken is not turned into a loss. *)
BreakevenHit(s, p) ==
    ScaleOut /\ positions[s].scaledOut >= 1 /\ p * 1000 <= positions[s].entry * 1001

\* No exit rule fires; parts, break-even and adding are up.
Stays(s, p, signs) ==
    /\ Look(s, p)
    /\ EvaluateExit(Seen(s, p), p, force, signs) = "none"

SellPart(s, p, signs) ==
    /\ Stays(s, p, signs) /\ ExitStep(s, p)
    /\ \E outcome \in Outcomes : Sold(s, p, TRUE, outcome)

GivenBack(s, p, signs) ==
    /\ Stays(s, p, signs) /\ ~ExitStep(s, p) /\ BreakevenHit(s, p)
    /\ \E outcome \in Outcomes : Sold(s, p, FALSE, outcome)

Keeps(s, p, signs) ==
    Stays(s, p, signs) /\ ~ExitStep(s, p) /\ ~BreakevenHit(s, p)

Hold(s, p, signs) ==
    /\ Keeps(s, p, signs)
    /\ positions' = [positions EXCEPT ![s] = Seen(s, p)]
    /\ todo' = todo \ {s}
    /\ UNCHANGED <<step, clock, force, mayAdd, halted, trades, cooling, orbDone,
                   picking, buying>>

(* add_due: more than a step above the last purchase and the average. *)
AddDue(s, p) ==
    /\ positions[s].adds < MaxAdds /\ positions[s].scaledOut = 0
    /\ (p - positions[s].lastFill) * 100 >= AddStep * positions[s].lastFill
    /\ (p - positions[s].entry) * 100 >= AddStep * positions[s].entry

Context(c, seen, orb) ==
    [chart |-> seen.chart, limit |-> seen.limit, orbDone |-> orb,
     rank |-> c.rank, breadth |-> c.breadth, window |-> Window]

\* What a symbol that is no longer a candidate is judged by.
Stranger == [symbol |-> "", theme |-> "", rank |-> 0, breadth |-> 0]

CandidateOf(s) ==
    LET found == {i \in DOMAIN report.candidates : report.candidates[i].symbol = s}
    IN IF found = {} THEN Stranger
       ELSE report.candidates[CHOOSE i \in found : \A j \in found : i <= j]

(* _maybe_add: a gain, and an entry signal that still holds; whether cash,  *)
(* minimum amount, the OCO and the order allow it too is open (else Hold).  *)
Add(s, p, signs) ==
    /\ Keeps(s, p, signs)
    /\ mayAdd /\ AddDue(s, p)
    /\ \E bars \in Chartings :
          EvaluateEntry(Context(CandidateOf(s), [bars[s] EXCEPT !.limit = FALSE], TRUE),
                        stats, "none") # NoVerdict
    /\ positions' = [positions EXCEPT ![s] =
                      [Seen(s, p) EXCEPT !.entry = (@ + p) \div 2, !.adds = @ + 1, !.lastFill = p]]
    /\ todo' = todo \ {s}
    /\ UNCHANGED <<step, clock, force, mayAdd, halted, trades, cooling, orbDone,
                   picking, buying>>

------------------------------------------------------------------------------
\* rescreen and try_entries.

(* rescreen: a new report when it is due, else only new prices. *)
Rescreen ==
    /\ step = "screen" /\ ~halted
    /\ step' = "enter"
    /\ NewReport \/ UNCHANGED picking
    /\ UNCHANGED <<clock, todo, force, mayAdd, halted, orbDone, holding, buying>>

NoRescreen ==
    /\ step = "screen" /\ halted
    /\ step' = "idle"
    /\ UNCHANGED <<clock, todo, force, mayAdd, halted, orbDone, holding, picking, buying>>

(* get_selection(refresh): the web server's thread screens with the same   *)
(* engine, whatever the engine is doing.                                   *)
WebRescreen ==
    /\ NewReport
    /\ UNCHANGED <<step, clock, todo, force, mayAdd, halted, orbDone, holding, buying>>

(* The way to the candidates: trading hours, the cap, the budget.  Bad     *)
(* prices or the kill switch may stop the round before it as well.         *)
SkipEntries ==
    /\ step = "enter"
    /\ step' = "idle"
    /\ halted' \in {halted, TRUE}
    /\ UNCHANGED <<clock, todo, force, mayAdd, orbDone, holding, picking, buying>>

\* What is held will be a trade once it is sold.
EntryBudget == DailyMaxTrades - trades - Cardinality(DOMAIN positions)

\* Scored, as if the list were not sorted
AsListed(verdicts) == verdicts

\* scored.sort: the strongest signal first.
Scored(verdicts) == Falling(verdicts, [v \in ToSet(verdicts) |-> v.score])

\* One verdict, with the symbol it is on.
On(symbol, v) == [symbol |-> symbol, rule |-> v.rule, score |-> v.score, terms |-> v.terms]

(* The verdicts on the candidates that are not passed by, in their order. *)
Verdicts(bars, best) ==
    LET of(c) == EvaluateEntry(Context(c, bars[c.symbol], c.symbol \in orbDone), stats, best)
        seen  == Picked(report.candidates, {i \in DOMAIN report.candidates :
                    LET c == report.candidates[i] IN
                    /\ c.symbol \notin DOMAIN positions \cup cooling
                    /\ bars[c.symbol].bars
                    /\ of(c) # NoVerdict})
    IN [k \in DOMAIN seen |-> On(seen[k].symbol, of(seen[k]))]

(* try_entries up to the sort: all candidates are judged before any is     *)
(* bought; held and cooling symbols and those without bars are passed by.  *)
Evaluate ==
    /\ step = "enter" /\ Trading
    /\ Cardinality(DOMAIN positions) < MaxPositions /\ EntryBudget > 0
    /\ \E bars \in Chartings, best \in Rules \cup {"none"} :
          scored' = Scored(Verdicts(bars, best))
    /\ budget' = EntryBudget
    /\ step' = IF scored' = <<>> THEN "idle" ELSE "buy"
    /\ UNCHANGED <<clock, todo, force, mayAdd, halted, orbDone, holding, picking>>

NewPosition(p) ==
    [entry |-> p, peak |-> p, last |-> p, lastFill |-> p,
     scaledOut |-> 0, adds |-> 0, short |-> FALSE]

\* Without budget or with the cap reached the rest of the list is passed by.
RoomLeft == budget > 0 /\ Cardinality(DOMAIN positions) < MaxPositions

(* One turn of the buying loop.  The budget shrinks and the opening range  *)
(* is used up whether or not the order fills.                              *)
Buy ==
    /\ step = "buy" /\ scored # <<>> /\ RoomLeft
    /\ scored' = Tail(scored) /\ budget' = budget - 1
    /\ orbDone' = IF Head(scored).rule = "orb" THEN orbDone \cup {Head(scored).symbol}
                                              ELSE orbDone
    /\ \/ \E p \in BuyPrice :
             /\ positions' = [s \in DOMAIN positions \cup {Head(scored).symbol} |->
                          IF s = Head(scored).symbol THEN NewPosition(p) ELSE positions[s]]
             /\ UNCHANGED halted
       \/ UNCHANGED positions /\ halted' \in {halted, TRUE}
    /\ UNCHANGED <<step, clock, todo, force, mayAdd, trades, cooling, picking>>

EndBuy ==
    /\ step = "buy" /\ (scored = <<>> \/ ~RoomLeft)
    /\ scored' = <<>> /\ budget' = 0
    /\ step' = "idle"
    /\ UNCHANGED <<clock, todo, force, mayAdd, halted, orbDone, holding, picking>>

(* A cooldown ends. *)
Cooled ==
    /\ cooling # {}
    /\ \E s \in cooling : cooling' = cooling \ {s}
    /\ UNCHANGED <<step, clock, todo, force, mayAdd, halted, orbDone, positions, trades,
                   picking, buying>>

Manage(s) ==
    \/ NoPrice(s)
    \/ \E p \in Price, signs \in Signs :
          \/ Close(s, p, signs) \/ SellPart(s, p, signs) \/ GivenBack(s, p, signs)
          \/ Hold(s, p, signs) \/ Add(s, p, signs)

SelectionNext ==
    \/ BeginRound \/ NoPrices \/ EndManage \/ Check
    \/ \E s \in Stock : Manage(s)
    \/ Rescreen \/ NoRescreen \/ WebRescreen
    \/ SkipEntries \/ Evaluate \/ Buy \/ EndBuy \/ Cooled

SelectionSpec == SelectionInit /\ [][SelectionNext]_selectionVars

------------------------------------------------------------------------------
\* Properties

(* Types. The sequences of the report and the queue hold known symbols only. *)
SelectionTypeOK ==
    /\ step \in {"idle", "manage", "check", "screen", "enter", "buy"}
    /\ clock \in DOMAIN Hours /\ todo \subseteq DOMAIN positions /\ DOMAIN positions \subseteq Stock
    /\ {force, mayAdd, halted} \subseteq BOOLEAN
    /\ Cardinality(DOMAIN positions) <= MaxPositions /\ trades \in 0 .. DailyMaxTrades
    /\ cooling \cup orbDone \subseteq Stock
    /\ \A i \in DOMAIN report.candidates : report.candidates[i].symbol \in Stock
    /\ \A i \in DOMAIN scored : scored[i].rule \in Rules /\ scored[i].symbol \in Stock
    /\ budget \in 0 .. DailyMaxTrades

(* No theme starves another: each picked theme brings no more than          *)
(* PerTheme candidates, and fewer only if every one of its strongest        *)
(* Spare * PerTheme members was looked at and turned down (the round robin  *)
(* of build_report, whose plain cut once dropped whole themes).             *)
FairShare ==
    \A t \in DOMAIN report.bucket :
        LET mine == {report.candidates[i].symbol :
                       i \in {j \in DOMAIN report.candidates : report.candidates[j].theme = t}}
        IN /\ Cardinality(mine) <= PerTheme
           /\ Cardinality(mine) < PerTheme =>
                \A i \in DOMAIN report.bucket[t] :
                    i <= Spare * PerTheme => report.bucket[t][i] \in mine \cup report.rejected

Opened == DOMAIN positions' \ DOMAIN positions

(* The budget goes to the strongest signals of the round: what is bought    *)
(* has no stronger signal waiting behind it, whatever order the candidates  *)
(* stand in (try_entries judges all of them before it buys any).            *)
StrongestFirst ==
    [][\A s \in Opened :
          /\ s = scored[1].symbol
          /\ \A i \in DOMAIN scored : scored[i].score <= scored[1].score]_selectionVars

(* A position is opened only on a verdict of a configured rule whose every  *)
(* need was seen to hold (what cannot be measured does not count), in a     *)
(* window the rule is for, and on an opening range only once a day.         *)
BuysOnASignal ==
    [][\A s \in Opened :
          LET v == scored[1] IN
          /\ v.rule \in Rules
          /\ Window \in EntryTechniques[v.rule].windows
          /\ \A k \in EntryTechniques[v.rule].needs \ {"vi_gap"} : v.terms[k] = "holds"
          /\ v.rule = "orb" => s \notin orbDone]_selectionVars

(* Buying never finds the symbol held: a second Position would take the     *)
(* place of the first, whose shares would then be nobody's (_open_position  *)
(* assigns state.positions[symbol] without a look; the symbol may be in a   *)
(* theme and on the watchlist, and the web may screen in between).          *)
NeverBoughtTwice ==
    step = "buy" /\ scored # <<>> /\ RoomLeft =>
        Head(scored).symbol \notin DOMAIN positions

(* After its price was seen a held position is above its stop and, once a   *)
(* part was sold, above break-even, unless the sale that tried to end it    *)
(* fell short: neither sales in parts, nor adding, nor the order of the     *)
(* exit rules let a loss run.                                               *)
LossesAreCut ==
    \A s \in DOMAIN positions :
        ~positions[s].short =>
            /\ positions[s].last * 100 > positions[s].entry * (100 - StopLoss)
            /\ positions[s].scaledOut > 0 => positions[s].last > positions[s].entry
=============================================================================
