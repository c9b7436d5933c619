------------------------------ MODULE Playbook ------------------------------
(***************************************************************************)
(* The rules by which the engines enter and leave a position (playbook.py).*)
(* A rule measures terms on the bars of a symbol and compares each with a  *)
(* threshold.  What a measurement shows is data: a term reads "holds",     *)
(* "fails" or "unknown" (a value that is None or NaN).  Kept are which     *)
(* terms each rule needs and which it only likes to see, how a verdict and *)
(* its score come of them, how the entry rules compete, and the order in   *)
(* which the exit rules are heard.                                         *)
(***************************************************************************)
EXTENDS Integers, FiniteSets, Sequences

CONSTANTS
    EntryOrder,    \* strategy.entry_order, a sequence of rule names
    ExitEnabled,   \* strategy.exit_enabled, a set of rule names
    BestSignal,    \* strategy.best_signal
    Learning,      \* technique_learning_mode
    Weight,        \* strategy.performance_weight, percent
    MinTrades,     \* strategy.min_trades_for_weight
    Boost,         \* technique_prefs.PREFERENCE_BOOST, percent
    MinMembersUp,  \* screen.min_theme_members_up
    StopLoss, TakeProfit, TrailArm, TrailDrop,  \* risk.*, percent
    ScaleOut       \* sizing.scale_out

Readings == {"holds", "fails", "unknown"}

------------------------------------------------------------------------------
\* Entry rules: when they may be used, what they need, what they like to see.

Rule(windows, needs, likes) ==
    [windows |-> windows, needs |-> needs, likes |-> likes]

Breakout == Rule({"main"},
    {"bars_enough", "breakout", "bullish", "volume", "trend", "vi_gap"},
    {"body", "rs"})

ThemeLeader == Rule({"main"},
    {"theme_breadth", "is_leader", "theme_intensity", "leader_rs", "trend",
     "not_extended", "vi_gap"},
    {"theme_accel"})

VwapPullback == Rule({"main"},
    {"above_vwap_day", "pullback", "reclaim", "volume_calm", "day_gain", "vi_gap"}, {})

VwapReclaim == Rule({"main"},
    {"was_below", "crossed", "reclaim_gap", "volume_surge", "close_strength",
     "bullish", "vi_gap"}, {})

OpenGap == Rule({"open", "main"},
    {"kr_time", "gap", "gap_hold", "orb_break", "above_vwap", "volume_surge",
     "bullish", "vi_gap"}, {})

CloseSqueeze == Rule({"main", "close"},
    {"kr_time", "day_gain", "near_high", "vwap_up", "above_vwap", "volume_surge",
     "bullish", "vi_gap"}, {})

Orb == Rule({"main"},
    {"window_ready", "or_break", "or_width", "volume", "time_left", "first_break",
     "vi_gap"}, {})

VolumeDryPop == Rule({"main"},
    {"dry", "tight", "pop", "bullish", "break_tight", "vi_gap"}, {})

BullFlag == Rule({"main"},
    {"bars_enough", "pole", "retrace", "flag_break", "volume", "vi_gap"}, {"flag_dry"})

MaPullback == Rule({"main"},
    {"bars_enough", "adx", "above_ma", "touched", "trigger", "vi_gap"}, {"volume"})

VolatilityBreakout == Rule({"main"}, {"bars_enough", "breakout"}, {})

RsiPullback == Rule({"main"},
    {"bars_enough", "trend", "rsi_oversold", "vi_gap"}, {"volume"})

SwingMaPullback == Rule({"main"}, {"bars_enough", "uptrend", "touched", "trigger"}, {})

SwingBreakout == Rule({"main"}, {"bars_enough", "breakout", "bullish", "volume"}, {})

SwingGoldenCross == Rule({"main"}, {"bars_enough", "crossed_up", "was_below"}, {})

EntryTechniques ==
    [breakout |-> Breakout, theme_leader |-> ThemeLeader,
     vwap_pullback |-> VwapPullback, vwap_reclaim |-> VwapReclaim,
     open_gap |-> OpenGap, close_squeeze |-> CloseSqueeze, orb |-> Orb,
     volume_dry_pop |-> VolumeDryPop, bull_flag |-> BullFlag,
     ma_pullback |-> MaPullback, rsi_pullback |-> RsiPullback,
     volatility_breakout |-> VolatilityBreakout,
     swing_ma_pullback |-> SwingMaPullback, swing_breakout |-> SwingBreakout,
     swing_golden_cross |-> SwingGoldenCross]

Rules == {EntryOrder[i] : i \in DOMAIN EntryOrder}

ASSUME PlaybookAssumption ==
    /\ EntryOrder \in Seq(DOMAIN EntryTechniques)
    /\ {Weight, Boost} \subseteq Nat

(* Without an upper limit price there is no vi_gap term. *)
Needs(rule, ctx) ==
    EntryTechniques[rule].needs \ (IF ctx.limit THEN {} ELSE {"vi_gap"})

(* A term the engine computes from what it knows, or reads off the chart. *)
Reading(rule, key, ctx) ==
    LET says(b) == IF b THEN "holds" ELSE "fails" IN
    CASE key = "first_break"   -> says(~ctx.orbDone)
      [] key = "is_leader"     -> says(ctx.rank <= 1)
      [] key = "theme_breadth" -> says(ctx.breadth >= MinMembersUp)
      [] OTHER                 -> ctx.chart[rule][key]

\* mk_term, as if a comparison with a missing value came out true
PassedUnlessMissed(reading) == reading # "fails"

\* mk_term: what cannot be measured does not pass.
Passed(reading) == reading = "holds"

BlockedBy(rule, ctx) == {k \in Needs(rule, ctx) : ~Passed(Reading(rule, k, ctx))}

(* finish, for a verdict that passes: 75 % for what is needed, the rest by *)
(* the share of what is liked.                                             *)
Score(rule, ctx) ==
    LET likes == EntryTechniques[rule].likes
        seen  == {k \in likes : Passed(ctx.chart[rule][k])}
    IN IF likes = {} THEN 100
                     ELSE 75 + (25 * Cardinality(seen)) \div Cardinality(likes)

Clamped(x, lo, hi) == IF x < lo THEN lo ELSE IF x > hi THEN hi ELSE x

(* stats[rule] has the trades of a rule and its share of wins, percent. *)
PerformanceMultiplier(rule, stats) ==
    IF stats[rule].trades < MinTrades THEN 100
    ELSE Clamped(100 + (Weight * (2 * stats[rule].wins - 100)) \div 100, 70, 130)

PreferenceMultiplier(rule, best) == IF best = rule THEN Boost ELSE 100

SelectionScore(rule, ctx, stats, best) ==
    Score(rule, ctx) *
    (IF ~BestSignal \/ Learning = "none" THEN 100 * 100
     ELSE PerformanceMultiplier(rule, stats) * PreferenceMultiplier(rule, best))

PassedRules(ctx) ==
    {i \in DOMAIN EntryOrder :
        /\ ctx.window \in EntryTechniques[EntryOrder[i]].windows
        /\ BlockedBy(EntryOrder[i], ctx) = {}}

NoVerdict == [rule |-> "none", score |-> 0]

(* evaluate_entry: of the rules that pass, the one with the best score; the *)
(* first of the configured order among equals, or simply the first.         *)
EvaluateEntry(ctx, stats, best) ==
    LET score(i) == SelectionScore(EntryOrder[i], ctx, stats, best)
        wins(i)  == \A j \in PassedRules(ctx) :
                        IF BestSignal THEN \/ score(i) > score(j)
                                           \/ score(i) = score(j) /\ i <= j
                                      ELSE i <= j
        winner   == CHOOSE i \in PassedRules(ctx) : wins(i)
        rule     == EntryOrder[winner]
    IN IF PassedRules(ctx) = {} THEN NoVerdict
       ELSE [rule |-> rule, score |-> score(winner),
             terms |-> [k \in Needs(rule, ctx) |-> Reading(rule, k, ctx)]]

------------------------------------------------------------------------------
\* Exit rules.  pos has the average price and the peak, last is the price now,
\* signs has what the bars and the clock say.

ExitSigns == [atr : Readings, fade : 0 .. 3, ripe : BOOLEAN, old : BOOLEAN]

\* FixedExit, as if the missing target of scale_out also took the stop with it
FixedStopUnscaled(pos, last) ==
    ~ScaleOut /\ last * 100 <= pos.entry * (100 - StopLoss)

FixedStop(pos, last) == last * 100 <= pos.entry * (100 - StopLoss)

\* With partial sales the engine takes the profit in parts itself.
FixedTake(pos, last) ==
    ~ScaleOut /\ last * 100 >= pos.entry * (100 + TakeProfit)

Trailing(pos, last) ==
    /\ (pos.peak - pos.entry) * 100 >= TrailArm * pos.entry
    /\ (pos.peak - last) * 100 >= TrailDrop * pos.peak

AtrStop(signs) == Passed(signs.atr)

\* Two of: volume fades, bars fall in a row, price below the VWAP.
MomentumFade(signs) == signs.ripe /\ signs.fade >= 2

\* Held too long or without progress; a carried position never is.
TimeStop(signs) == signs.old

ExitPriority == <<"force_close", "fixed_stop", "atr_stop", "fixed_take",
                  "trailing", "momentum_fade", "time_stop">>

Slot(key, pos, last, force, signs) ==
    CASE key = "force_close"   -> force
      [] key = "fixed_stop"    -> "fixed" \in ExitEnabled /\ FixedStop(pos, last)
      [] key = "fixed_take"    -> "fixed" \in ExitEnabled /\ FixedTake(pos, last)
      [] key = "atr_stop"      -> "atr_stop" \in ExitEnabled /\ AtrStop(signs)
      [] key = "trailing"      -> "trailing" \in ExitEnabled /\ Trailing(pos, last)
      [] key = "momentum_fade" -> "momentum_fade" \in ExitEnabled /\ MomentumFade(signs)
      [] key = "time_stop"     -> "time_stop" \in ExitEnabled /\ TimeStop(signs)

(* evaluate_exit: the first rule of the fixed order that asks for a sale. *)
EvaluateExit(pos, last, force, signs) ==
    LET fired == {i \in DOMAIN ExitPriority :
                    Slot(ExitPriority[i], pos, last, force, signs)}
    IN IF fired = {} THEN "none"
       ELSE ExitPriority[CHOOSE i \in fired : \A j \in fired : i <= j]
=============================================================================
