------------------------------- MODULE Settings -------------------------------
(***************************************************************************)
(* The settings file (config.py): what load_config makes of it, and what   *)
(* it refuses.  A file has three sections, as far as the engines are       *)
(* concerned: the domestic market's with what goes with it, the crypto     *)
(* market's, which stands for the overseas and the swing market's, and the *)
(* sizing every market reads.  A setting that is only looked at to see     *)
(* whether it lies in its range is left out when a like one is here;       *)
(* Legible stands for the keys, paths and times that can be read at all.   *)
(* Rates are counted in Unit, times in minutes.                            *)
(***************************************************************************)
EXTENDS Integers

Unit == 100000

Modes == {"sim", "replay", "web", "paper", "live"}
CryptoModes == {"web", "sim", "paper", "live"}
Simulated(cfg) == cfg.domestic.mode \in {"sim", "replay"}
IsLive(cfg) == cfg.domestic.mode = "live"

\* The registries of techniques, one for each way they are told apart here.
EntryKeys == {"breakout", "orb", "open_gap"}
ExitKeys == {"fixed", "trailing"}
FastExtra == {"orb"}
DomesticOnly == {"open_gap"}

------------------------------------------------------------------------------
\* apply_style: a quick style overrides what the file says.

Styles == {"normal", "fast", "scalp"}
Quick(s) == s \in {"fast", "scalp"}

QuickRates == [fast |-> [stop |-> 2500, profit |-> 5000],
               scalp |-> [stop |-> 1200, profit |-> 2400]]
CryptoRates == [QuickRates EXCEPT !.scalp = [stop |-> 1500, profit |-> 3000]]

Greater(a, b) == IF a > b THEN a ELSE b

StyledDomestic(r) ==
    IF Quick(r.style)
    THEN [r EXCEPT !.entries = @ \cup FastExtra \cup DomesticOnly,
                   !.trades = Greater(@, 30),
                   !.losses = IF r.style = "scalp" THEN Greater(@, 3) ELSE @,
                   !.stop = QuickRates[r.style].stop,
                   !.profit = QuickRates[r.style].profit]
    ELSE r

StyledCrypto(c) ==
    IF Quick(c.style)
    THEN [c EXCEPT !.entries = @ \cup FastExtra,
                   !.stop = CryptoRates[c.style].stop,
                   !.profit = CryptoRates[c.style].profit]
    ELSE c

Styled(file) ==
    [file EXCEPT !.domestic = StyledDomestic(@), !.crypto = StyledCrypto(@)]

------------------------------------------------------------------------------
\* validate, in its order.

\* The limits of the day and of the week, and the money.
Bounded(r) ==
    /\ r.mode \in Modes /\ r.style \in Styles
    /\ r.positions >= 1 /\ r.losses >= 1 /\ r.allocation >= 0
    /\ 0 < r.weekly /\ 2 * r.weekly <= Unit /\ r.daily <= r.weekly
    /\ r.stop > 0 /\ r.profit > 0

\* In hundredths: how a position is opened, added to and sold off.
Sized(z) ==
    /\ 10 <= z.min /\ z.min <= 100 /\ 100 <= z.max /\ z.max <= 300
    /\ 20 <= z.initial /\ z.initial <= 100 /\ z.adds \in 0 .. 5
    /\ z.first \in 5 .. 90 /\ z.second \in 5 .. 95

\* profit > 2 * breakeven_pct, breakeven being (2c + t) / (1 - c - t).
Pays(profit, c, t) == profit * (Unit - c - t) > 2 * (2 * c + t) * Unit

PaysCosts(cfg) ==
    /\ Pays(cfg.domestic.profit, cfg.domestic.commission, cfg.domestic.tax)
    /\ Pays(cfg.crypto.profit, cfg.crypto.commission, 0)

\* Entries end before the close, and the close before the closing auction at 15:20.
InHours(r) ==
    /\ r.scanStart < r.scanEnd /\ r.scanEnd < r.close
    /\ r.grace \in 1 .. 20
    /\ r.close + r.grace <= 15 * 60 + 19

HasTechniques(entries, exits) ==
    /\ entries # {} /\ entries \subseteq EntryKeys
    /\ exits \subseteq ExitKeys /\ "fixed" \in exits

Playable(r) ==
    /\ r.nights = 1
    /\ HasTechniques(r.entries, r.exits)
    /\ r.mode = "live" => r.preflight

Valid(cfg) ==
    /\ Bounded(cfg.domestic) /\ cfg.crypto.style \in Styles
    /\ Sized(cfg.sizing)
    /\ PaysCosts(cfg)
    /\ InHours(cfg.domestic)
    /\ Playable(cfg.domestic)

\* load_config returns: the file can be read, and what the styles make of it is valid.
Loads(file) ==
    LET cfg == Styled(file) IN
    /\ file.legible
    /\ cfg.crypto.mode \in CryptoModes
    /\ HasTechniques(cfg.crypto.entries, cfg.crypto.exits)
    /\ Valid(cfg)
=============================================================================
