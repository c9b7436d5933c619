------------------------------ MODULE Preflight ------------------------------
(***************************************************************************)
(* The check of the account before live trading (safety.py: preflight) and *)
(* what tidies up after it (cleanup_orphans).  An account says which       *)
(* lookups fail (`fails'), whether the market opens today, the cash there  *)
(* is, the orders and conditional orders that are open, the symbols the    *)
(* exchange knows, and the positions in the state file (`book').  The      *)
(* checks that only warn are left out: they stop nothing.                  *)
(***************************************************************************)
EXTENDS Settings

Lookup == {"accounts", "account", "calendar", "cash", "orders", "conditional", "stocks"}

Answers(a, lookup) == lookup \notin a.fails

\* Credentials, and a brokerage account: without them nothing else is looked at.
Identified(a) == Answers(a, "accounts") /\ Answers(a, "account")

MarketOpen(a) == Answers(a, "calendar") /\ a.open

\* The cash covers the first buy of a position, its share of the allocation (`initial'
\* is in hundredths), and the whole allocation.
BuyingPower(cfg, a) ==
    LET r == cfg.domestic IN
    /\ Answers(a, "cash")
    /\ r.allocation * cfg.sizing.initial <= 100 * a.cash * Greater(1, r.positions)
    /\ r.allocation <= a.cash

Tracked(book) == {p.symbol : p \in book}

\* An order of a symbol that is not held is in the way, whoever gave it.
OpenOrders(a, book) ==
    /\ Answers(a, "orders")
    /\ \A o \in a.orders : o.symbol \in Tracked(book)

ConditionalOrders(a, book) ==
    /\ Answers(a, "conditional")
    /\ \A o \in a.conditional :
          o.symbol \in Tracked(book) \/ \E p \in book : p.oco = o.id

ThemesVerified(cfg, a) == Answers(a, "stocks") /\ cfg.domestic.themes \subseteq a.listed

CostConfig(cfg) == Pays(cfg.domestic.profit, cfg.domestic.commission, cfg.domestic.tax)

\* Nothing blocks.
Clears(cfg, a, book) ==
    /\ Identified(a)
    /\ MarketOpen(a)
    /\ BuyingPower(cfg, a)
    /\ OpenOrders(a, book) /\ ConditionalOrders(a, book)
    /\ ThemesVerified(cfg, a) /\ CostConfig(cfg)

\* The pages' checks pass no positions; the engine's passes those of its state file.
PageClears(cfg, a) == Clears(cfg, a, {})
EngineClears(cfg, a) == Clears(cfg, a, a.book)

\* The open orders cleanup_orphans tries to cancel: our own, of symbols that are not held.
Orphans(a) == {o \in a.orders : o.ours /\ o.symbol \notin Tracked(a.book)}
=============================================================================
