# A verification project for the day trader

This directory models `src/daytrader`, a live trading program for the Korean stock
market (Toss), with engines for overseas stocks, coins (Bithumb) and swing trading beside
it. The modules are written in TLA+, checked with TLC on small instances, and the most
important results about them are proved with TLAPS for every value of the constants.

Contents: 1 inventory, 2 models and code, 3 runs, 4 proofs, 5 disagreements between
code and documentation, 6 what is left out, 7 what could follow.

## 1. The system

One **engine thread** runs a loop (`Engine.run`): roll the date over, look at the
session, manage the open positions, look at the kill switch, screen, try to open new
positions, reconcile with the account, sleep. Everything it knows of the day is a
`DailyState` that it saves as `daily_state.json`. It trades through a **broker**; the
live broker journals every order in `order_intents` before it sends it through the
**Toss client**. The **server** of the brokerage executes orders and holds a
conditional stop/target order (an OCO) for each position. The **web server** starts and
stops engines through a **runner**, writes the settings file, and reads `snapshot()` of a
running engine from threads of its own. The **side engines** (overseas, crypto, swing) each
have a thread, a book of positions and a state file of their own, without locks.

| Component | State | Operations | Meets | Hard because | Correct when | Module |
|---|---|---|---|---|---|---|
| Order journal (`orders.py`) | rows `intent/sent/unknown` | `record`, `update`, `resolve_uncertain` | live broker, Toss client | lost answers, crashes between the write and the send | an intent reaches the exchange at most once, and never without its row | OrderOnce, LiveOrders |
| Live broker (`broker.py`) | `_bought_qty` | `buy`, `sell` with its chase, `_wait_fill`, `place_oco`, `cancel_oco`, `oco_is_open` | engine, journal, server | an order fills while it is cancelled; one call of several fails | what it reports as filled was filled; calls return | LiveOrders, Holdings |
| Toss client, router (`tossapi.py`, `router.py`) | token and its lock, `_skip_until` | `_request`, `_ensure_token`, `_call`, `prices`, `_order` | exchange, other processes | retries of 401, 429 and timeouts; one token for all | no retry executes an order again; calls end | Quotes |
| Daily state (`engine.py`) | counters, `halted`, positions; the same on disk | `load`, `save`, rollover | all of the engine | a crash between a change and its save; a restart on another day | a halt lasts for its day; positions outlive it | DayLimits, Overnight |
| Kill switch and limits (`engine.py`) | `halted`, `_api_fail_streak`, `_weekly_pnl_cache` | `_check_kill_switch`, `_halt`, `try_entries` | ledger, web threads | a check grows stale during a pass | limits and budgets are never exceeded | DayLimits |
| Position handling (`engine.py`) | `Position` with `oco_id` | `_open_position`, `_close_position`, `_maybe_add`, `_poll_server_oco` | broker, server | the server sells at the same time | no double sale; the OCO fits the position | Holdings |
| Close and night (`engine.py`) | `carried_date`, `_overnight_settled_date` | `_settle_overnight`, `_try_carry_overnight`, `_retry_close_pending`, `_rearm_carried_oco` | server, clock | restarts around the close and midnight | sold, carried once, or reported; in the morning the OCO is back | Overnight |
| Session calendar (`session.py`) | `_HolidayCache` of the process | `phase`, `check` | engine, swing engine, web, back-test | shared without a lock; the date is stored before the answer | no day is lost to yesterday's verdict | MarketSession |
| Reconciliation (`safety.py`) | none of its own | `reconcile`, `preflight`, `cleanup_orphans` | account, OCOs | the user trades on the same account | the account is the truth | Holdings, DayLimits, Preflight |
| Choosing (`screener.py`, `playbook.py`, `engine.py`) | report, queue of verdicts, cooldown | `build_report`, `evaluate_entry`, `evaluate_exit`, `try_entries`, `manage_positions` | web thread (forced screening) | verdicts grow stale while they are used; missing values | fair lists, strongest first, on signals only, losses cut | Playbook, Selection |
| Runner and events (`runner.py`) | thread, event queues | `start`, `stop`, `publish` | web server | a stop is three writes; slow readers | a stop ends the thread; what is lost is told | Control |
| Settings and server (`config.py`, `server.py`) | the settings file | load, validate, `post_config`, review, start and stop | all engines | written while engines run | the settings of a running market hold still | Settings, Control |
| Overseas and crypto engines, live | book, cooldown, file | pass, entries, additions, exits, liquidation, start | web thread, brokers | two threads on one book and one temporary file; uncertain answers | the book is the account; the file catches up | SideEngine |
| Their simulated brokers, swing | cash, book, file | buy, add, sell in parts, restart | exchange rate | restarts recompute the cash | the books balance; no symbol outgrows its share | PaperAccount |
| Lists and back-tests (the four engines, `auto_backtest.py`, `technique_prefs.py`) | dates of the lists, running jobs, preferences | rate themes, select, scan, back-test, save, clear | clock, web page | threads overtaken by midnight; one file for all markets | lists follow the day; no market's preferences are lost | UsCalendar, Reselection |
| News filter (`news_guard.py`) | verdicts and their age, times of the questions; those in the database | `gate`, `evaluate`, `warm`, `status` | engines of all markets, language model | one guard for all threads; every part may fail | recent news only, fails open, a limit of questions a day | NewsGuard |
| Ledger (`ledger.py`) | rows of trades and of equity | `append_trade`, `record_equity`, `reset`, the tables | engines, pages | rows come late; a day without a balance | the tables of a page agree with each other | Accounts |
| Collected news, notifications, text generation, secrets, tray, pages | data and reports | I/O | engine (as advice) | not a matter of order or failure | - | not modelled |

`PROJECT.json` lists each component with its status, and every hazard of the code that a
test would hardly reach with its line and the properties that are aimed at it.

## 2. Models and code

Each module names the functions it models, and each action the handler; the map in
`PROJECT.json` gives the lines. Several modules look at the domestic engine from different
sides, each concrete where the others are coarse:

- the inside of one order (`LiveOrders`): an order call, step by step;
- one symbol (`Holdings`): an order call is one step, the server's OCO is in the open;
- all symbols and days (`DayLimits`): purchases and sales are steps, their number counts;
- the close and the night (`Overnight`): a close is one step, the clock is in the open;
- a round's choice (`Selection`): a purchase is one step, prices and signals are in the open;
- its thread (`Control`): a round is one step, starts and stops are in the open.

An `MC...` module gives its module's constants their values for TLC; a `..._proofs` module
has theorems about the modules it extends: the one it is named after, and `Reselection` in
`SideEngine_proofs`, `NewsGuard` in `Control_proofs`; `Domestic_proofs` has those about
`Holdings` and `Selection`, `Market_proofs` those about `Quotes`, `MarketSession` and
`PaperAccount`. Modules that are extended together have no name in common, which is why some
specifications are called `SelectionSpec`, `PaperSpec`, `SessionSpec`, `GuardSpec` and
`ListsSpec`.
`Sums` has the lemmas about sums over finite sets that several of them need.

### OrderOnce, LiveOrders

`OrderOnce` is the promise of `orders.py` seen from outside: an intent is written down
(`Promise`), an order is made for it (`Make`), once. `LiveOrders` is the code:

- `book` is the table `order_intents` (latest row of an id), `exchange` and `wire` stand
  for the other side, `pc` and `call` for the place and the locals of the engine thread
  inside `buy` or `sell`, `bought` for `_bought_qty` (over all symbols), `halted` for
  `DailyState.halted`, `pass` and `clear` for the part of the loop the thread is in and for
  the test of `halted` that part made at its start.
- `StartEntry`, `StartAdd`, `StartClose` are `_open_position`, `_maybe_add` and
  `_close_position` up to the journal write. `Post`, `Accepted`, `SendAgain`, `Failed`,
  `NoAnswer` are `_send` and `TossClient._request`; `ResolveFinds/Misses/GivesUp` are
  `resolve_uncertain`; `Poll`, `WaitEnds` are `_wait_fill`; `Cancel`, `CancelFails`,
  `NothingToCancel`, `ChaseRest`, `Finish` are the rest of `buy` and `sell`; `Halt` is what
  the caller does with a fatal `Fill`.
- The environment accepts, refuses, loses, executes or expires orders, may accept an order
  and still answer with a 5xx, kills the process in any call and starts it again; the
  restart has the guard of `preflight`.
- `cut` is a history variable: the orders whose call was killed. `HaltsWhenUnconfirmed`
  excuses exactly those.

Not told apart: symbols, prices and the two sides of the book. The journal keeps rows, the
model keeps the latest (the code reads no other).

### DayLimits

`state` is the `DailyState` in memory and `disk` the one in the file; `ledger` is the sum of
this week's rows, `cache` is `_weekly_pnl_cache`; `mark` is what each position gained or
lost at its last price; `owned` says which positions are really in the account. Money is
counted in units of the limits. `pc` follows one round of `run()`:

`top` → (`Rollover`) → `Begin` → `query` → `Prices`/`NoPrices` → `manage` → (`Keep`, `Sell` +
`Book` + `SaveAndCheck`, `SellPart` + `SaveAndCheck`)* → `check` → `Check` (a forced close
runs `query`, `manage` again) → `entries` → `TryEntries` → `buying` → (`NotBought`, `Buy` +
`Register`)* → `reconcile` → `top`.

`_close_position` and `_open_position` are cut at the points where a crash makes a
difference: the order has filled (`sold`, `bought`), the trade is booked in memory and in
the ledger (`booked`), the state is saved. `Halt` stands for every `_halt` other than that
of the kill switch. `Book` leaves the cache empty or with the sum of the old ledger: the
code invalidates it before it writes the ledger, and `snapshot()` is called by threads of
the web server in between. `Reconcile` is `safety.reconcile` for positions the account no
longer has (`SoldOutside`). `Restart` is `DailyState.load` with `resume()`.

### Holdings

One symbol: `pos` is the `Position` in memory (quantity and `oco_id`), `saved` the one in
the file, `bought` is `_bought_qty`, `account` the truth, `oco` the conditional orders at
the server, `job` and `pc` the call in progress. `Open`, `StartClose`, `StartAdd`, `Poll`
and `Reconcile` start what the loop starts; `Cancelled`, `NotCancelled`, `StillOpen`,
`NotOpen` are `cancel_oco` and `oco_is_open` with the branches taken on them; `SellFills`,
`SellFails`, `NotOwned`, `BuyFills`, `BuyFails` are the trade; `Place`, `PlaceFails`,
`PlaceUnknown` are `place_oco` with a good answer, an error before, and an error after the
server took it. The server triggers, sells (in parts) and drops OCOs whenever it likes, the
user of the account trades beside the program, and the process dies at any point between
two calls.

### Overnight

`phase` and `day` are the clock as `session.phase` tells it; `pos` and `saved` are the
positions in memory and in the file, `server` the newest order of each symbol at the
server, which midnight drops; `settled` is `_overnight_settled_date`, `deadline` is
`_force_close_deadline`. `BeginSettle`, `Carry`, `Settle`, `EndSettle` are
`_settle_overnight`; `BeginRetry`, `Retry`, `EndRetry`, `GiveUp` the retries until the
deadline; `Rollover`, `Rearm`, `SkipRearm`, `EndRearm` the next morning; `Open`, `Exit`,
`Found` what the day's loop does to a position. A close is one step whose outcomes
(`CloseOutcomes`) are those `Holdings` shows inside: sold, not sold and reported, in part,
stuck behind an order that cannot be cancelled, taken for sold by the server. `raise` is the
switch of the settings. History: `told` are symbols the user was asked to look at, `left`
those whose order could not be looked up in the morning.

### SideEngine

`book` and `cool` are memory, `file` and `tmp` the two files of a save, `net` what the
program's orders left in the account. Two threads, `engine` and `server`, have a `pc`, a
`todo` (the symbols of their loop) and a `deal` (the order they are in the middle of): an
order is sent in one step (`Answered`, `Refused`, `Failed`) and booked in another (`EndSale`,
`EndBuy`), so that the other thread's step may fall between. `BeginOverseas`, `BeginCrypto`,
`Pass`, `Exit`, `Add`, `BeginEntries`, `EnterOverseas`, `EnterCrypto`, `Buy`, `EndPass` are
`run_once` and `manage_positions_only`; `BeginClose`, `Close`, `CloseNot`, `EndClose` are
`liquidate_all` called by the stop handlers; `Write` and `Replace` are `save`, into the same
temporary file for both threads; `Start` is the constructor with
`_reconcile_live_positions`. `doubt` collects the symbols for which the code cannot know the
truth (an error after the exchange took the order, both threads trading at once, an order
lost with the process).

### PaperAccount

The simulated brokers of the overseas, crypto and swing engines with the functions of
`sizing.py` they call: `Cap`, `EntryAmount`, `AddAmount`, `AddDue`, `StepDue`,
`BreakevenHit`. Amounts are integers in a unit that divides evenly in the run. `Visit` is
one symbol's turn in a pass (`Enter`, `SellAll`, `SellPart`, `AddTo`, `Keep`), `Liquidate`
the sale of everything, `End` the save, `Restarted` the constructor, which recomputes the cash
from the file (`Locked`, `Restored`), `Rated` a new exchange rate. `drift` (history) names
the two cases in which the sum is known to go wrong (section 5).

### MarketSession

`cache` is the process's `_HolidayCache`, `call` the calendar question a thread waits on,
with whether the object it began with is still the cache of the process. `Ask`, `Reply`,
`Fail`, `NobodyAsked`, `FromCache` are `check` cut at its HTTP call; `Rollover` is the
engine's, which discards the cache; `BackTest` asks about a day of the past.

### Quotes

`req` is the call each thread is making (`At`: waiting for the token, fetching it, sending,
asking the second source), `lock` is `_token_lock`, `token` the client's token as the
exchange and `Token.valid` would judge it, `left` is `_skip_until` in ticks. `Toss` is one
answer: 200, 401 (`Refused`), 429 (`Busy`), another error (`Rejected`), none (`Lost`).
`Elsewhere` is another process that is issued a token. Orders take `_order`, without a
second source and without resending.

### Settings, Preflight, Control

`Settings` is `load_config`, `apply_style` and `validate` as operators over a record;
`Preflight` the checks of `preflight` over an account, once as the page calls it
(`PageClears`, without positions) and once as the engine does (`EngineClears`). `Control`
has the runner's thread (`NextDay`, `Build`, `Run`, `LoopStops`, `LoopBreaks`, `CloseAll`,
`Throws`, `Returns`), the handlers (`EngineStart`, `EngineStop` + `RequestStop` +
`RequestClose`, `CryptoStart`, `PostConfig`, `Review`, `FixPreflight`) and one subscriber's
queue (`Publish`, `Notice`, `Event`, `Deliver`). Two publishers append: the log, under its
lock, and an exception of the runner's thread, which is not.

### Playbook, Selection

`Playbook` turns the readings of the terms of a rule (holds, fails, unknown) into a verdict:
which terms each of the fifteen rules needs and which it likes, windows, the scores with
what was learnt, the exit rules with their priority. `Selection` uses it over a day:
`BuildReport` is the screener (themes that rise, members that qualify, buckets, the round
robin, filters, the watchlist), `Evaluate` judges the candidates, `Buy` takes the head of
the queue `scored`, `Look` is a held position's turn with `Close`, `SellPart`, `GivenBack`,
`Keeps`, `Hold`, `Add`; `WebRescreen` is the web's forced screening at any moment. What a
chart shows, and a ranking, are inputs. Sorting and picking are said by `Ordered`, which
counts what stands before an element; the provers know nothing of TLC's `SortSeq`. Its
assumptions are what the files it reads have: `themes.yaml` lists a code once and in one theme,
counts and prices are natural numbers, the day has hours, and the rule with the stop
(`"fixed"`) is on, which `config.py` requires.

### UsCalendar, Reselection

`UsCalendar` computes the American exchange's holidays, daylight saving time and phases as
`overseas_engine.py` does. `Reselection` is how the lists follow: `RateThemes`,
`AutoSelect`, `BeginScan`/`EndScan`, `DailyEntryCycle`, `Rescreened`, each of which may set
off a back-test: `MaybeTrigger` looks whether it ran today, `Claim` takes the market's slot
under a lock, `Replay` and `Load`/`Save` follow in a thread; `RunFromPage` and `Clear` are
the laboratory's page. The clock (`Tick`) goes through chosen moments.

### NewsGuard

One guard for the process: `cfg` is whose settings `_GUARD.cfg` is, `cache` and `calls` are
`_cache` and `_calls`, `table` is `news_guard_calls` in the database of each `state_dir`.
`Begin` is `gate` (or the thread of `warm`) with `get_guard`; `LookInCache`, `Fetch` with
`Extends`/`Extend`, `Judge`, `Ask`, `Reply` are `evaluate` cut at the points where the lock
is given up or somebody else is waited for: the cache is read in one hold of the lock, the
headlines come without it, the limit is compared in a second hold, the question is counted
in a third, and the verdict is stored in a fourth. A verdict that is extended is an object the
thread found at the beginning, and the cache may hold another by now (`linked`). What fails
is the headlines, the model (an answer that is no verdict counts as a failure) and the write to
the database. `Crash` loses memory and keeps the tables.

### Accounts

Operators only: the tables `ledger.py` makes of its rows (`Daily`, `Monthly`, `Yearly`,
`Totals`, `ByTechnique`, `ByMode`, `Drawdown`), each made as the code makes it, from the rows
or from the table before it, and beside them what they are meant to be (`SumsAgree`,
`DrawdownIsTheWorstRun`, `OneMeasure`, `ResetKeeps`). Rates and averages are left out.

## 3. Runs

| Run | Shows | Bounds |
|---|---|---|
| `live_orders` | `SendsOnce` (LiveOrders implements OrderOnce), `SentIsAtTheExchange`, `BookNeverOverstates`, `HaltsWhenUnconfirmed`, `CallsReturn` | 3 ids, orders of 2 shares, 2 looks of `resolve_uncertain`, 1 resend |
| `day_limits` | `TradesStayInBudget`, `PositionsStayInCap`, `OpensWithinLimits`, `HaltLastsTheDay` | 3 symbols, 2 positions, 3 trades, 1 loss, 2 days, 1 ghost a day, 1 crash; symmetric symbols |
| `holdings` | `OcoFitsPosition`, `RestartKeepsQuantity`, `TradesOnlyWithoutOco`, `AccountWins` | 2 shares, `_bought_qty` up to 2, 2 OCOs, 1 trade of the user, crashes without bound |
| `overnight` | `CoveredOrTold`, `FileAgrees`, `CarriedOnce`, `ClosingEnds` | 2 symbols, 3 days, the third closed, 1 crash |
| `side_engine` | `BookIsAccount`, `FileCatchesUp`, `NoRebuyWhileCooling` | both engines, 2 symbols, 2 units each, 1 failing answer, 1 crash, 1 liquidation; symmetric symbols |
| `paper_account` | `WithinCap`, `BooksBalance` | 2 symbols, overseas and swing, 3 prices, 2 rates, 1 addition, 1 recorded trade, 1 restart |
| `market_session` | `RestsWronglyOnce`, `CalendarOncePerDay` | 3 days, the second a holiday, 1 failing call, 1 back-test, 2 passes a day |
| `quotes` | `SentOnce`, `RequestsEnd`, `PricesComeBack` | 2 threads, one call of each kind, 1 retry, a skip of 2 ticks |
| `control` | `StopEnds`, `SettingsHoldStill`, `LossesAreTold` | 5 settings files (two of them valid), 2 accounts, 2 days, a queue of 3, 1 exception |
| `selection` | `FairShare`, `StrongestFirst`, `BuysOnASignal`, `NeverBoughtTwice`, `LossesAreCut` | 4 symbols, 2 themes and a watchlist, 4 entry and 4 exit rules, 4 prices, 2 positions, 2 trades |
| `reselection` | `OthersKept`, `ListsFollow` | five moments around Thanksgiving 2026, 1 symbol, 1 failing lookup, 2 runs of the page |
| `news_guard` | `CapPerThread`, `AnswersAreRecent`, `OnlyBadNewsRefuses` | an engine, its warming thread and the page, 1 symbol, 2 kinds of headlines that change once, a limit of 1, 3 moments, 1 failing write, 1 restart |

The type invariant of every module with a specification of its own is proved (section 4), so
no run spends an invariant on it.

Why the bounds are enough. *live_orders*: three ids are an entry, a close and its chase, or
three entries in one pass; two shares make a partial fill and a rest; two looks are one that
misses and one that gives up; one resend is a 429 that is answered at the second try and one
that is not; `wire` needs no bound. *day_limits*: with three candidates and two places the
pass over the candidates meets a full book while one is left; with three trades the budget
runs out before, at and after the cap; two days meet every rollover, with and without a
restart; a loss of 1 is half the daily limit and a third of the weekly one, so both are
reached in several steps, by closed and by open losses. *holdings*: two shares make a
partial sale, a partial server fill and an addition; two OCOs are one that is forgotten and
one that replaced it. *overnight*: three days are a night after a session, a night after a
carried night, and a night before a holiday; the crash may fall on any of them. Two symbols
let one be stuck while the other goes on. *side_engine*: two units are a purchase and an
addition or a sale in part; with two symbols and two threads the liquidation overtakes, and
is overtaken by, the pass; `MaxPositions` is reached by them. *paper_account*: the prices are
a fall to the stop and below, a rise to the addition and to the step, and back; one restart
before and after a part was sold; two rates are all a drift needs. *market_session*: a
holiday with a trading day on either side is what the cache can confuse, in both directions.
*quotes*: one retry is a call that succeeds at the last try and one that does not; two
threads fetch, wait and use a token the other has replaced. *control*: two days are one to
stop in and one that must not begin; a queue of three overflows with the notice in each
place. *selection*: one theme has more members than its share, one stock is in a theme and
on the watchlist, one chart has terms that cannot be measured; `Spare` is 1 here and 3 in
the code, so that it runs out. *reselection*: the moments are an ordinary market, the hours
after it, the night and day of a holiday and the day after it; two Korean dates change on
the way.

*news_guard*: with a limit of 1 the engine and its warming thread are the two callers that
may both see it free; the cache's time to live and the day are one step of the clock, so that
within three moments a verdict is fresh, old, extended and replaced, and a question of
yesterday is forgotten. The engine has a key and no `avoid`, the page's settings `avoid` and
no key: whoever came last decides what a failing model means.

Two modules carry assumptions that TLC evaluates before it starts. `MCReselection`:
`Holidays` of 2024 to 2027 are the days the exchange announced. `MCDayLimits`: for every
ledger of up to three rows on days of two months and two years, of two modes and two
techniques, gains and losses, written in any order, with no balance, one, or two written
late, the tables of `Accounts` agree (`TablesAgree`), and a reset of the simulated modes
leaves the rows of the live one as they were (`TradingIsKept`). Three rows are two days of one
month and one of another year, or one day with two rows beside another.

`CHECK_DEADLOCK FALSE` is in three configurations. `holdings`: with the orders and purchases
of its bounds used up, an engine that is not trading has nothing to do there. `overnight`:
the last day ends and an engine that gave up has ended. `side_engine`: an engine that was
stopped and not started again after its last crash has nothing to do. The other models never
stop.

**Fairness.** `LiveOrders` assumes weak fairness of the thread's steps (`WF_vars(ClientStep)`)
and nothing of the exchange: every HTTP call has a timeout, `resolve_uncertain` and
`_wait_fill` are bounded loops, and the thread is not waiting for anybody. `Holdings` assumes
weak fairness of the call in progress for the same reason, and strong fairness of
`Reconcile`: the loop reaches it every `reconcile_every_loops` rounds whenever the engine is
idle again, and skips it when `holdings()` fails, which does not go on for ever. A crash needs
no restart: the properties accept a process that is down. `Overnight` assumes that the engine
thread goes on and that the deadline passes. `Quotes` assumes that a thread goes on (weak),
that a thread waiting for the token's lock is served in the end (strong: the lock is given
back again and again, and each holder's fetch has a timeout), and that time passes.
`Control` assumes that the runner's thread goes on where it is not in the engine's loop, and
that a loop notices its flag (`LoopStops`); nothing makes a loop end that was not told to.
`Reselection` assumes that the overseas engine's loop comes round (`RateThemes`), that the
coins' thread ends, that a caller goes on from the check to the lock, and that a rest ends.
`DayLimits`, `SideEngine`, `PaperAccount`, `MarketSession`, `Selection` and `NewsGuard` state
safety only and assume no fairness.

Each property of a passing run has a mutant in its module, an operator beside the one it
replaces, that carries a plausible bug (a POST that is sent again without an answer, a
purchase that is not counted, a cooldown that is not set, a file loaded outside the lock,
...) and makes that property fail.

## 4. Proofs

All constants are arbitrary within the assumption of their module: natural numbers where
the code has counts, a finite set of symbols where it counts them, any settings files and
accounts. Every theorem rests on an inductive invariant, proved with one step per action.
A theorem that needs more than its module's assumption says so (`ASSUME ... PROVE`): the
journal has finitely many rows (`FillsCorrect`), there are finitely many symbols (`CapKept`, `BooksKept`, `PositionsSound`),
the threads of the news filter are finitely many and write to one directory (`CapHolds`), no
share of a position is rounded (`BooksKept`).

**Sums.** What is summed here is a function over a finite set (`SumFunctionOnSet`), which is
defined by recursion over the subsets. Induction over the set is not available, but a
smallest counterexample is: finite sets are well-founded by strict inclusion, so if a claim
failed for a subset, there would be a subset it fails for and none smaller (`SmallestSet`),
and one step of the recursion contradicts that. `SumAgree`, `SumRemove`, `SumRaise` and
`SumMonotone` (a sum in which one number changes, changes by as much; numbers that are not
smaller have no smaller sum) are what the proofs below use.

**LiveOrders_proofs.** `TypeCorrect`, `SentCorrect`, `HaltsCorrect` and `Implements` (the
refinement `SendsOnce`). The inductive invariant adds to the properties:

- `OneCopy`, `PostsNothingTwice`: the copies of an order that are at the exchange or may
  still get there are at most one, and while the thread may still post, there is none. This
  is what makes `Accept` a `Make` of `OrderOnce`; the refinement is false without it, for a
  model that says nothing of requests under way;
- `Quantities`: an order fills up to its size, what a poll saw had been filled, and the
  chase asks for what the first order left;
- `Placed`: a thread that waits for a fill has an order that was really taken, and so has
  the chase's first order;
- `Purpose`: the journal has the order in flight with the reason of the call it belongs to,
  so that the halt that follows is a halt for the right kind of order.

`FillsCorrect` (`BookNeverOverstates`) needs two more parts: of the order in flight and the
one it chases nothing is written yet, and what the thread has seen filled of them was filled
(`Seen`); the sum of what the journal has is covered by the orders that are over
(`Covered`), as a sum, because the rest of a chased order is booked in the row of its chase.

**DayLimits_proofs.** `BudgetCorrect`, `CapCorrect`, `HaltCorrect` and `OpensCorrect`. The
invariant:
`Shape` (types, as far as the counts depend on them), `TradesStayInBudget` itself, `Capped`,
`Buying` (what is left of the budget in a pass fits what is left of the day), `Selling`
(only held positions are sold, each once, so that booking a sale moves one from "held" to
"traded") and `Saved` (a halt is in the file, with its date). `CheckKeeps`, `HaltKeeps` and
the lemmas on cardinalities are shared by the cases. `OpensCorrect` (nothing is bought
within reach of a loss limit) rests on `Guarded`: what the kill switch found when the pass
began is still true at each purchase, because in between nothing is sold and what is bought
begins at no gain and no loss (`Money`). `TypeCorrect` adds the counters and flags that no
limit depends on (`Counts`, `Flags`).

**Domestic_proofs: Holdings.** `TypeCorrect`, `FitsCorrect`, `KeepsCorrect` and `TradesCorrect`. The
properties hold between calls, so the invariant says what each call in progress keeps:

- `Stage`: which job a call belongs to;
- `FileAgrees`: until a call has changed the quantity (`Unchanged`) it is that of the file,
  so every early return leaves the two equal;
- `Used`, `OldIsGone`: the orders named in memory and in the file were placed once, and an
  order that only the file still names is no longer open: a crash then brings back a name
  that does no harm;
- `Cleared`: a thread about to sell has seen the order gone, one about to buy or to put an
  order back has no order;
- `Fits`: an open order fits the quantity in memory and the one in the file, or the journal
  has said that it does not.

**Domestic_proofs: Selection.** Sequences first: `OrderedData` says that a finite set stands
in the order counted by `Ordered`, each element once, by showing that the ranks are `0 .. n - 1`;
`PickedLine`, `FallingLine` and `RoundRobinData` follow for what is picked from a sequence,
sorted, and drawn from several in turn (the place of the i-th element of a bucket is at most
i times the number of buckets, because what stands before it is in one of the first i rows).
From them:

- `ShareKept`: every report is fair (`ReportFair`), because the limit `TopThemes * PerTheme *
  Spare` reaches the element `Spare * PerTheme` of each bucket, and because the first
  `PerTheme` vetted ones of a theme are all of them if they are fewer (`ShareData`);
- `BoughtOnce`, `StrongestBought` and `SignalBought` from `BuyInv`: reports name each symbol
  once (`ReportListed`), so do the verdicts (`VerdictsData`), each of them is `Grounded` (the
  winner of `EvaluateEntry` exists and has passed, `EntryData`), and `InHand` says what is
  left of that in the queue while one purchase after the other changes what is held and which
  opening ranges are used, and the web screens in between;
- `LossesCut` from `LossInv`: a position that was looked at and is still there has passed the
  stop (`StopHeard`), and parts are sold and additions made at prices that leave it above;
- `CapsRespected` (the types, the cap of positions and of a day's trades) from `CapsInv`: what
  was traded, what is held and what is left of the budget together are within a day's trades.

**Overnight_proofs.** `SpecTypeOK`, `SpecFileAgrees`, `SpecCoveredOrTold`,
`SpecCarriedOnce`. The properties hold in the loop; the invariant says what the settlement
and the morning keep on the way there: `Saved` (the retries, too, have the file up to date),
`Evening` (the settlement and the retries happen after the close only, so that no carried
position meets midnight inside them) and `Morning` (during `rearm` whatever is no longer in
`todo` is already covered or told). `CarriedOnce` needs besides that every outcome of a
close keeps the carry date (`CloseKept`, `SettleOutcomesKept`).

**SideEngine_proofs.** `SpecTypeOK`, `SpecBookIsAccount`, `SpecFileCatchesUp`,
`SpecNoRebuyWhileCooling`. `Deals`: an order under way is of a thread that is visiting
symbols, and two threads with one symbol put it in doubt. `BookKept`: the book differs from
the account by exactly the orders sent and not yet booked. `Saved`: when no thread is before a `Write`, what
memory holds is in the temporary file if a thread is still to rename it, and in the file
otherwise. That is where the race of two saves over one temporary file is decided.

`PreferencesKept`, of `Reselection`, from `SaverHolds`: whoever is about to write the file of
preferences has the lock, and what it read is still what the file has. `ListsTypes` and
`OneReplayEach`, from `ListsInv`: a market counts as running just while a back-test of its own
is in progress, whichever thread asked for it and however it ends, so no market is blocked for
good and none is replayed twice at once. The page's replays are outside that count
(`RunFromPage` asks nobody), which is why the file has a lock of its own.

**Market_proofs: PaperAccount.** `CapKept`: `PaperInv` says what a position may
be (`Sound`), in the book and in the file, and that no position has more than its share;
its steps are lemmas about quotients (`BoughtData`, `MergedData`, `ShrunkData`: a purchase
takes at most its amount, an addition at most the room, a part that stays at most what the
whole had). `BooksKept`: `BalanceInv` says that each position is worth what was paid for it at
the rate it was bought at, and that the books balance; a sale then takes out what was put in
(`ShrunkPaid`), and a restart, when nothing is partly sold, locks exactly what is invested. It
assumes that no share is rounded (`NothingRounds`), which the comment at the head of the
module says the amounts are chosen for and TLC finds true of the run; with rounding the books
are off by what was rounded away. `PositionsSound`: additions and partial sales stay within
their numbers (`PaperFits`), because a sale in part is due at most twice and an addition only
before the first of them.

**Market_proofs: Quotes.** `SpecTypeOK`, `SpecSentOnce`, `SpecOutcomesAreTold`. `NotYet`: a call
that is not over has not been executed; with it each answer that is followed by another try
is one that executed nothing. `OutcomesAreTold` is what `LiveOrders` takes for granted of its
client: an answered order was executed once, and one that ends in an error, the lost answer and
the 5xx aside, was not executed, however often it was sent. No run checks it; it follows
from the invariant of `SentOnce`.

**Market_proofs: MarketSession.** `SpecSessionTypeOK`, `SpecRestsWronglyOnce`,
`SpecCalendarOncePerDay`. `AskedOnce`: a call beyond the first was paid for with a drop, and
while nobody's date is stored there is one to spare. `OnePass` and `Clean`: before the engine's
rollover only the pass that midnight cut can be wrong, and after it the cache of today has no
verdict that is not today's, whoever may still be waiting for an answer on the discarded
object.

**Control_proofs: NewsGuard.** `AnswersRecent` and `RefusalsFounded` from `NewsInv`: what
is cached and what each caller holds was shown within the time to live and has its reason
(`Known`, `Grounded`, `Warranted`), also when a caller extends an object that the cache no
longer has. `CapHolds` from `CapInv`: the questions the process remembers, with those that
have passed the limit and are not counted yet, exceed it by less than the number of threads,
and what is remembered covers what is in the table, so that a restart does not lose any.
`GuardTypes` needs `BegunInv`: a verdict's time is one at which some caller began.

**Control_proofs: Control.** `SpecTypeOK`, `SpecSettingsHoldStill`, `SpecLossesAreTold`.
`SettingsOK`: a running engine's settings are the file's, or the review wrote; `BusOK`:
between the look at the queue and the append of the log nothing else appends (`LogAlone`),
so that the decision is not stale.

**Model-checked only.** `CallsReturn`, `AccountWins`, `ClosingEnds`, `RequestsEnd`,
`PricesComeBack`, `StopEnds` and `ListsFollow` are liveness under fairness, which is out of
the prover's reach. The tables of `Accounts` are compared by TLC alone: they are recursive.

## 5. Where code and documentation disagree

These were met while modelling. The models have the code's behaviour, and a property that
touches it says what it leaves out; there is no run of their own for them.

- The page's start (`server.py:3721`, as `get_preflight`, `server.py:3360`) calls `preflight`
  without the positions, so the OCO of a held position looks like an order nobody owns. A live
  engine stopped with positions cannot be started again from the page; `safety.py:60-69` says
  "재시작은 정상적인 사용법이다" (a restart is ordinary use), `Engine._preflight` passes the
  positions for that reason (`engine.py:1567-1577`), and `tests/test_live_safety.py:1185-1222`
  tests it there. `PageClears` and `EngineClears` of `Preflight` are the two.
- After an entry that could not be confirmed, `try_entries` buys the next candidate of the
  same pass (`engine.py:1115`); `orders.py` says trading stops.
- When the halt on consecutive losses expires, the journal says entries resume
  (`engine.py:363`), and `halted` stays set until the next day.
- A position that `reconcile` drops (`safety.py:333`) is not a trade of the day, so a day has
  more round trips than `daily_max_trades`.
- `_close_position` forgets the cached weekly sum (`engine.py:738`) before it writes the
  ledger; a `snapshot()` in between puts the old sum back, and a position is opened over the
  weekly limit.
- A cancel that fails for an OCO that is not open is booked as a sale by the server
  (`engine.py:692`), also when nothing was sold.
- `reconcile` takes over shares the user bought (`safety.py:347`), and the next close sells
  them.
- A carried position whose close fails on its second day is carried on: the retries look at
  positions without a carry date only (`engine.py:1399`); the comment in `run` and
  `CHANGELOG.md:19` say it is sold at the next close without condition.
- `crypto_stop` closes before it signals the stop, so that the close is complete
  (`server.py:2508`); an order's error in the close (`server.py:2510`) loses the stop, and the
  engine runs on with what is left.
- The server's liquidation and the engine's exit may sell a symbol at once
  (`overseas_broker.py:319` reads the quantity without a lock).
- A restart after a partial sale gives the cost of the part sold back twice
  (`overseas_engine.py:499`, `crypto_engine.py:241`, and the swing engine), which the
  comments there say is prevented; the swing broker sells at another exchange rate than it
  bought at.
- The web server asks `session.phase` without a client (`server.py:1383`, `1406`); the date
  it stores keeps the engine from asking (`session.py:49`), so a holiday is found only after
  the cached date is dropped.
- While Toss is skipped, a failure of the second source renews the skip (`router.py:129`);
  `router.py:55` says thirty seconds after Toss failed. `prices` alone does not do it.
- `theme_leader` measures `is_leader` by `theme_rank`, the rank of the theme
  (`playbook.py:556`); its description (`playbook.py:528`) is of the most liquid stock of one.
- The signature of a back-test's candidates comes from the rows that had a result
  (`technique_prefs.py:73`), so a day on which one had none is replayed again; `auto_backtest.py:9`
  says once a day.
- `fix_preflight` cancels without asking whether an engine is running (`server.py:3368`).
- Threads that look at the limit of questions before any has counted its own go over it
  together (`news_guard.py:179`, counted at `184`); `news_guard.py:9` says the number is limited.
  `CapPerThread` says by how much.
- Two threads that find no verdict both ask about the same headlines (`news_guard.py:207`,
  stored at `223`); `news_guard.py:29` says they are not asked about again for an hour.
- The count is written to the `state_dir` of whoever called last (`news_guard.py:119`, `296`),
  which may be that of a participant of the laboratory (`lab.py:76`), and a restart does not
  find it; `news_guard.py:31` says it survives restarts. The run has one directory.
- `_reload_screen_cfg` reads the screening settings again so that what the page saves while
  the engine runs takes effect (`engine.py:1498`); the page may not save them while it runs
  (`server.py:3463`).

## 6. What is left out

Numeric rules (what a chart shows, the size of a stop in ticks), headlines and rankings are
nondeterministic choices or inputs: the properties are about what happens whatever they say.
Real time is a step that may happen. A corrupt state file and a full disk are not modelled:
`save` either happens, in one or two steps, or the process is dead. Positions of unknown
symbols that `reconcile` adopts are not modelled; `cleanup_orphans` is, in `Preflight`. A
5xx answer to an order that was taken is modelled, as is a crash between a fill and the save
of the position; the code makes no promise for them and no property is stated.

Not modelled: the domestic paper broker (nothing interleaves with it), the rate limiter and
the age of the token file, the numbers inside the technique rules, the database and its
import, the replay of recorded prices and the laboratory's reports, the collection of news,
notifications (best effort, no trading state), text generation and reviews except that one
writes the settings, secrets, devices, network and paths, the tray and the pages. What
remains of `server.py` renders state as JSON and changes none.

## 7. What could follow

1. An abstract specification of a position seen from outside (opened, changed, closed, each
   once) that `Holdings` and `Overnight` implement.
2. `Selection` over two days with the night of `Overnight` between them, at larger bounds.
3. The database and its import of old files, with two processes and a loss of power.
4. The clocks of the simulator, with which the same engine code runs at another speed.
