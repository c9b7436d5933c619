----------------------------- MODULE LiveOrders ------------------------------
(***************************************************************************)
(* The live order path of the domestic engine: OrderBook and               *)
(* resolve_uncertain (daytrader/orders.py), LiveBroker._send, buy, sell    *)
(* and _wait_fill (daytrader/broker.py), TossClient._request for a         *)
(* non-idempotent POST (daytrader/tossapi.py), and the three places of     *)
(* daytrader/engine.py that trade through it.                              *)
(*                                                                         *)
(* One engine thread sends one order at a time; the exchange, the network  *)
(* and a crash of the process interleave with every step of it.  Symbols   *)
(* are not told apart: the entries of one pass are those of different      *)
(* candidates, and "bought" counts the shares of all of them.              *)
(***************************************************************************)
EXTENDS Naturals, FiniteSets, Functions

CONSTANTS
    Coid,      \* client order ids, numbered in the order new_coid draws them
    MaxQty,    \* bound: the largest quantity of one order
    Sizes,     \* bound: the quantities the engine asks for
    Tries,     \* resolve_uncertain: how often it looks for the order
    Retries    \* _request: how often a 429 or a 401 is sent again

ASSUME BoundsAssumption ==
    /\ Coid \subseteq Nat /\ Coid # {}
    /\ MaxQty \in Nat \ {0}
    /\ Sizes \subseteq 1 .. MaxQty
    /\ Tries \in Nat \ {0}
    /\ Retries \in Nat

Qty == 0 .. MaxQty

(***************************************************************************)
(* Why an order was sent.  The journal keeps it in OrderIntent.reason.     *)
(*   entry - _open_position      add   - _maybe_add                        *)
(*   close - _close_position     chase - sell(), the rest at market price  *)
(***************************************************************************)
Entry == "entry"
Add   == "add"
Close == "close"
Chase == "chase"
Reason == {Entry, Add, Close, Chase}

\* The latest journal row of an order; "none" before its intent is written.
Intent == [ status : {"none", "intent", "sent", "unknown"},
            qty    : Qty,
            reason : Reason,
            error  : BOOLEAN,   \* the exchange answered with an error
            filled : Qty ]

\* An order at the exchange.
Order == [ copies : Nat,        \* accepted POSTs that carried this id
           status : {"absent", "open", "filled", "dead"},
           filled : Qty ]

\* "refused" is any error that is not in FATAL_CODES: a 4xx or a 5xx.
Answer == {"none", "ok", "busy", "refused", "fatal"}

VARIABLES
    book,      \* order_intents: the journal on disk
    exchange,  \* the orders the exchange knows
    wire,      \* POST /orders requests under way, per id
    answer,    \* the HTTP answer on its way back to the waiting thread
    pc,        \* where the engine thread is
    call,      \* the locals of the buy() or sell() in progress
    bought,    \* LiveBroker._bought_qty, over all symbols
    halted,    \* DailyState.halted, saved by _halt at once
    pass,      \* which part of the main loop the thread runs
    clear,     \* "not halted", as that part read it when it started
    cut        \* history: the orders in flight whenever the process was killed

orderVars == <<book, exchange, wire, answer>>
vars == <<book, exchange, wire, answer, pc, call, bought, halted, pass, clear, cut>>

Control == {"down", "idle", "post", "reply", "resolve", "wait", "settle", "rest", "finish", "halt"}

Call == [ reason   : Reason,
          qty      : Qty,          \* shares asked for
          coid     : Coid,         \* the order in flight
          first    : Coid,         \* the order the result is written to
          done     : Qty,          \* filled before the order in flight
          seen     : Qty,          \* filledQuantity, as last polled
          seenAs   : {"unknown", "open", "filled", "dead"},
          attempt  : 0 .. Retries,
          tries    : 0 .. Tries ]

TypeOK ==
    /\ book \in [Coid -> Intent]
    /\ exchange \in [Coid -> Order]
    /\ wire \in [Coid -> Nat]
    /\ answer \in Answer
    /\ pc \in Control
    /\ call \in Call
    /\ bought \in Nat
    /\ halted \in BOOLEAN
    /\ pass \in {"manage", "entries"}
    /\ clear \in BOOLEAN
    /\ cut \subseteq Coid

------------------------------------------------------------------------------
\* Helpers

Fresh == {c \in Coid : book[c].status = "none"}

\* new_coid: uuid4 never repeats, and which id it draws makes no difference.
IsNew(c) == c \in Fresh /\ \A d \in Fresh : c <= d

SomeId == CHOOSE c \in Coid : TRUE

NoIntent == [status |-> "none", qty |-> 0, reason |-> Entry, error |-> FALSE, filled |-> 0]

\* The locals of a call that has q shares to trade, sends order c for them,
\* writes its result to order first, and already has "done" shares.
Locals(why, q, c, first, done) ==
    [reason |-> why, qty |-> q, coid |-> c, first |-> first, done |-> done,
     seen |-> 0, seenAs |-> "unknown", attempt |-> 0, tries |-> 0]

\* Between calls there are none.
NoCall == Locals(Entry, 0, SomeId, SomeId, 0)

NoOrder == [copies |-> 0, status |-> "absent", filled |-> 0]

\* OrderBook.record: a new row, fsynced before anything is sent.
Record(c, q, why) ==
    book' = [book EXCEPT ![c] =
               [status |-> "intent", qty |-> q, reason |-> why, error |-> FALSE, filled |-> 0]]

\* OrderBook.update: the latest row again, with another status.
Mark(c, status, error) ==
    book' = [book EXCEPT ![c].status = status, ![c].error = error]

Cur == call.coid
Chasing == call.coid # call.first
IsBuy == call.reason \in {Entry, Add}
\* The status is one of DEAD_STATES or FILLED_STATES: _wait_fill stops there.
Ended(status) == status \in {"filled", "dead"}

(***************************************************************************)
(* buy() and sell() hand their Fill to the caller.  On a fatal one the     *)
(* caller halts: a disk write of its own, after that of the journal.       *)
(***************************************************************************)
Return(fatal) ==
    IF fatal THEN pc' = "halt" /\ UNCHANGED call
             ELSE pc' = "idle" /\ call' = NoCall

\* A failed _send: sell() ignores the failure of its second order.
SendFails(fatal) ==
    IF Chasing
      THEN pc' = "finish" /\ UNCHANGED call
      ELSE Return(fatal)

------------------------------------------------------------------------------
\* The engine thread: which orders it starts

Init ==
    /\ book = [c \in Coid |-> NoIntent]
    /\ exchange = [c \in Coid |-> NoOrder]
    /\ wire = [c \in Coid |-> 0]
    /\ answer = "none"
    /\ pc = "idle"
    /\ call = NoCall
    /\ bought = 0
    /\ halted = FALSE
    /\ pass = "manage"
    /\ clear = TRUE
    /\ cut = {}

\* Top of the loop: _allow_add = not halted (and trading), manage_positions().
StartManage ==
    /\ pc = "idle"
    /\ pass' = "manage"
    /\ clear' = ~halted
    /\ UNCHANGED <<orderVars, pc, call, bought, halted, cut>>

\* "if not self.state.halted": try_entries() buys the scored candidates in turn.
StartEntries ==
    /\ pc = "idle"
    /\ pass = "manage"
    /\ ~halted
    /\ pass' = "entries"
    /\ clear' = TRUE
    /\ UNCHANGED <<orderVars, pc, call, bought, halted, cut>>

Start(c, q, why) ==
    /\ pc = "idle"
    /\ IsNew(c)
    /\ Record(c, q, why)
    /\ call' = Locals(why, q, c, c, 0)
    /\ pc' = "post"
    /\ UNCHANGED <<exchange, wire, answer, bought, halted, pass, clear, cut>>

\* try_entries -> _open_position -> buy: the loop over the candidates does not
\* look at halted again.
StartEntry(c, q) ==
    /\ pass = "entries"
    /\ clear
    /\ Start(c, q, Entry)

\* manage_positions -> _maybe_add -> buy, while self._allow_add.
StartAdd(c, q) ==
    /\ pass = "manage"
    /\ clear
    /\ bought > 0
    /\ Start(c, q, Add)

\* manage_positions -> _close_position -> sell; sell() raises NotOwnedError
\* when _bought_qty is 0.  A second identifier is kept free for the chase.
StartClose(c, q) ==
    /\ pass = "manage"
    /\ bought > 0
    /\ Cardinality(Fresh) >= 2
    /\ Start(c, q, Close)

------------------------------------------------------------------------------
\* LiveBroker._send and TossClient._request

\* POST /api/v1/orders leaves.
Post ==
    /\ pc = "post"
    /\ wire' = [wire EXCEPT ![Cur] = @ + 1]
    /\ answer' = "none"
    /\ pc' = "reply"
    /\ UNCHANGED <<book, exchange, call, bought, halted, pass, clear, cut>>

\* 200: the order id is written next to the intent.
Accepted ==
    /\ pc = "reply"
    /\ answer = "ok"
    /\ Mark(Cur, "sent", book[Cur].error)
    /\ answer' = "none"
    /\ pc' = "wait"
    /\ UNCHANGED <<exchange, wire, call, bought, halted, pass, clear, cut>>

\* 429 and 401 refuse the request: _request sends it again, Retries times.
SendAgain ==
    /\ pc = "reply"
    /\ answer = "busy"
    /\ call.attempt < Retries
    /\ call' = [call EXCEPT !.attempt = @ + 1]
    /\ answer' = "none"
    /\ pc' = "post"
    /\ UNCHANGED <<book, exchange, wire, bought, halted, pass, clear, cut>>

\* Any other answer is an error: status unknown, fatal for FATAL_CODES.
Failed ==
    /\ pc = "reply"
    /\ \/ answer \in {"refused", "fatal"}
       \/ answer = "busy" /\ call.attempt = Retries
    /\ Mark(Cur, "unknown", TRUE)
    /\ SendFails(answer = "fatal")
    /\ answer' = "none"
    /\ UNCHANGED <<exchange, wire, bought, halted, pass, clear, cut>>

\* Mutated NoAnswer: a POST without an answer is sent again.
ResendsUnanswered ==
    /\ pc = "reply"
    /\ answer' = "none"
    /\ pc' = "post"
    /\ UNCHANGED <<book, exchange, wire, call, bought, halted, pass, clear, cut>>

\* No answer: "network-uncertain".  The request may still be under way.
NoAnswer ==
    /\ pc = "reply"
    /\ answer' = "none"
    /\ pc' = "resolve"
    /\ UNCHANGED <<book, exchange, wire, call, bought, halted, pass, clear, cut>>

\* Mutated ResolveFinds: any listed order is taken for ours.
FindsAnyOrder ==
    /\ pc = "resolve"
    /\ Mark(Cur, "sent", book[Cur].error)
    /\ pc' = "wait"
    /\ UNCHANGED <<exchange, wire, answer, call, bought, halted, pass, clear, cut>>

\* resolve_uncertain: get_orders lists the order.
ResolveFinds ==
    /\ pc = "resolve"
    /\ exchange[Cur].status # "absent"
    /\ Mark(Cur, "sent", book[Cur].error)
    /\ pc' = "wait"
    /\ UNCHANGED <<exchange, wire, answer, call, bought, halted, pass, clear, cut>>

\* The queries fail, or the order is not (yet) listed: try again.
ResolveMisses ==
    /\ pc = "resolve"
    /\ call.tries + 1 < Tries
    /\ call' = [call EXCEPT !.tries = @ + 1]
    /\ UNCHANGED <<orderVars, pc, bought, halted, pass, clear, cut>>

\* Mutated ResolveGivesUp: the Fill is not fatal.
GivesUpQuietly ==
    /\ pc = "resolve"
    /\ call.tries + 1 = Tries
    /\ Mark(Cur, "unknown", FALSE)
    /\ SendFails(FALSE)
    /\ UNCHANGED <<exchange, wire, answer, bought, halted, pass, clear, cut>>

\* The last try fails: never sent again, status unknown, a fatal Fill.
ResolveGivesUp ==
    /\ pc = "resolve"
    /\ call.tries + 1 = Tries
    /\ Mark(Cur, "unknown", FALSE)
    /\ SendFails(TRUE)
    /\ UNCHANGED <<exchange, wire, answer, bought, halted, pass, clear, cut>>

------------------------------------------------------------------------------
\* LiveBroker._wait_fill, buy and sell after the order is in

\* get_order; a query that fails changes nothing.
Poll ==
    /\ pc = "wait"
    /\ call' = [call EXCEPT !.seen = exchange[Cur].filled, !.seenAs = exchange[Cur].status]
    /\ pc' = IF Ended(exchange[Cur].status) THEN "settle" ELSE "wait"
    /\ UNCHANGED <<orderVars, bought, halted, pass, clear, cut>>

\* Mutated WaitEnds: the loop has no deadline.
WaitsForTheEnd ==
    /\ pc = "wait"
    /\ Ended(call.seenAs)
    /\ pc' = "settle"
    /\ UNCHANGED <<orderVars, call, bought, halted, pass, clear, cut>>

\* FILL_WAIT_SECONDS are over: go on with what was last seen.
WaitEnds ==
    /\ pc = "wait"
    /\ pc' = "settle"
    /\ UNCHANGED <<orderVars, call, bought, halted, pass, clear, cut>>

\* Shares are missing from an order not known to be dead: it is cancelled first.
Short == call.done + call.seen < call.qty /\ call.seenAs # "dead"

AfterCancel ==
    pc' = IF IsBuy THEN "finish" ELSE "rest"

\* Nothing to cancel; the second order of a sell is never cancelled.
NothingToCancel ==
    /\ pc = "settle"
    /\ Chasing \/ ~Short
    /\ pc' = "finish"
    /\ UNCHANGED <<orderVars, call, bought, halted, pass, clear, cut>>

Cancel ==
    /\ pc = "settle"
    /\ Short /\ ~Chasing
    /\ exchange' = IF exchange[Cur].status = "open"
                     THEN [exchange EXCEPT ![Cur].status = "dead"]
                     ELSE exchange
    /\ AfterCancel
    /\ UNCHANGED <<book, wire, answer, call, bought, halted, pass, clear, cut>>

\* cancel_order raises and the exception is swallowed.
CancelFails ==
    /\ pc = "settle"
    /\ Short /\ ~Chasing
    /\ AfterCancel
    /\ UNCHANGED <<orderVars, call, bought, halted, pass, clear, cut>>

\* sell(): what is left goes out at market price under an id of its own.
ChaseRest(c) ==
    /\ pc = "rest"
    /\ IsNew(c)
    /\ Record(c, call.qty - call.seen, Chase)
    /\ call' = Locals(call.reason, call.qty, c, call.first, call.seen)
    /\ pc' = "post"
    /\ UNCHANGED <<exchange, wire, answer, bought, halted, pass, clear, cut>>

\* Mutated Finish: what was filled before the second order is counted twice.
CountsTwice ==
    LET total == call.done + call.done + call.seen IN
    /\ pc = "finish"
    /\ book' = [book EXCEPT ![call.first].status = "sent", ![call.first].filled = total]
    /\ bought' = IF IsBuy THEN bought + total
                 ELSE IF total <= bought THEN bought - total ELSE 0
    /\ Return(~IsBuy /\ total = 0)
    /\ UNCHANGED <<exchange, wire, answer, halted, pass, clear, cut>>

\* The result is journalled, _bought_qty follows it, the Fill goes back.  A sell
\* of nothing is fatal, a buy of nothing is not.
Finish ==
    LET total == call.done + call.seen IN
    /\ pc = "finish"
    /\ book' = [book EXCEPT ![call.first].status = "sent", ![call.first].filled = total]
    /\ bought' = IF IsBuy THEN bought + total
                 ELSE IF total <= bought THEN bought - total ELSE 0
    /\ Return(~IsBuy /\ total = 0)
    /\ UNCHANGED <<exchange, wire, answer, halted, pass, clear, cut>>

\* _open_position and _close_position halt on a fatal Fill, _maybe_add does not
\* look.
Halt ==
    /\ pc = "halt"
    /\ halted' = (halted \/ call.reason # Add)
    /\ pc' = "idle"
    /\ call' = NoCall
    /\ UNCHANGED <<orderVars, bought, pass, clear, cut>>

ClientStep ==
    \/ Post \/ Accepted \/ SendAgain \/ Failed \/ NoAnswer
    \/ ResolveFinds \/ ResolveMisses \/ ResolveGivesUp
    \/ Poll \/ WaitEnds \/ NothingToCancel \/ Cancel \/ CancelFails
    \/ \E c \in Coid : ChaseRest(c)
    \/ Finish \/ Halt

EngineStep ==
    \/ StartManage \/ StartEntries
    \/ \E c \in Coid, q \in Sizes : StartEntry(c, q) \/ StartAdd(c, q) \/ StartClose(c, q)

------------------------------------------------------------------------------
\* The exchange, the network and the process

Waiting(c) == pc = "reply" /\ Cur = c

\* Taken into the book; the answer is a 200 or, after the fact, a 5xx.
Accept(c) ==
    /\ wire[c] > 0
    /\ wire' = [wire EXCEPT ![c] = @ - 1]
    /\ exchange' = [exchange EXCEPT ![c] =
                      [copies |-> @.copies + 1,
                       status |-> IF @.status = "absent" THEN "open" ELSE @.status,
                       filled |-> @.filled]]
    /\ \E a \in {"ok", "refused"} : answer' = IF Waiting(c) THEN a ELSE answer
    /\ UNCHANGED <<book, pc, call, bought, halted, pass, clear, cut>>

Refuse(c) ==
    /\ wire[c] > 0
    /\ wire' = [wire EXCEPT ![c] = @ - 1]
    /\ \E a \in {"busy", "refused", "fatal"} :
          answer' = IF Waiting(c) THEN a ELSE answer
    /\ UNCHANGED <<book, exchange, pc, call, bought, halted, pass, clear, cut>>

Lose(c) ==
    /\ wire[c] > 0
    /\ wire' = [wire EXCEPT ![c] = @ - 1]
    /\ UNCHANGED <<book, exchange, answer, pc, call, bought, halted, pass, clear, cut>>

Execute(c) ==
    /\ exchange[c].status = "open"
    /\ exchange[c].filled < book[c].qty
    /\ \E n \in (exchange[c].filled + 1) .. book[c].qty :
          exchange' = [exchange EXCEPT ![c] =
                         [copies |-> @.copies,
                          status |-> IF n = book[c].qty THEN "filled" ELSE "open",
                          filled |-> n]]
    /\ UNCHANGED <<book, wire, answer, pc, call, bought, halted, pass, clear, cut>>

\* Rejected, expired at the close, or cancelled by the user.
Expire(c) ==
    /\ exchange[c].status = "open"
    /\ exchange' = [exchange EXCEPT ![c].status = "dead"]
    /\ UNCHANGED <<book, wire, answer, pc, call, bought, halted, pass, clear, cut>>

\* The process dies in the middle of a call, or an exception other than
\* TossApiError ends run().  What it knew of the call is gone.
Crash ==
    /\ pc \notin {"down", "idle"}
    /\ pc' = "down"
    /\ answer' = "none"
    /\ call' = NoCall
    /\ cut' = cut \cup {Cur}
    /\ UNCHANGED <<book, exchange, wire, bought, halted, pass, clear>>

\* run() again.  preflight refuses to start over an open order of a symbol that
\* is not held; OrderBook.pending() is not read.
Restart ==
    /\ pc = "down"
    /\ bought > 0 \/ \A c \in Coid : exchange[c].status # "open"
    /\ pc' = "idle"
    /\ pass' = "manage"
    /\ clear' = ~halted
    /\ UNCHANGED <<orderVars, call, bought, halted, cut>>

Environment ==
    \/ \E c \in Coid : Accept(c) \/ Refuse(c) \/ Lose(c) \/ Execute(c) \/ Expire(c)
    \/ Crash \/ Restart

Next == ClientStep \/ EngineStep \/ Environment

Spec == Init /\ [][Next]_vars

\* The thread keeps running: its calls have timeouts and its loops are bounded.
FairSpec == Spec /\ WF_vars(ClientStep)

------------------------------------------------------------------------------
\* Properties

\* What the journal and the exchange show of an order, for OrderOnce.
Promised == {c \in Coid : book[c].status # "none"}
Made == [c \in Coid |-> exchange[c].copies]

(***************************************************************************)
(* README section 7, "an order does not go out twice": every order at the  *)
(* exchange was journalled first and none was taken twice, whatever gets   *)
(* lost, delayed, refused or crashes.                                      *)
(***************************************************************************)
Once == INSTANCE OrderOnce WITH promised <- Promised, made <- Made

SendsOnce == Once!Spec

(***************************************************************************)
(* A journal row that has an order id ("sent") names an order the exchange *)
(* really has, however the id was learnt.                                  *)
(***************************************************************************)
SentIsAtTheExchange ==
    \A c \in Coid : book[c].status = "sent" => exchange[c].copies > 0

(***************************************************************************)
(* What buy() and sell() book as filled was filled: over all orders the    *)
(* journal never shows more shares than the exchange executed.             *)
(***************************************************************************)
BookNeverOverstates ==
    SumFunction([c \in Coid |-> book[c].filled])
        <= SumFunction([c \in Coid |-> exchange[c].filled])

\* An order whose acceptance resolve_uncertain could not establish.
Unconfirmed(c) == book[c].status = "unknown" /\ ~book[c].error

(***************************************************************************)
(* An entry or a close that could not be confirmed stops trading: by the   *)
(* time its call is over halted is set (Fill.fatal, then _halt), and it    *)
(* stays set over restarts, unless the process was killed in that call.    *)
(***************************************************************************)
HaltsWhenUnconfirmed ==
    \A c \in Coid :
        Unconfirmed(c) /\ book[c].reason \in {Entry, Close}
          => halted \/ c \in cut \/ (pc = "halt" /\ c = Cur)

\* Every call of the broker returns: polling, resolving and resending are bounded.
CallsReturn == (pc \notin {"down", "idle"}) ~> (pc \in {"down", "idle"})
==============================================================================
