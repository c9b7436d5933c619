----------------------------- MODULE SideEngine -----------------------------
(***************************************************************************)
(* The live engines of the overseas stocks and of the coins: one thread    *)
(* that passes over the symbols (overseas_engine.py, crypto_engine.py),    *)
(* the web server's thread that stops them and may sell everything first   *)
(* (server.py), the broker that sends market orders and books them         *)
(* (overseas_broker.py, bithumb_broker.py), the book of positions in       *)
(* memory, and its file.  No lock protects the book or the file.           *)
(***************************************************************************)
EXTENDS Integers, FiniteSets

CONSTANTS
    Symbol,
    Engines,     \* which engines: a subset of {"overseas", "crypto"}
    MaxPositions,
    MaxLot,      \* bound: the units of a position (bought one at a time)
    UserShares,  \* what the user owns of every symbol besides
    MaxFail,     \* bound: the orders whose answer is an error
    MaxCrash,    \* bound: how often the process dies
    MaxClose     \* bound: the requests to sell everything

ASSUME SideAssumption ==
    /\ Symbol # {}
    /\ Engines \subseteq {"overseas", "crypto"} /\ Engines # {}
    /\ MaxPositions \in Nat \ {0} /\ MaxLot \in Nat \ {0}
    /\ UserShares \in Nat /\ MaxFail \in Nat /\ MaxCrash \in Nat
    /\ MaxClose \in Nat

Thread == {"engine", "server"}
Lot == 0 .. MaxLot

VARIABLES
    kind,    \* which engine this is
    book,    \* state.book: the units of each position, 0 for none
    cool,    \* state.cooldown, or the losing trades of state.closed
    file,    \* the state file
    tmp,     \* the .tmp file beside it
    net,     \* what the program's orders left in the account
    halted,  \* broker.halted
    stop,    \* _stop
    pc,      \* what each thread does next
    todo,    \* the symbols its loop still has to visit
    deal,    \* the order it is in the middle of
    full,    \* the pass may buy
    hot,     \* history: cooling symbols the engine's own thread sold
    doubt,   \* history: symbols whose book and account may differ
    cut,     \* history: liquidate_all was cut short and nothing saved since
    fails, crashes, closes

memory == <<book, cool, halted>>
disk == <<file, tmp>>
history == <<hot, doubt, cut>>
bounds == <<fails, crashes, closes>>
vars == <<kind, memory, disk, net, stop, pc, todo, deal, full, history, bounds>>

Content == [book : [Symbol -> Lot], cool : SUBSET Symbol]
NoFile == [book |-> <<>>, cool |-> {}]

\* held is the quantity that sell() read; loss is known when the sale is booked.
Deal == [side : {"buy", "add", "sell"}, s : Symbol, n : Lot, held : Lot, sent : BOOLEAN]
NoDeal == [side |-> "none"]

TypeOK ==
    /\ kind \in Engines
    /\ book \in [Symbol -> Lot] /\ cool \subseteq Symbol
    /\ file \in Content /\ tmp \in Content \cup {NoFile}
    /\ net \in [Symbol -> Int]
    /\ halted \in BOOLEAN /\ stop \in BOOLEAN /\ full \in BOOLEAN
    /\ pc["engine"] \in {"none", "off", "wait", "manage", "scan", "enter", "save", "replace"}
    /\ pc["server"] \in {"idle", "liquidate", "save", "replace"}
    /\ todo \in [Thread -> SUBSET Symbol]
    /\ deal \in [Thread -> Deal \cup {NoDeal}]
    /\ hot \subseteq Symbol /\ doubt \subseteq Symbol /\ cut \in BOOLEAN
    /\ fails \in 0 .. MaxFail /\ crashes \in 0 .. MaxCrash
    /\ closes \in 0 .. MaxClose

------------------------------------------------------------------------------
\* Helpers

Held == {s \in Symbol : book[s] > 0}
Flat == [s \in Symbol |-> 0]
Dealt(s) == \E t \in Thread : deal[t] # NoDeal /\ deal[t].s = s
Contents == [book |-> book, cool |-> cool]
Free(t) == deal[t] = NoDeal

Go(t, label) == pc' = [pc EXCEPT ![t] = label]
Done(t, s) == todo' = [todo EXCEPT ![t] = @ \ {s}]

Init ==
    /\ kind \in Engines
    /\ book = Flat /\ cool = {}
    /\ file = Contents /\ tmp = NoFile
    /\ net = Flat
    /\ halted = FALSE /\ stop = FALSE /\ full = FALSE
    /\ pc = [t \in Thread |-> IF t = "engine" THEN "none" ELSE "idle"]
    /\ todo = [t \in Thread |-> {}]
    /\ deal = [t \in Thread |-> NoDeal]
    /\ hot = {} /\ doubt = {} /\ cut = FALSE
    /\ fails = 0 /\ crashes = 0 /\ closes = 0

------------------------------------------------------------------------------
\* The broker

(* The exchange took the order (a market order) and said so, perhaps when asked
   again (resolve_uncertain).  The booking is still to come. *)
Answered(t, d) ==
    /\ d.side = "sell" => net[d.s] + UserShares >= d.n
    /\ net' = [net EXCEPT ![d.s] = IF d.side = "sell" THEN @ - d.n ELSE @ + d.n]
    /\ deal' = [deal EXCEPT ![t] = [d EXCEPT !.sent = TRUE]]
    /\ doubt' = IF \E u \in Thread \ {t} : deal[u] # NoDeal /\ deal[u].s = d.s
                THEN doubt \cup {d.s} ELSE doubt
    /\ UNCHANGED <<halted, pc, todo, cut, fails>>

\* An exception leaves the broker: the engine's loop goes on with the next
\* symbol, the server's handler is over.
Thrown(t, s) ==
    /\ deal' = [deal EXCEPT ![t] = NoDeal]
    /\ IF t = "engine"
       THEN Done(t, s) /\ UNCHANGED <<pc, cut>>
       ELSE Go(t, "idle") /\ todo' = [todo EXCEPT ![t] = {}] /\ cut' = TRUE

\* The account does not have what is to be sold.
Refused(t, d) ==
    /\ d.side = "sell" /\ net[d.s] + UserShares < d.n
    /\ Thrown(t, d.s)
    /\ UNCHANGED <<net, halted, doubt, fails>>

(* An error came back for another reason.  The exchange may have taken the order
   all the same; if it is "network-uncertain" and cannot be resolved, the broker
   is halted. *)
Failed(t, d) ==
    /\ fails < MaxFail /\ fails' = fails + 1
    /\ d.side = "sell" => net[d.s] + UserShares >= d.n
    /\ \/ UNCHANGED <<net, doubt>>
       \/ /\ net' = [net EXCEPT ![d.s] = IF d.side = "sell" THEN @ - d.n ELSE @ + d.n]
          /\ doubt' = doubt \cup {d.s}
    /\ halted' \in {halted, TRUE}
    /\ Thrown(t, d.s)

Send(t, d) == Answered(t, d) \/ Refused(t, d) \/ Failed(t, d)

\* sell() books the sale.  What was removed from the book meanwhile stays removed.
Booked(d) == [book EXCEPT ![d.s] = IF d.n = d.held \/ @ = 0 THEN 0 ELSE d.held - d.n]

\* Mutated EndSale: no cooldown.
EndSaleWarm(t) ==
    /\ deal[t].side = "sell" /\ deal[t].sent
    /\ book' = Booked(deal[t])
    /\ hot' = IF t = "engine" /\ deal[t].n = deal[t].held THEN hot \cup {deal[t].s} ELSE hot
    /\ Done(t, deal[t].s)
    /\ deal' = [deal EXCEPT ![t] = NoDeal]
    /\ UNCHANGED <<kind, cool, halted, disk, net, stop, pc, full, doubt, cut, bounds>>

\* After a whole sale the overseas engine lets the symbol cool ...
OverseasCools(d) == {d.n = d.held}

\* ... and the coins' engine if it was at a loss.
CryptoCools(d) == IF d.n = d.held THEN BOOLEAN ELSE {FALSE}

\* _execute_exit books and records the sale.
EndSale(t) ==
    /\ deal[t].side = "sell" /\ deal[t].sent
    /\ book' = Booked(deal[t])
    /\ \E cools \in (IF kind = "overseas" THEN OverseasCools(deal[t]) ELSE CryptoCools(deal[t])) :
         /\ cool' = IF cools THEN cool \cup {deal[t].s} ELSE cool
         /\ hot' = IF cools /\ t = "engine" THEN hot \cup {deal[t].s} ELSE hot
    /\ Done(t, deal[t].s)
    /\ deal' = [deal EXCEPT ![t] = NoDeal]
    /\ UNCHANGED <<kind, halted, disk, net, stop, pc, full, doubt, cut, bounds>>

\* Mutated EndBuy: an addition replaces what was there.
EndBuyAnew ==
    /\ deal["engine"].side \in {"buy", "add"} /\ deal["engine"].sent
    /\ LET d == deal["engine"] IN
         /\ book' = [book EXCEPT ![d.s] = d.n]
         /\ Done("engine", d.s)
    /\ deal' = [deal EXCEPT !["engine"] = NoDeal]
    /\ UNCHANGED <<kind, cool, halted, disk, net, stop, pc, full, history, bounds>>

\* buy() records the position; add() enlarges the one it had, which may be out of
\* the book by now.
EndBuy ==
    /\ deal["engine"].side \in {"buy", "add"} /\ deal["engine"].sent
    /\ LET d == deal["engine"] IN
         /\ book' = [book EXCEPT ![d.s] = IF d.side = "buy" THEN d.n
                                          ELSE IF @ = 0 THEN 0 ELSE @ + d.n]
         /\ Done("engine", d.s)
    /\ deal' = [deal EXCEPT !["engine"] = NoDeal]
    /\ UNCHANGED <<kind, cool, halted, disk, net, stop, pc, full, history, bounds>>

------------------------------------------------------------------------------
\* The engine's thread

(* _run of the overseas engine: run_once or, between two of them, only
   manage_positions_only.  It looks after what it holds first. *)
BeginOverseas ==
    /\ kind = "overseas"
    /\ pc["engine"] = "wait" /\ ~stop
    /\ Go("engine", "manage")
    /\ todo' = [todo EXCEPT !["engine"] = Held]
    /\ full' \in BOOLEAN
    /\ UNCHANGED <<kind, memory, disk, net, stop, deal, history, bounds>>

\* That of the coins visits everything it watches or holds in one loop.
BeginCrypto ==
    /\ kind = "crypto"
    /\ pc["engine"] = "wait" /\ ~stop
    /\ Go("engine", "scan")
    /\ todo' = [todo EXCEPT !["engine"] = Symbol]
    /\ full' = TRUE
    /\ UNCHANGED <<kind, memory, disk, net, stop, deal, history, bounds>>

Leave ==
    /\ pc["engine"] = "wait" /\ stop
    /\ Go("engine", "off")
    /\ UNCHANGED <<kind, memory, disk, net, stop, todo, deal, full, history, bounds>>

Visiting(s) ==
    /\ pc["engine"] \in {"manage", "scan", "enter"}
    /\ Free("engine")
    /\ s \in todo["engine"]

\* Nothing to do for s, or an error before an order.
Pass(s) ==
    /\ Visiting(s)
    /\ Done("engine", s)
    /\ UNCHANGED <<kind, memory, disk, net, stop, pc, deal, full, history, bounds>>

\* _manage_position sells, the whole or a part.
Exit(s) ==
    /\ Visiting(s) /\ pc["engine"] # "enter"
    /\ book[s] > 0
    /\ \E n \in 1 .. book[s] :
         Send("engine", [side |-> "sell", s |-> s, n |-> n, held |-> book[s], sent |-> FALSE])
    /\ UNCHANGED <<kind, book, cool, disk, stop, full, hot, crashes, closes>>

\* A purchase is decided: the signals, the price and the news are looked up now.
Decided(side, s) ==
    /\ deal' = [deal EXCEPT !["engine"] =
                    [side |-> side, s |-> s, n |-> 1, held |-> book[s], sent |-> FALSE]]
    /\ UNCHANGED <<kind, memory, disk, net, stop, pc, todo, full, history, bounds>>

\* _maybe_add.
Add(s) ==
    /\ Visiting(s) /\ pc["engine"] # "enter"
    /\ full /\ ~halted
    /\ book[s] \in 1 .. MaxLot - 1
    /\ Decided("add", s)

Room == Cardinality(Held) < MaxPositions

\* A new overseas position: whether it is halted was asked before the loop.
EnterOverseas(s) ==
    /\ Visiting(s) /\ pc["engine"] = "enter"
    /\ book[s] = 0 /\ s \notin cool /\ Room
    /\ Decided("buy", s)

\* A new coin: that is asked for each.
EnterCrypto(s) ==
    /\ Visiting(s) /\ pc["engine"] = "scan"
    /\ book[s] = 0 /\ ~halted /\ s \notin cool /\ Room
    /\ Decided("buy", s)

\* The purchase is sent - nothing is asked again, but an addition needs its position.
Buy ==
    /\ deal["engine"].side \in {"buy", "add"} /\ ~deal["engine"].sent
    /\ LET d == deal["engine"] IN
         IF d.side = "add" /\ book[d.s] = 0
         THEN Thrown("engine", d.s) /\ UNCHANGED <<net, halted, doubt, fails>>
         ELSE Send("engine", d)
    /\ UNCHANGED <<kind, book, cool, disk, stop, full, hot, crashes, closes>>

\* run_once of the overseas engine goes on to the entries.
BeginEntries ==
    /\ pc["engine"] = "manage" /\ todo["engine"] = {} /\ Free("engine")
    /\ full /\ ~halted /\ Room
    /\ Go("engine", "enter")
    /\ todo' = [todo EXCEPT !["engine"] = Symbol]
    /\ UNCHANGED <<kind, memory, disk, net, stop, deal, full, history, bounds>>

EndPass ==
    /\ todo["engine"] = {} /\ Free("engine")
    /\ \/ pc["engine"] = "manage" /\ ~(full /\ ~halted /\ Room)
       \/ pc["engine"] \in {"scan", "enter"}
    /\ Go("engine", "save")
    /\ full' = FALSE
    /\ UNCHANGED <<kind, memory, disk, net, stop, todo, deal, history, bounds>>

------------------------------------------------------------------------------
\* The file

\* save() writes the .tmp file ...
Write(t) ==
    /\ pc[t] = "save"
    /\ tmp' = Contents
    /\ cut' = FALSE
    /\ Go(t, "replace")
    /\ UNCHANGED <<kind, memory, file, net, stop, todo, deal, full, hot, doubt, bounds>>

(* ... and renames it.  If the other thread has renamed it already, that is an
   error: the engine's loop goes on, the server's handler is over before it asks
   the engine to stop. *)
Replace(t) ==
    /\ pc[t] = "replace"
    /\ IF tmp = NoFile THEN UNCHANGED disk ELSE file' = tmp /\ tmp' = NoFile
    /\ Go(t, IF t = "engine" THEN "wait" ELSE "idle")
    /\ stop' = (stop \/ (t = "server" /\ tmp # NoFile))
    /\ UNCHANGED <<kind, memory, net, todo, deal, full, history, bounds>>

------------------------------------------------------------------------------
\* The server's thread: one request at a time

Made == pc["engine"] # "none"

(* _reconcile_live_positions, if the account can be read: the positions of which it
   has nothing left. *)
Ghosts == {s \in Symbol : file.book[s] > 0 /\ net[s] + UserShares = 0}

\* overseas_start, crypto_start: a new engine with what the file remembers, but for
\* the ghosts, which the coins' engine may book as losses.
Start ==
    /\ pc["engine"] \in {"none", "off"} /\ pc["server"] = "idle"
    /\ \E gone \in {{}, Ghosts} :
         /\ book' = [s \in Symbol |-> IF s \in gone THEN 0 ELSE file.book[s]]
         /\ \E loss \in SUBSET (IF kind = "crypto" THEN gone ELSE {}) : cool' = file.cool \cup loss
         /\ IF gone = {} THEN UNCHANGED disk
            ELSE file' = [book |-> book', cool |-> cool'] /\ tmp' = NoFile
         /\ doubt' = (doubt \cup {s \in Symbol : file.book[s] # book[s]})
                      \ {s \in gone : net[s] = 0}
    /\ halted' = FALSE /\ stop' = FALSE
    /\ Go("engine", "wait")
    /\ hot' = {} /\ cut' = FALSE
    /\ UNCHANGED <<kind, net, todo, deal, full, bounds>>

\* overseas_stop, crypto_stop.
Stop ==
    /\ pc["server"] = "idle" /\ Made
    /\ stop' = TRUE
    /\ UNCHANGED <<kind, memory, disk, net, pc, todo, deal, full, history, bounds>>

\* ... with close_positions: liquidate_all first.
BeginClose ==
    /\ pc["server"] = "idle" /\ Made
    /\ closes < MaxClose /\ closes' = closes + 1
    /\ Go("server", "liquidate")
    /\ todo' = [todo EXCEPT !["server"] = Held]
    /\ UNCHANGED <<kind, memory, disk, net, stop, deal, full, history, fails, crashes>>

Closing(s) ==
    /\ pc["server"] = "liquidate"
    /\ Free("server")
    /\ s \in todo["server"]

\* It has no price, or is not the engine's any more (NotOwnedError).
CloseNot(s) ==
    /\ Closing(s)
    /\ Done("server", s)
    /\ UNCHANGED <<kind, memory, disk, net, stop, pc, deal, full, history, bounds>>

Close(s) ==
    /\ Closing(s)
    /\ book[s] > 0
    /\ Send("server", [side |-> "sell", s |-> s, n |-> book[s], held |-> book[s], sent |-> FALSE])
    /\ UNCHANGED <<kind, book, cool, disk, stop, full, hot, crashes, closes>>

\* Mutated EndClose: liquidate_all does not save.
EndCloseUnsaved ==
    /\ pc["server"] = "liquidate" /\ Free("server") /\ todo["server"] = {}
    /\ Go("server", "idle") /\ stop' = TRUE
    /\ UNCHANGED <<kind, memory, disk, net, todo, deal, full, history, bounds>>

EndClose ==
    /\ pc["server"] = "liquidate" /\ Free("server") /\ todo["server"] = {}
    /\ Go("server", "save")
    /\ UNCHANGED <<kind, memory, disk, net, stop, todo, deal, full, history, bounds>>

------------------------------------------------------------------------------
\* Around the program

\* A cooldown is over, in memory and in the file: it is a time of day.
CoolEnds(s) ==
    /\ s \in cool \cup file.cool
    /\ cool' = cool \ {s} /\ hot' = hot \ {s}
    /\ file' = [file EXCEPT !.cool = @ \ {s}]
    /\ tmp' = [tmp EXCEPT !.cool = @ \ {s}]
    /\ UNCHANGED <<kind, book, halted, net, stop, pc, todo, deal, full, doubt, cut, bounds>>

\* The process dies: what the file does not have is forgotten.
Crash ==
    /\ Made
    /\ crashes < MaxCrash /\ crashes' = crashes + 1
    /\ book' = file.book /\ cool' = file.cool
    /\ doubt' = doubt \cup {s \in Symbol : file.book[s] # book[s] \/ Dealt(s)}
    /\ halted' = FALSE /\ stop' = FALSE /\ full' = FALSE
    /\ pc' = [t \in Thread |-> IF t = "engine" THEN "none" ELSE "idle"]
    /\ todo' = [t \in Thread |-> {}]
    /\ deal' = [t \in Thread |-> NoDeal]
    /\ hot' = {} /\ cut' = FALSE
    /\ UNCHANGED <<kind, disk, net, fails, closes>>

Steps(t) ==
    \/ EndSale(t) \/ Write(t) \/ Replace(t)
    \/ /\ t = "engine"
       /\ \/ BeginOverseas \/ BeginCrypto \/ Leave \/ BeginEntries \/ EndPass \/ Buy \/ EndBuy
          \/ \E s \in Symbol : Pass(s) \/ Exit(s) \/ Add(s) \/ EnterOverseas(s) \/ EnterCrypto(s)
    \/ /\ t = "server"
       /\ EndClose \/ \E s \in Symbol : CloseNot(s) \/ Close(s)

Next ==
    \/ \E t \in Thread : Steps(t)
    \/ Start \/ Stop \/ BeginClose
    \/ \E s \in Symbol : CoolEnds(s)
    \/ Crash

Spec == Init /\ [][Next]_vars

------------------------------------------------------------------------------
\* Properties

(* The book has what the program's orders left in the account, for every symbol
   that no order is under way for - unless the answer to an order was an error and
   the exchange took it, both threads traded the symbol at once, or the program
   forgot it before it was saved (broker, _execute_exit, liquidate_all,
   _reconcile_live_positions). *)
BookIsAccount == \A s \in Symbol \ doubt : Dealt(s) \/ book[s] = net[s]

(* When both threads are at rest, the file has what memory has, however their saves
   raced - unless an error cut liquidate_all short and nothing was saved since
   (run_once, liquidate_all, save). *)
FileCatchesUp ==
    pc["engine"] \in {"wait", "off"} /\ pc["server"] = "idle" /\ ~cut => file = Contents

(* What the engine sold is not bought again by this engine while it cools - the
   loop of losses and purchases that the comment of OverseasState reports. *)
NoRebuyWhileCooling ==
    [][\A s \in hot \cap hot' : book[s] = 0 => book'[s] = 0]_vars

==============================================================================
