------------------------------ MODULE Holdings -------------------------------
(***************************************************************************)
(* One symbol of the live engine: the position in memory and on disk, the  *)
(* shares in the account, and the stop/target order (OCO) at the server.   *)
(* From daytrader/engine.py: _open_position, _close_position, _maybe_add,  *)
(* _poll_server_oco; from broker.py: the OCO calls and _bought_qty; from   *)
(* safety.py: reconcile and the preflight check of conditional orders.     *)
(*                                                                         *)
(* The engine thread makes one call at a time; the server, the user of the *)
(* account and a crash come in between.  A buy or a sell is one step here, *)
(* with what it filled; LiveOrders has its inside.                         *)
(***************************************************************************)
EXTENDS Integers, FiniteSets

CONSTANTS
    MaxQty,     \* bound: the shares of the symbol in the account
    MaxBought,  \* bound: _bought_qty, which counts shares the server sold too
    MaxOco,     \* bound: the OCOs of a behaviour
    MaxUser     \* bound: the trades of the user of the account

ASSUME BoundsAssumption ==
    /\ {MaxQty, MaxBought, MaxOco} \subseteq Nat \ {0}
    /\ MaxUser \in Nat

Qty == 0 .. MaxQty
OcoId == 1 .. MaxOco
None == 0

VARIABLES
    pos,      \* state.positions: the quantity (0 when there is none) and oco_id
    saved,    \* daily_state.json: the same
    bought,   \* LiveBroker._bought_qty
    account,  \* the shares in the account
    oco,      \* the conditional orders at the server
    pc,       \* the call the engine thread makes next
    job,      \* what it is doing, and for how many shares
    warned,   \* the journal says "check it yourself" about the OCO of pos
    user      \* how often the user traded

vars == <<pos, saved, bought, account, oco, pc, job, warned, user>>

Position == [qty : Nat, oco : OcoId \cup {None}]

\* "gone" stands for filled, cancelled or expired; sold says how much it sold.
Order == [status : {"unused", "open", "triggered", "gone"}, qty : Nat, sold : Nat]

Job == [kind : {"none", "open", "close", "add", "restore", "fix"}, n : Nat]

TypeOK ==
    /\ pos \in Position /\ saved \in Position
    /\ bought \in Nat
    /\ account \in Qty
    /\ oco \in [OcoId -> Order]
    /\ pc \in {"idle", "cancel", "ask", "sell", "buy", "place", "down"}
    /\ job \in Job
    /\ warned \in BOOLEAN
    /\ user \in 0 .. MaxUser

------------------------------------------------------------------------------
\* Helpers

NoPosition == [qty |-> 0, oco |-> None]
NoJob == [kind |-> "none", n |-> 0]

Held == pos.qty > 0
Covered == pos.oco # None
Server == oco[pos.oco]              \* the order pos.oco names
Live(i) == oco[i].status \in {"open", "triggered"}

\* The engine is back in its loop.
Done == pc' = "idle" /\ job' = NoJob

\* Without an order at the server the OCO is not in the way.
FirstStep(step) == IF Covered THEN "cancel" ELSE step

\* _close_position drops or shrinks the position it has sold n shares of.
Less(n) == IF n < pos.qty THEN [pos EXCEPT !.qty = @ - n] ELSE NoPosition

\* The bounds on a buy.
Room(n) == account + n <= MaxQty /\ bought + n <= MaxBought

Init ==
    /\ pos = NoPosition /\ saved = NoPosition
    /\ bought = 0
    /\ account = 0
    /\ oco = [i \in OcoId |-> [status |-> "unused", qty |-> 0, sold |-> 0]]
    /\ pc = "idle" /\ job = NoJob
    /\ warned = FALSE
    /\ user = 0

------------------------------------------------------------------------------
\* The engine thread

\* _open_position: the buy is filled; the position does not exist yet.
Open(n) ==
    /\ pc = "idle"
    /\ ~Held
    /\ Room(n)
    /\ account' = account + n
    /\ bought' = bought + n
    /\ job' = [kind |-> "open", n |-> n]
    /\ pc' = "place"
    /\ UNCHANGED <<pos, saved, oco, warned, user>>

\* _close_position, for all or (scale_out) for a part.
StartClose(n) ==
    /\ pc = "idle"
    /\ n <= pos.qty
    /\ job' = [kind |-> "close", n |-> n]
    /\ pc' = FirstStep("sell")
    /\ UNCHANGED <<pos, saved, bought, account, oco, warned, user>>

\* _maybe_add.
StartAdd(n) ==
    /\ pc = "idle"
    /\ Held
    /\ job' = [kind |-> "add", n |-> n]
    /\ pc' = FirstStep("buy")
    /\ UNCHANGED <<pos, saved, bought, account, oco, warned, user>>

\* What follows once the OCO is out of the way.
AfterCancel ==
    /\ pc' = CASE job.kind = "close" -> "sell"
               [] job.kind = "add"   -> "buy"
               [] job.kind = "fix"   -> "place"
    /\ pos' = IF job.kind = "add" THEN [pos EXCEPT !.oco = None] ELSE pos

\* cancel_oco is true.
Cancelled ==
    /\ pc = "cancel"
    /\ Server.status = "open"
    /\ oco' = [oco EXCEPT ![pos.oco].status = "gone"]
    /\ AfterCancel
    /\ UNCHANGED <<saved, bought, account, job, warned, user>>

\* cancel_oco is false: there was nothing to cancel, or the call failed, before
\* or after the server did it.
NotCancelled ==
    /\ pc = "cancel"
    /\ \/ UNCHANGED oco
       \/ /\ Server.status = "open"
          /\ oco' = [oco EXCEPT ![pos.oco].status = "gone"]
    /\ pc' = "ask"
    /\ UNCHANGED <<pos, saved, bought, account, job, warned, user>>

\* oco_is_open is true, or is not known: the position stays as it is; reconcile
\* has changed its quantity by then, and says so.
StillOpen ==
    /\ pc = "ask"
    /\ warned' = (warned \/ job.kind = "fix")
    /\ saved' = IF job.kind = "fix" THEN pos ELSE saved
    /\ Done
    /\ UNCHANGED <<pos, bought, account, oco, user>>

\* Mutated NotOpen: a query that fails counts as "not open".
UnknownIsNotOpen ==
    /\ pc = "ask"
    /\ IF job.kind = "close"
         THEN /\ pos' = NoPosition /\ saved' = NoPosition
              /\ warned' = FALSE
              /\ Done
         ELSE /\ AfterCancel
              /\ UNCHANGED <<saved, job, warned>>
    /\ UNCHANGED <<bought, account, oco, user>>

\* oco_is_open is false.  _close_position takes it that the server has sold the
\* whole position and books that.  A triggered order may be listed or not.
NotOpen ==
    /\ pc = "ask"
    /\ Server.status # "open"
    /\ IF job.kind = "close"
         THEN /\ pos' = NoPosition /\ saved' = NoPosition
              /\ warned' = FALSE
              /\ Done
         ELSE /\ AfterCancel
              /\ UNCHANGED <<saved, job, warned>>
    /\ UNCHANGED <<bought, account, oco, user>>

\* sell() fills n shares and the close books them; a part leaves the OCO to be
\* placed again.
SellFills(n) ==
    /\ pc = "sell"
    /\ bought > 0
    /\ n <= job.n /\ n <= account
    /\ account' = account - n
    /\ bought' = IF n < bought THEN bought - n ELSE 0
    /\ pos' = Less(n)
    /\ IF n < pos.qty
         THEN pc' = "place" /\ UNCHANGED <<saved, job, warned>>
         ELSE saved' = NoPosition /\ warned' = FALSE /\ Done
    /\ UNCHANGED <<oco, user>>

\* sell() fills nothing: the close gives up, and pos.oco still names the order
\* that was cancelled.  When the failure is fatal, _halt saves the state.
SellFails ==
    /\ pc = "sell"
    /\ bought > 0
    /\ saved' \in {saved, pos}
    /\ Done
    /\ UNCHANGED <<pos, bought, account, oco, warned, user>>

\* NotOwnedError is caught nowhere and ends run().
NotOwned ==
    /\ pc = "sell"
    /\ bought = 0
    /\ pc' = "down"
    /\ job' = NoJob
    /\ UNCHANGED <<pos, saved, bought, account, oco, warned, user>>

BuyFills ==
    /\ pc = "buy"
    /\ Room(job.n)
    /\ account' = account + job.n
    /\ bought' = bought + job.n
    /\ pos' = [pos EXCEPT !.qty = @ + job.n]
    /\ pc' = "place"
    /\ UNCHANGED <<saved, oco, job, warned, user>>

\* The buy fails; the OCO that was cancelled is placed again.
BuyFails ==
    /\ pc = "buy"
    /\ job' = [job EXCEPT !.kind = "restore"]
    /\ pc' = "place"
    /\ UNCHANGED <<pos, saved, bought, account, oco, warned, user>>

\* The quantity place_oco is called with.
Placing == IF job.kind = "open" THEN job.n ELSE pos.qty

\* Mutated Placed: _maybe_add does not save either.
PlacedUnsaved(id) ==
    /\ pos' = [qty |-> Placing, oco |-> id]
    /\ saved' = IF job.kind \in {"restore", "add"} THEN saved ELSE pos'
    /\ warned' = FALSE
    /\ Done
    /\ UNCHANGED <<bought, account, user>>

\* The position with the OCO it got; all but a restored one is saved.
Placed(id) ==
    /\ pos' = [qty |-> Placing, oco |-> id]
    /\ saved' = IF job.kind = "restore" THEN saved ELSE pos'
    /\ warned' = FALSE
    /\ Done
    /\ UNCHANGED <<bought, account, user>>

NewOco(i) ==
    /\ oco[i].status = "unused"
    /\ \A j \in OcoId : j < i => oco[j].status # "unused"
    /\ oco' = [oco EXCEPT ![i] = [status |-> "open", qty |-> Placing, sold |-> 0]]

Place(i) ==
    /\ pc = "place"
    /\ NewOco(i)
    /\ Placed(i)

\* create_oco raises: None.
PlaceFails ==
    /\ pc = "place"
    /\ Placed(None)
    /\ UNCHANGED oco

\* create_oco raises although the server took the order.
PlaceUnknown(i) ==
    /\ pc = "place"
    /\ NewOco(i)
    /\ Placed(None)

\* _poll_server_oco: a filled or a triggered OCO is booked as sold, with its
\* filledQuantity or, when that is 0 or missing, with all there is.  An OCO
\* that was cancelled or has expired has another status and is passed over.
Poll ==
    /\ pc = "idle"
    /\ Held /\ Covered
    /\ Server.status = "triggered" \/ (Server.status = "gone" /\ Server.sold > 0)
    /\ pos' = Less(IF Server.sold > 0 THEN Server.sold ELSE pos.qty)
    /\ saved' = pos'
    /\ warned' = (warned /\ pos'.qty > 0)
    /\ UNCHANGED <<bought, account, oco, pc, job, user>>

\* Mutated Reconcile: the quantity is taken over and the OCO is left alone.
ReconcileQuantity ==
    /\ pc = "idle"
    /\ Held /\ account # pos.qty
    /\ pos' = IF account = 0 THEN NoPosition ELSE [pos EXCEPT !.qty = account]
    /\ saved' = pos'
    /\ warned' = (warned /\ account > 0)
    /\ UNCHANGED <<bought, account, oco, pc, job, user>>

\* Mutated Reconcile: only positions that are gone are noticed.
ReconcileGhosts ==
    /\ pc = "idle"
    /\ Held /\ account = 0
    /\ pos' = NoPosition
    /\ saved' = pos'
    /\ warned' = FALSE
    /\ UNCHANGED <<bought, account, oco, pc, job, user>>

\* reconcile: what the account does not have is dropped, another quantity is
\* taken over, and the OCO is made to fit it.
Reconcile ==
    /\ pc = "idle"
    /\ Held /\ account # pos.qty
    /\ pos' = IF account = 0 THEN NoPosition ELSE [pos EXCEPT !.qty = account]
    /\ IF account > 0 /\ Covered
         THEN /\ job' = [kind |-> "fix", n |-> 0]
              /\ pc' = "cancel"
              /\ UNCHANGED <<saved, warned>>
         ELSE /\ saved' = pos'
              /\ warned' = (warned /\ account > 0)
              /\ UNCHANGED <<pc, job>>
    /\ UNCHANGED <<bought, account, oco, user>>

EngineCall ==
    \/ Cancelled \/ NotCancelled \/ StillOpen \/ NotOpen
    \/ \E n \in 1 .. MaxQty : SellFills(n)
    \/ SellFails \/ NotOwned \/ BuyFills \/ BuyFails
    \/ \E i \in OcoId : Place(i) \/ PlaceUnknown(i)
    \/ PlaceFails

EngineStart ==
    \/ \E n \in 1 .. MaxQty : Open(n) \/ StartClose(n) \/ StartAdd(n)
    \/ Poll \/ Reconcile

------------------------------------------------------------------------------
\* The server, the user and the process

\* The stop or the target is reached.
Trigger(i) ==
    /\ oco[i].status = "open"
    /\ oco' = [oco EXCEPT ![i].status = "triggered"]
    /\ UNCHANGED <<pos, saved, bought, account, pc, job, warned, user>>

\* The triggered order sells n shares, as far as the account has them.
ServerSells(i, n) ==
    /\ oco[i].status = "triggered"
    /\ n <= oco[i].qty - oco[i].sold /\ n <= account
    /\ oco' = [oco EXCEPT ![i] =
                 [status |-> IF @.sold + n = @.qty THEN "gone" ELSE "triggered",
                  qty |-> @.qty, sold |-> @.sold + n]]
    /\ account' = account - n
    /\ UNCHANGED <<pos, saved, bought, pc, job, warned, user>>

\* The day is over, the user cancels it, or the account has no shares for it.
ServerDrops(i) ==
    /\ Live(i)
    /\ oco' = [oco EXCEPT ![i].status = "gone"]
    /\ UNCHANGED <<pos, saved, bought, account, pc, job, warned, user>>

UserTrades(shares) ==
    /\ user < MaxUser
    /\ shares # account
    /\ user' = user + 1
    /\ account' = shares
    /\ UNCHANGED <<pos, saved, bought, oco, pc, job, warned>>

Crash ==
    /\ pc # "down"
    /\ pc' = "down"
    /\ job' = NoJob
    /\ UNCHANGED <<pos, saved, bought, account, oco, warned, user>>

\* preflight refuses over an open conditional order unless the symbol is held;
\* register_holding fills _bought_qty from the file.
Restart ==
    /\ pc = "down"
    /\ saved.qty > 0 \/ \A i \in OcoId : oco[i].status # "open"
    /\ pos' = saved
    /\ bought' = saved.qty
    /\ pc' = "idle"
    /\ UNCHANGED <<saved, account, oco, job, warned, user>>

Environment ==
    \/ \E i \in OcoId : Trigger(i) \/ ServerDrops(i)
    \/ \E i \in OcoId, n \in 1 .. MaxQty : ServerSells(i, n)
    \/ \E shares \in Qty : UserTrades(shares)
    \/ Crash \/ Restart

Next == EngineCall \/ EngineStart \/ Environment

Spec == Init /\ [][Next]_vars

\* Calls return, and reconcile, run every few rounds, gets through now and then.
FairSpec == Spec /\ WF_vars(EngineCall) /\ SF_vars(Reconcile)

------------------------------------------------------------------------------
\* Properties

(***************************************************************************)
(* _close_position, _maybe_add: "the order at the server is alive, selling *)
(* again would be a double sale".  The program neither sells nor buys      *)
(* while the OCO it knows of, in memory or in the file, could still be     *)
(* triggered; nor does it sell while the one in memory is selling.         *)
(***************************************************************************)
Trades == pc \in {"sell", "buy"} /\ account' # account /\ pc' # pc

OcoIsGone ==
    /\ Covered => ~Live(pos.oco)
    /\ saved.oco # None => oco[saved.oco].status # "open"

TradesOnlyWithoutOco == [][Trades => OcoIsGone]_vars

(***************************************************************************)
(* Between calls the OCO the program knows of is for the quantity it       *)
(* holds; where reconcile could not arrange that, it said so.              *)
(***************************************************************************)
OcoFitsPosition ==
    pc = "idle" /\ Covered /\ Server.status = "open" => Server.qty = pos.qty \/ warned

(***************************************************************************)
(* Between calls the file has the quantity in memory: a restart neither    *)
(* forgets shares nor brings sold ones back.                               *)
(***************************************************************************)
RestartKeepsQuantity == pc = "idle" => saved.qty = pos.qty

(***************************************************************************)
(* "The account is the truth": a position that disagrees with the account  *)
(* does not stay so, whoever traded and whatever got lost.                 *)
(***************************************************************************)
AccountWins ==
    (Held /\ pos.qty # account) ~> (~Held \/ pos.qty = account \/ pc = "down")
==============================================================================
