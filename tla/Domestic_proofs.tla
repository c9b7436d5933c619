--------------------------- MODULE Domestic_proofs ---------------------------
(***************************************************************************)
(* Proofs about the domestic engine: Holdings, for any number of shares,   *)
(* orders and trades of the user, and Selection, for any stocks, themes,   *)
(* prices, rules in use and limits.                                        *)
(***************************************************************************)
EXTENDS Holdings, Selection, Sums, SequenceTheorems

------------------------------------------------------------------------------
\* Holdings: the theorems follow from Inv, which says what a call in progress keeps of
\* the position, the file and the order at the server, so that every way out of it
\* leaves the three in agreement.

\* Which call belongs to which job.
Stage ==
    /\ pc \in {"idle", "down"} => job = NoJob
    /\ pc \in {"cancel", "ask"} => job.kind \in {"close", "add", "fix"}
    /\ pc = "sell" => job.kind = "close"
    /\ pc = "buy" => job.kind = "add"

\* Until a call changes the quantity, it is that of the file.
Unchanged ==
    \/ pc \in {"idle", "cancel", "ask", "sell", "buy"} /\ job.kind # "fix"
    \/ pc = "place" /\ job.kind = "restore"

FileAgrees == Unchanged => saved.qty = pos.qty

\* The orders the program knows of were placed once.
Used ==
    /\ Covered => Server.status # "unused"
    /\ saved.oco # None => oco[saved.oco].status # "unused"

\* An order that only the file names any more is out of the way.
OldIsGone == saved.oco \notin {None, pos.oco} => oco[saved.oco].status # "open"

\* So is the order of the position, once it is time to trade.
Cleared ==
    /\ pc = "sell" /\ Covered => Server.status = "gone"
    /\ pc = "buy" \/ (pc = "place" /\ job.kind = "restore") => ~Covered

\* An open order fits the position, in memory and in the file.
Fits ==
    /\ Unchanged /\ Covered /\ Server.status = "open" => Server.qty = pos.qty \/ warned
    /\ saved.oco # None /\ oco[saved.oco].status = "open"
         => oco[saved.oco].qty = saved.qty \/ warned

\* The memory, the file and the server agree, as far as the call in progress is.
Agreement ==
    /\ Stage
    /\ FileAgrees
    /\ Used
    /\ OldIsGone
    /\ Cleared
    /\ Fits

Inv == TypeOK /\ Agreement

------------------------------------------------------------------------------
\* What the actions make of the data

\* Positions.
LEMMA PositionData ==
  ASSUME NEW p \in Position
  PROVE  /\ NoPosition \in Position
         /\ p.qty \in Nat /\ p.oco \in OcoId \cup {None}
         /\ [p EXCEPT !.oco = None] \in Position
         /\ \A n \in Nat : [p EXCEPT !.qty = n] \in Position
         /\ \A n \in Nat, i \in OcoId \cup {None} : [qty |-> n, oco |-> i] \in Position
BY DEF Position, NoPosition, None

\* Jobs.
LEMMA JobData ==
  ASSUME NEW j \in Job
  PROVE  /\ NoJob \in Job
         /\ j.n \in Nat
         /\ [j EXCEPT !.kind = "restore"] \in Job
         /\ \A n \in Nat, k \in {"open", "close", "add", "fix"} : [kind |-> k, n |-> n] \in Job
BY DEF Job, NoJob

\* Orders at the server.
LEMMA OrderData ==
  ASSUME NEW o \in [OcoId -> Order], NEW i \in OcoId
  PROVE  /\ o[i].qty \in Nat /\ o[i].sold \in Nat
         /\ \A s \in {"triggered", "gone"} : [o EXCEPT ![i].status = s] \in [OcoId -> Order]
         /\ \A s \in {"open", "triggered", "gone"}, q \in Nat, n \in Nat :
              [o EXCEPT ![i] = [status |-> s, qty |-> q, sold |-> n]] \in [OcoId -> Order]
BY DEF Order

\* What _close_position leaves of a position.
LEMMA LessKeeps ==
  ASSUME pos \in Position, NEW n \in Nat
  PROVE  /\ Less(n) \in Position
         /\ \/ Less(n) = NoPosition /\ n >= pos.qty
            \/ Less(n).oco = pos.oco /\ Less(n).qty > 0 /\ n < pos.qty
<1>0. pos.qty \in Nat /\ NoPosition \in Position
  BY PositionData
<1>1. CASE n < pos.qty
  <2>1. pos.qty - n \in Nat /\ pos.qty - n > 0
    BY <1>1, <1>0
  <2>2. [pos EXCEPT !.qty = @ - n] = [pos EXCEPT !.qty = pos.qty - n]
    BY DEF Position
  <2>3. /\ [pos EXCEPT !.qty = pos.qty - n].qty = pos.qty - n
        /\ [pos EXCEPT !.qty = pos.qty - n].oco = pos.oco
    BY DEF Position
  <2> QED
    BY <1>1, <2>1, <2>2, <2>3, PositionData DEF Less
<1>2. CASE ~(n < pos.qty)
  BY <1>0, <1>2 DEF Less
<1> QED
  BY <1>1, <1>2

\* What _poll_server_oco leaves of it.
LEMMA PollKeeps ==
  ASSUME TypeOK, Poll
  PROVE  pos' \in Position /\ (pos' = NoPosition \/ (pos'.oco = pos.oco /\ pos'.qty > 0))
<1>1. pos.oco \in OcoId /\ pos.qty \in Nat
  BY PositionData DEF TypeOK, Poll, Covered
<1>2. Server.sold \in Nat
  BY <1>1, OrderData DEF TypeOK, Server
<1> DEFINE n == IF Server.sold > 0 THEN Server.sold ELSE pos.qty
<1>3. n \in Nat
  BY <1>1, <1>2
<1>4. pos' = Less(n)
  BY DEF Poll
<1> HIDE DEF n
<1> QED
  BY <1>3, <1>4, LessKeeps DEF TypeOK

------------------------------------------------------------------------------
\* The first state satisfies the invariant.
LEMMA InitInv == Init => Inv
<1> SUFFICES ASSUME Init PROVE Inv
  OBVIOUS
<1>1. NoPosition \in Position /\ NoJob \in Job
  BY DEF NoPosition, NoJob, Position, Job, None
<1>2. oco \in [OcoId -> Order]
  BY DEF Init, Order
<1>3. account \in Qty /\ user \in 0 .. MaxUser
  BY BoundsAssumption DEF Init, Qty
<1>4. /\ pos \in Position /\ saved \in Position /\ job \in Job
      /\ warned \in BOOLEAN
  BY <1>1, Zenon DEF Init
<1>5. /\ bought \in Nat
      /\ pc \in {"idle", "cancel", "ask", "sell", "buy", "place", "down"}
  BY DEF Init
<1>6. TypeOK
  BY <1>2, <1>3, <1>4, <1>5 DEF TypeOK
<1> QED
  BY <1>6
  DEF Init, Inv, Agreement, Stage, FileAgrees, Unchanged, Used, OldIsGone, Cleared, Fits, Covered,
      NoPosition, NoJob, None

------------------------------------------------------------------------------
\* Type correctness of a step.
LEMMA TypeStep == Inv /\ [Next]_vars => TypeOK'
<1> SUFFICES ASSUME Inv, [Next]_vars PROVE TypeOK'
  OBVIOUS
<1>0. TypeOK
  BY DEF Inv
<1> USE <1>0 DEF TypeOK
<1>a. 1 .. MaxQty \subseteq Nat /\ Qty \subseteq Nat /\ MaxQty \in Nat
  BY BoundsAssumption DEF Qty
<1>b. /\ NoPosition \in Position /\ NoJob \in Job
      /\ pos.qty \in Nat /\ pos.oco \in OcoId \cup {None} /\ job.n \in Nat
  BY PositionData, JobData
<1>1. ASSUME NEW n \in 1 .. MaxQty, Open(n) PROVE TypeOK'
  <2>1. job' \in Job
    BY <1>1, <1>a, JobData DEF Open
  <2>2. account' \in Qty /\ bought' \in Nat
    BY <1>1, <1>a DEF Open, Room, Qty
  <2> QED
    BY <1>1, <2>1, <2>2 DEF Open
<1>2. ASSUME NEW n \in 1 .. MaxQty, StartClose(n) PROVE TypeOK'
  BY <1>2, <1>a, JobData DEF StartClose, FirstStep
<1>3. ASSUME NEW n \in 1 .. MaxQty, StartAdd(n) PROVE TypeOK'
  BY <1>3, <1>a, JobData DEF StartAdd, FirstStep
<1>4. ASSUME pc \in {"cancel", "ask"}, AfterCancel
      PROVE  pc' \in {"sell", "buy", "place"} /\ pos' \in Position
  BY <1>4, PositionData DEF AfterCancel, Inv, Agreement, Stage
<1>5. CASE Cancelled
  <2>1. oco' \in [OcoId -> Order]
    BY <1>5 DEF Cancelled, Order
  <2> QED
    BY <1>4, <1>5, <2>1 DEF Cancelled
<1>6. CASE NotCancelled
  <2>1. oco' \in [OcoId -> Order]
    <3>1. CASE UNCHANGED oco
      BY <3>1
    <3>2. CASE oco' = [oco EXCEPT ![pos.oco].status = "gone"]
      BY <3>2 DEF Order
    <3> QED
      BY <1>6, <3>1, <3>2 DEF NotCancelled
  <2> QED
    BY <1>6, <2>1 DEF NotCancelled
<1>7. CASE StillOpen
  BY <1>7, <1>b DEF StillOpen, Done
<1>8. CASE NotOpen
  <2>1. CASE job.kind = "close"
    BY <1>8, <2>1, <1>b DEF NotOpen, Done
  <2>2. CASE job.kind # "close"
    BY <1>8, <2>2, <1>4 DEF NotOpen
  <2> QED
    BY <2>1, <2>2
<1>9. ASSUME NEW n \in 1 .. MaxQty, SellFills(n) PROVE TypeOK'
  <2>1. pos' \in Position
    BY <1>9, <1>a, LessKeeps DEF SellFills
  <2>2. account' \in Qty /\ bought' \in Nat
    BY <1>9, <1>a DEF SellFills, Qty
  <2>3. saved' \in Position /\ pc' \in {"place", "idle"} /\ job' \in Job /\ warned' \in BOOLEAN
    BY <1>9, <1>b DEF SellFills, Done
  <2> QED
    BY <1>9, <2>1, <2>2, <2>3 DEF SellFills
<1>10. CASE SellFails
  BY <1>10, <1>b DEF SellFails, Done
<1>11. CASE NotOwned
  BY <1>11, <1>b DEF NotOwned
<1>12. CASE BuyFills
  <2>1. pos' \in Position
    BY <1>12, <1>b DEF BuyFills, Position
  <2>2. account' \in Qty /\ bought' \in Nat
    BY <1>12, <1>a, <1>b DEF BuyFills, Room, Qty
  <2> QED
    BY <1>12, <2>1, <2>2 DEF BuyFills
<1>13. CASE BuyFails
  BY <1>13, JobData DEF BuyFails
<1>14. Placing \in Nat
  BY <1>b DEF Placing
<1>15. ASSUME NEW i \in OcoId, NewOco(i) PROVE oco' \in [OcoId -> Order]
  BY <1>14, <1>15 DEF NewOco, Order
<1>16. ASSUME NEW id \in OcoId \cup {None}, Placed(id), oco' \in [OcoId -> Order] PROVE TypeOK'
  <2>1. pos' \in Position
    BY <1>14, <1>16, PositionData DEF Placed
  <2> QED
    BY <1>16, <2>1, <1>b DEF Placed, Done
<1>17. ASSUME NEW i \in OcoId, Place(i) \/ PlaceUnknown(i) PROVE TypeOK'
  BY <1>15, <1>16, <1>17 DEF Place, PlaceUnknown
<1>18. CASE PlaceFails
  BY <1>16, <1>18 DEF PlaceFails
<1>19. CASE Poll
  BY <1>19, PollKeeps DEF Poll
<1>20. CASE Reconcile
  <2>1. pos' \in Position
    BY <1>20, <1>a, PositionData DEF Reconcile
  <2>2. job' \in Job /\ pc' \in {"idle", "cancel"} /\ saved' \in Position /\ warned' \in BOOLEAN
    BY <1>20, <2>1, JobData DEF Reconcile
  <2> QED
    BY <1>20, <2>1, <2>2 DEF Reconcile
<1>21. ASSUME NEW i \in OcoId, Trigger(i) PROVE TypeOK'
  BY <1>21, OrderData DEF Trigger
<1>22. ASSUME NEW i \in OcoId, ServerDrops(i) PROVE TypeOK'
  BY <1>22, OrderData DEF ServerDrops
<1>23. ASSUME NEW i \in OcoId, NEW n \in 1 .. MaxQty, ServerSells(i, n) PROVE TypeOK'
  <2>1. oco' \in [OcoId -> Order]
    BY <1>23, <1>a DEF ServerSells, Order
  <2>2. account' \in Qty
    BY <1>23, <1>a DEF ServerSells, Qty
  <2> QED
    BY <1>23, <2>1, <2>2 DEF ServerSells
<1>24. ASSUME NEW shares \in Qty, UserTrades(shares) PROVE TypeOK'
  BY <1>24, BoundsAssumption DEF UserTrades
<1>25. CASE Crash
  BY <1>25, <1>b DEF Crash
<1>26. CASE Restart
  BY <1>26, PositionData DEF Restart
<1>27. CASE UNCHANGED vars
  BY <1>27 DEF vars
<1> QED
  BY <1>1, <1>2, <1>3, <1>5, <1>6, <1>7, <1>8, <1>9, <1>10, <1>11, <1>12, <1>13,
     <1>17, <1>18, <1>19, <1>20, <1>21, <1>22, <1>23, <1>24, <1>25, <1>26, <1>27
  DEF Next, EngineCall, EngineStart, Environment

------------------------------------------------------------------------------
\* Every step leaves the three in agreement.
LEMMA AgreementStep == Inv /\ [Next]_vars => Agreement'
<1> SUFFICES ASSUME Inv, [Next]_vars PROVE Agreement'
  OBVIOUS
<1> USE BoundsAssumption DEF Inv, Agreement, TypeOK, Position, Order, Job, OcoId, None, Qty,
    Covered, Server, Held, Stage, FileAgrees, Unchanged, Used,
    OldIsGone, Cleared, Fits
<1>1. ASSUME NEW n \in 1 .. MaxQty, Open(n) PROVE Agreement'
  BY <1>1 DEF Open, Room
<1>2. ASSUME NEW n \in 1 .. MaxQty, StartClose(n) PROVE Agreement'
  <2>1. /\ job'.kind = "close"
        /\ pc' = IF Covered THEN "cancel" ELSE "sell"
        /\ UNCHANGED <<pos, saved, oco, warned>>
    BY <1>2 DEF StartClose, FirstStep
  <2> QED
    BY <1>2, <2>1 DEF StartClose, NoJob
<1>3. ASSUME NEW n \in 1 .. MaxQty, StartAdd(n) PROVE Agreement'
  <2>1. /\ job'.kind = "add"
        /\ pc' = IF Covered THEN "cancel" ELSE "buy"
        /\ UNCHANGED <<pos, saved, oco, warned>>
    BY <1>3 DEF StartAdd, FirstStep
  <2> QED
    BY <1>3, <2>1 DEF StartAdd, NoJob
<1>4. CASE Cancelled
  BY <1>4 DEF Cancelled, AfterCancel
<1>5. CASE NotCancelled
  BY <1>5 DEF NotCancelled
<1>6. CASE StillOpen
  BY <1>6 DEF StillOpen, Done, NoJob
<1>7. CASE NotOpen
  <2>1. CASE job.kind = "close"
    BY <1>7, <2>1 DEF NotOpen, Done, NoPosition, NoJob
  <2>2. CASE job.kind = "add"
    BY <1>7, <2>2 DEF NotOpen, AfterCancel
  <2>3. CASE job.kind = "fix"
    BY <1>7, <2>3 DEF NotOpen, AfterCancel
  <2> QED
    BY <1>7, <2>1, <2>2, <2>3 DEF NotOpen
<1>8. ASSUME NEW n \in 1 .. MaxQty, SellFills(n) PROVE Agreement'
  <2>1. pos' = NoPosition \/ (pos'.oco = pos.oco /\ n < pos.qty)
    BY <1>8, LessKeeps DEF SellFills
  <2> QED
    BY <1>8, <2>1 DEF SellFills, Done, NoJob, NoPosition
<1>9. CASE SellFails
  BY <1>9 DEF SellFails, Done, NoJob
<1>10. CASE NotOwned
  BY <1>10 DEF NotOwned, NoJob
<1>11. CASE BuyFills
  BY <1>11 DEF BuyFills, Room
<1>12. CASE BuyFails
  BY <1>12 DEF BuyFails
<1>13. ASSUME NEW i \in OcoId, Place(i) PROVE Agreement'
  BY <1>13 DEF Place, NewOco, Placed, Placing, Done, NoJob
<1>14. ASSUME NEW i \in OcoId, PlaceUnknown(i) PROVE Agreement'
  BY <1>14 DEF PlaceUnknown, NewOco, Placed, Placing, Done, NoJob
<1>15. CASE PlaceFails
  BY <1>15 DEF PlaceFails, Placed, Placing, Done, NoJob
<1>16. CASE Poll
  <2>1. pos' = NoPosition \/ (pos'.oco = pos.oco /\ pos'.qty > 0)
    BY <1>16, PollKeeps
  <2> QED
    BY <1>16, <2>1 DEF Poll, NoPosition
<1>17. CASE Reconcile
  BY <1>17 DEF Reconcile, NoPosition
<1>18. ASSUME NEW i \in OcoId, Trigger(i) PROVE Agreement'
  BY <1>18 DEF Trigger
<1>19. ASSUME NEW i \in OcoId, ServerDrops(i) PROVE Agreement'
  BY <1>19 DEF ServerDrops, Live
<1>20. ASSUME NEW i \in OcoId, NEW n \in 1 .. MaxQty, ServerSells(i, n) PROVE Agreement'
  BY <1>20 DEF ServerSells
<1>21. ASSUME NEW shares \in Qty, UserTrades(shares) PROVE Agreement'
  BY <1>21 DEF UserTrades
<1>22. CASE Crash
  BY <1>22 DEF Crash, NoJob
<1>23. CASE Restart
  BY <1>23 DEF Restart
<1>24. CASE UNCHANGED vars
  BY <1>24 DEF vars
<1> QED
  BY <1>1, <1>2, <1>3, <1>4, <1>5, <1>6, <1>7, <1>8, <1>9, <1>10, <1>11, <1>12,
     <1>13, <1>14, <1>15, <1>16, <1>17, <1>18, <1>19, <1>20, <1>21, <1>22, <1>23,
     <1>24
  DEF Next, EngineCall, EngineStart, Environment

\* Inv is inductive, and so an invariant.
LEMMA StepInv == Inv /\ [Next]_vars => Inv'
BY TypeStep, AgreementStep DEF Inv

LEMMA InvHolds == Spec => []Inv
BY InitInv, StepInv, PTL DEF Spec

------------------------------------------------------------------------------
\* Theorems

(***************************************************************************)
(* The variables keep their types: quantities, in memory, on disk and in   *)
(* the account, stay natural numbers whatever is sold by whom.             *)
(***************************************************************************)
THEOREM TypeCorrect == Spec => []TypeOK
BY InvHolds, PTL DEF Inv

(***************************************************************************)
(* Between calls an open order of the position is for the quantity held,   *)
(* or reconcile has said that it is not: whatever failed in                *)
(* _close_position, _maybe_add and reconcile.                              *)
(***************************************************************************)
THEOREM FitsCorrect == Spec => []OcoFitsPosition
<1>1. Inv => OcoFitsPosition
  <2> SUFFICES ASSUME Inv, pc = "idle", Covered, Server.status = "open"
               PROVE  Server.qty = pos.qty \/ warned
    BY DEF OcoFitsPosition
  <2>1. Unchanged
    BY DEF Inv, Agreement, Stage, Unchanged, NoJob
  <2> QED
    BY <2>1 DEF Inv, Agreement, Fits
<1> QED
  BY <1>1, InvHolds, PTL

(***************************************************************************)
(* Between calls the file has the quantity of the position, so that a      *)
(* restart works with what the engine worked with.                         *)
(***************************************************************************)
THEOREM KeepsCorrect == Spec => []RestartKeepsQuantity
<1>1. Inv => RestartKeepsQuantity
  BY DEF Inv, Agreement, Stage, FileAgrees, Unchanged, RestartKeepsQuantity, NoJob
<1> QED
  BY <1>1, InvHolds, PTL

(***************************************************************************)
(* The engine trades only when the order it knows of is out of the way: no *)
(* shares are sold twice by the engine and by its own stop or target.      *)
(***************************************************************************)
THEOREM TradesCorrect == Spec => TradesOnlyWithoutOco
<1>1. Inv /\ [Next]_vars => [Trades => OcoIsGone]_vars
  <2> SUFFICES ASSUME Inv, Next, Trades PROVE OcoIsGone
    BY DEF Trades, vars
  <2>1. pc \in {"sell", "buy"}
    BY DEF Trades
  <2>2. Covered => Server.status = "gone"
    BY <2>1 DEF Inv, Agreement, Cleared
  <2>3. Covered => ~Live(pos.oco)
    BY <2>2 DEF Live, Server
  <2>4. saved.oco # None => oco[saved.oco].status # "open"
    BY <2>2 DEF Inv, Agreement, OldIsGone, Covered, Server
  <2> QED
    BY <2>3, <2>4 DEF OcoIsGone
<1> QED
  BY <1>1, InvHolds, PTL DEF Spec, TradesOnlyWithoutOco

------------------------------------------------------------------------------
\* Selection: sequences that are sorted, picked from and drawn from in turn.

\* R is a strict total order on S.
TotalOrder(S, R) ==
  /\ \A x \in S : <<x, x>> \notin R
  /\ \A x, y \in S : x # y => <<x, y>> \in R \/ <<y, x>> \in R
  /\ \A x, y, z \in S : <<x, y>> \in R /\ <<y, z>> \in R => <<x, z>> \in R

\* A finite set stands in its order: every element once, each before those that are
\* after it in R.
LEMMA OrderedData ==
  ASSUME NEW S, IsFiniteSet(S), NEW R, TotalOrder(S, R)
  PROVE  /\ Cardinality(S) \in Nat
         /\ Ordered(S, R) \in [1 .. Cardinality(S) -> S]
         /\ \A x \in S : \E k \in 1 .. Cardinality(S) : Ordered(S, R)[k] = x
         /\ \A i, j \in 1 .. Cardinality(S) :
               i < j => <<Ordered(S, R)[i], Ordered(S, R)[j]>> \in R
<1> DEFINE n == Cardinality(S)
           below(x) == {y \in S : <<y, x>> \in R}
           rank == [x \in S |-> Cardinality(below(x))]
           T == {rank[x] : x \in S}
           f == Ordered(S, R)
<1>1. n \in Nat
  BY FS_CardinalityType
<1>2. \A x \in S : rank[x] \in Nat
  BY FS_Subset, FS_CardinalityType
<1>3. \A x \in S : rank[x] < n
  <2> TAKE x \in S
  <2>1. below(x) \subseteq S \ {x}
    BY DEF TotalOrder
  <2>2. IsFiniteSet(S \ {x}) /\ Cardinality(S \ {x}) = n - 1
    BY FS_RemoveElement
  <2>3. rank[x] <= n - 1
    BY <2>1, <2>2, FS_Subset
  <2> HIDE DEF rank, n
  <2> QED
    BY <1>1, <1>2, <2>3
<1>4. \A x, y \in S : <<x, y>> \in R => rank[x] < rank[y]
  <2> SUFFICES ASSUME NEW x \in S, NEW y \in S, <<x, y>> \in R PROVE rank[x] < rank[y]
    OBVIOUS
  <2>1. below(x) \subseteq below(y) /\ x \in below(y) /\ x \notin below(x)
    BY DEF TotalOrder
  <2>2. rank[x] <= rank[y] /\ rank[x] # rank[y]
    <3>1. IsFiniteSet(below(x)) /\ IsFiniteSet(below(y))
      BY FS_Subset
    <3> QED
      BY <2>1, <3>1, FS_Subset
  <2> HIDE DEF rank
  <2> QED
    BY <1>2, <2>2
<1>5. \A x, y \in S : rank[x] = rank[y] => x = y
  <2> SUFFICES ASSUME NEW x \in S, NEW y \in S, x # y PROVE rank[x] # rank[y]
    OBVIOUS
  <2>1. <<x, y>> \in R \/ <<y, x>> \in R
    BY DEF TotalOrder
  <2> HIDE DEF rank
  <2> QED
    BY <1>2, <1>4, <2>1
<1>6. T = 0 .. n - 1
  <2>1. rank \in Surjection(S, T) /\ rank \in Injection(S, T)
    BY <1>5 DEF Surjection, Injection, IsInjective
  <2>2. IsFiniteSet(T) /\ Cardinality(T) = n
    BY <2>1, FS_Surjection
  <2>3. T \subseteq 0 .. n - 1
    <3> HIDE DEF rank, n
    <3> QED
      BY <1>1, <1>2, <1>3
  <2>4. IsFiniteSet(0 .. n - 1) /\ Cardinality(0 .. n - 1) = n
    <3> HIDE DEF n
    <3> QED
      BY <1>1, FS_Interval
  <2> HIDE DEF T
  <2> QED
    BY <2>2, <2>3, <2>4, FS_Subset
<1>7. \A k \in 1 .. n : f[k] \in S /\ rank[f[k]] = k - 1
  <2> TAKE k \in 1 .. n
  <2>1. k - 1 \in T
    <3> HIDE DEF T, n
    <3> QED
      BY <1>1, <1>6
  <2>2. PICK x \in S : rank[x] = k - 1
    BY <2>1
  <2>3. f[k] = CHOOSE y \in S : Cardinality({z \in S : <<z, y>> \in R}) = k - 1
    BY DEF Ordered
  <2>4. x \in S /\ Cardinality({z \in S : <<z, x>> \in R}) = k - 1
    BY <2>2
  <2> HIDE DEF f
  <2>5. f[k] \in S /\ Cardinality({z \in S : <<z, f[k]>> \in R}) = k - 1
    BY <2>3, <2>4
  <2> QED
    BY <2>5
<1>8. f \in [1 .. n -> S]
  <2> DEFINE g(k) == CHOOSE y \in S : Cardinality({z \in S : <<z, y>> \in R}) = k - 1
  <2>1. f = [k \in 1 .. n |-> g(k)]
    BY DEF Ordered
  <2> HIDE DEF f, n, g
  <2> QED
    BY <1>7, <2>1
<1> HIDE DEF f, n, rank, T
<1>9. ASSUME NEW x \in S PROVE \E k \in 1 .. n : f[k] = x
  <2>1. rank[x] + 1 \in 1 .. n
    BY <1>1, <1>2, <1>3
  <2>2. f[rank[x] + 1] \in S /\ rank[f[rank[x] + 1]] = rank[x]
    BY <1>2, <1>7, <2>1
  <2> QED
    BY <1>5, <2>1, <2>2
<1>10. ASSUME NEW i \in 1 .. n, NEW j \in 1 .. n, i < j PROVE <<f[i], f[j]>> \in R
  <2>1. f[i] \in S /\ f[j] \in S /\ rank[f[i]] = i - 1 /\ rank[f[j]] = j - 1
    BY <1>7
  <2>2. rank[f[i]] < rank[f[j]]
    BY <1>1, <1>10, <2>1
  <2>3. f[i] # f[j] /\ ~ (<<f[j], f[i]>> \in R)
    BY <1>2, <1>4, <2>1, <2>2
  <2> QED
    BY <2>1, <2>3 DEF TotalOrder
<1> QED
  BY <1>1, <1>8, <1>9, <1>10 DEF f, n

\* A sequence of elements of A.
InLine(q, A) == \E n \in Nat : q \in [1 .. n -> A]
IsLine(q) == \E A : InLine(q, A)

LEMMA PickedData ==
  ASSUME NEW A, NEW q, InLine(q, A), NEW ok \in SUBSET DOMAIN q
  PROVE  /\ Cardinality(ok) \in Nat
         /\ \E order \in [1 .. Cardinality(ok) -> ok] :
               /\ Picked(q, ok) = [k \in 1 .. Cardinality(ok) |-> q[order[k]]]
               /\ \A i, j \in 1 .. Cardinality(ok) : i < j => order[i] < order[j]
               /\ \A x \in ok : \E k \in 1 .. Cardinality(ok) : order[k] = x
<1> DEFINE R == {e \in ok \X ok : e[1] < e[2]}
           order == Ordered(ok, R)
<1>1. PICK n \in Nat : q \in [1 .. n -> A]
  BY DEF InLine
<1>2. IsFiniteSet(ok)
  <2>1. IsFiniteSet(1 .. n)
    BY FS_Interval
  <2> QED
    BY <1>1, <2>1, FS_Subset
<1>3. ok \subseteq Nat
  BY <1>1
<1>4. \A x, y : <<x, y>> \in R <=> x \in ok /\ y \in ok /\ x < y
  OBVIOUS
<1>5. Picked(q, ok) = [k \in 1 .. Cardinality(ok) |-> q[order[k]]]
  BY DEF Picked
<1> HIDE DEF R
<1>6. TotalOrder(ok, R)
  BY <1>3, <1>4 DEF TotalOrder
<1>7. /\ Cardinality(ok) \in Nat
      /\ order \in [1 .. Cardinality(ok) -> ok]
      /\ \A x \in ok : \E k \in 1 .. Cardinality(ok) : order[k] = x
      /\ \A i, j \in 1 .. Cardinality(ok) : i < j => <<order[i], order[j]>> \in R
  BY <1>2, <1>6, OrderedData
<1> HIDE DEF order
<1> QED
  BY <1>4, <1>5, <1>7

\* What is picked of a sequence.
LEMMA PickedLine ==
  ASSUME NEW A, NEW q, InLine(q, A), NEW ok \in SUBSET DOMAIN q
  PROVE  /\ InLine(Picked(q, ok), A)
         /\ IsInjective(q) => IsInjective(Picked(q, ok))
         /\ ToSet(Picked(q, ok)) = {q[i] : i \in ok}
<1> DEFINE n == Cardinality(ok)
<1>1. n \in Nat
  BY PickedData
<1>2. PICK order \in [1 .. n -> ok] :
         /\ Picked(q, ok) = [k \in 1 .. n |-> q[order[k]]]
         /\ \A i, j \in 1 .. n : i < j => order[i] < order[j]
         /\ \A x \in ok : \E k \in 1 .. n : order[k] = x
  BY PickedData
<1> HIDE DEF n
<1>3. \A i \in ok : q[i] \in A /\ i \in Nat
  BY DEF InLine
<1>4. Picked(q, ok) \in [1 .. n -> A]
  BY <1>2, <1>3
<1>5. ASSUME IsInjective(q) PROVE IsInjective(Picked(q, ok))
  <2>1. \A i, j \in 1 .. n : i # j => order[i] # order[j]
    BY <1>1, <1>2, <1>3
  <2>2. \A i, j \in 1 .. n : q[order[i]] = q[order[j]] => i = j
    BY <1>2, <1>5, <2>1 DEF IsInjective
  <2> QED
    BY <1>2, <2>2 DEF IsInjective
<1>6. ToSet(Picked(q, ok)) = {q[i] : i \in ok}
  BY <1>2 DEF ToSet
<1> QED
  BY <1>1, <1>4, <1>5, <1>6 DEF InLine

\* Sorting keeps what there is, and puts nothing behind what weighs less.
LEMMA FallingLine ==
  ASSUME NEW A, NEW q, InLine(q, A), NEW weight, \A i \in DOMAIN q : weight[q[i]] \in Int
  PROVE  /\ InLine(Falling(q, weight), A)
         /\ IsInjective(q) => IsInjective(Falling(q, weight))
         /\ ToSet(Falling(q, weight)) = ToSet(q)
         /\ \A i, j \in DOMAIN Falling(q, weight) :
               i < j => weight[Falling(q, weight)[i]] >= weight[Falling(q, weight)[j]]
         /\ DOMAIN Falling(q, weight) = DOMAIN q
<1> DEFINE before(i, j) == \/ weight[q[i]] > weight[q[j]]
                           \/ weight[q[i]] = weight[q[j]] /\ i < j
           R == {e \in (DOMAIN q) \X (DOMAIN q) : before(e[1], e[2])}
           order == Ordered(DOMAIN q, R)
<1>1. PICK n \in Nat : q \in [1 .. n -> A]
  BY DEF InLine
<1>2. IsFiniteSet(DOMAIN q) /\ Cardinality(DOMAIN q) = n
  BY <1>1, FS_Interval
<1>3. \A i, j : <<i, j>> \in R <=> i \in DOMAIN q /\ j \in DOMAIN q /\ before(i, j)
  <2> HIDE DEF before
  <2> QED
    OBVIOUS
<1>4. Falling(q, weight) = [k \in DOMAIN q |-> q[order[k]]]
  BY DEF Falling
<1> HIDE DEF R
<1>5. TotalOrder(DOMAIN q, R)
  BY <1>1, <1>3 DEF TotalOrder
<1>6. /\ order \in [1 .. n -> DOMAIN q]
      /\ \A x \in DOMAIN q : \E k \in 1 .. n : order[k] = x
      /\ \A i, j \in 1 .. n : i < j => <<order[i], order[j]>> \in R
  BY <1>2, <1>5, OrderedData
<1> HIDE DEF order
<1>7. \A i, j \in 1 .. n : i # j => order[i] # order[j]
  <2>1. \A x \in DOMAIN q : <<x, x>> \notin R
    BY <1>5 DEF TotalOrder
  <2> SUFFICES ASSUME NEW i \in 1 .. n, NEW j \in 1 .. n, i < j PROVE order[i] # order[j]
    OBVIOUS
  <2>2. <<order[i], order[j]>> \in R /\ order[i] \in DOMAIN q
    BY <1>6
  <2> QED
    BY <2>1, <2>2
<1>8. Falling(q, weight) \in [1 .. n -> A]
  BY <1>1, <1>4, <1>6
<1>9. ASSUME IsInjective(q) PROVE IsInjective(Falling(q, weight))
  <2>1. \A i, j \in 1 .. n : q[order[i]] = q[order[j]] => i = j
    BY <1>1, <1>6, <1>7, <1>9 DEF IsInjective
  <2> QED
    BY <1>1, <1>4, <2>1 DEF IsInjective
<1>10. ToSet(Falling(q, weight)) = ToSet(q)
  <2>1. DOMAIN q = 1 .. n
    BY <1>1
  <2>2. ToSet(Falling(q, weight)) = {q[order[k]] : k \in 1 .. n}
    BY <1>4, <2>1 DEF ToSet
  <2>3. ToSet(q) = {q[k] : k \in 1 .. n}
    BY <2>1 DEF ToSet
  <2> QED
    <3>1. \A k \in 1 .. n : order[k] \in 1 .. n
      BY <1>6, <2>1
    <3>2. \A m \in 1 .. n : \E k \in 1 .. n : order[k] = m
      BY <1>6, <2>1
    <3>3. {q[order[k]] : k \in 1 .. n} = {q[k] : k \in 1 .. n}
      BY <3>1, <3>2
    <3> QED
      BY <2>2, <2>3, <3>3
<1>11. ASSUME NEW i \in 1 .. n, NEW j \in 1 .. n, i < j
       PROVE  weight[q[order[i]]] >= weight[q[order[j]]]
  <2>1. before(order[i], order[j]) /\ order[i] \in DOMAIN q /\ order[j] \in DOMAIN q
    BY <1>3, <1>6, <1>11
  <2> QED
    BY <2>1
<1> QED
  BY <1>1, <1>4, <1>8, <1>9, <1>10, <1>11 DEF InLine

LEMMA PlacesData ==
  ASSUME NEW A, NEW K \in Nat, NEW buckets, DOMAIN buckets = 1 .. K,
         \A k \in 1 .. K : InLine(buckets[k], A)
  PROVE  /\ IsFiniteSet(Places(buckets))
         /\ \A k, i : <<k, i>> \in Places(buckets) <=> k \in 1 .. K /\ i \in DOMAIN buckets[k]
         /\ \A e \in Places(buckets) : e = <<e[1], e[2]>>
         /\ \A k \in 1 .. K : DOMAIN buckets[k] \subseteq Nat \ {0}
<1> DEFINE row(k) == {k} \X (DOMAIN buckets[k])
           f == [k \in 1 .. K |-> row(k)]
           S == {row(k) : k \in 1 .. K}
<1>1. Places(buckets) = UNION S
  BY DEF Places
<1>2. \A k \in 1 .. K : IsFiniteSet(row(k))
  <2> TAKE k \in 1 .. K
  <2>1. PICK n \in Nat : buckets[k] \in [1 .. n -> A]
    BY DEF InLine
  <2>2. DOMAIN buckets[k] = 1 .. n /\ IsFiniteSet(1 .. n)
    BY <2>1, FS_Interval
  <2>3. IsFiniteSet({k})
    BY FS_Singleton
  <2> QED
    BY <2>2, <2>3, FS_Product
<1>3. IsFiniteSet(S)
  <2>1. IsFiniteSet(1 .. K)
    BY FS_Interval
  <2>2. f \in Surjection(1 .. K, S)
    BY DEF Surjection
  <2> HIDE DEF f, S
  <2> QED
    BY <2>1, <2>2, FS_Surjection
<1>4. IsFiniteSet(UNION S)
  <2>1. \A T \in S : IsFiniteSet(T)
    BY <1>2
  <2> HIDE DEF S
  <2> QED
    BY <1>3, <2>1, FS_UNION
<1>5. \A e : e \in UNION S <=> \E k \in 1 .. K : e \in row(k)
  OBVIOUS
<1> HIDE DEF S
<1>6. \A k \in 1 .. K : DOMAIN buckets[k] \subseteq Nat \ {0}
  <2> TAKE k \in 1 .. K
  <2>1. PICK n \in Nat : buckets[k] \in [1 .. n -> A]
    BY DEF InLine
  <2> QED
    BY <2>1
<1>7. \A k, i : <<k, i>> \in UNION S <=> k \in 1 .. K /\ i \in DOMAIN buckets[k]
  BY <1>5
<1>8. \A e \in UNION S : e = <<e[1], e[2]>>
  BY <1>5
<1> QED
  BY <1>1, <1>4, <1>6, <1>7, <1>8

\* K sequences of elements of A that have no element twice between them.
Apart(buckets, K, A) ==
  /\ DOMAIN buckets = 1 .. K
  /\ \A k \in 1 .. K : InLine(buckets[k], A)
  /\ \A k, l \in 1 .. K : \A i \in DOMAIN buckets[k], j \in DOMAIN buckets[l] :
        buckets[k][i] = buckets[l][j] => k = l /\ i = j

\* What is drawn from them has nothing twice, and reaches as far as the limit lets it: to
\* the i-th of every one of K buckets where K * i places are free.
Drawn(short, buckets, K, limit) ==
  /\ IsInjective(short)
  /\ \A n \in DOMAIN short :
        \E k \in 1 .. K : \E i \in DOMAIN buckets[k] : short[n] = buckets[k][i]
  /\ \A k \in 1 .. K : \A i \in DOMAIN buckets[k] :
        K * i <= limit => \E n \in DOMAIN short : short[n] = buckets[k][i]

LEMMA RoundRobinData ==
  ASSUME NEW A, NEW K \in Nat, NEW buckets, Apart(buckets, K, A), NEW limit \in Nat
  PROVE  /\ InLine(RoundRobin(buckets, limit), A)
         /\ Drawn(RoundRobin(buckets, limit), buckets, K, limit)
<1> DEFINE places == Places(buckets)
           before(k, i, l, j) == i < j \/ (i = j /\ k < l)
           R == {e \in places \X places : before(e[1][1], e[1][2], e[2][1], e[2][2])}
           order == Ordered(places, R)
           N == Cardinality(places)
           all == RoundRobin(buckets, limit)
           L == IF N <= limit THEN N ELSE limit
<1>1. /\ IsFiniteSet(places)
      /\ \A k, i : <<k, i>> \in places <=> k \in 1 .. K /\ i \in DOMAIN buckets[k]
      /\ \A e \in places : e = <<e[1], e[2]>>
      /\ \A k \in 1 .. K : DOMAIN buckets[k] \subseteq Nat \ {0}
  BY PlacesData DEF Apart
<1>2. all = [n \in {m \in 1 .. N : m <= limit} |-> buckets[order[n][1]][order[n][2]]]
  BY DEF RoundRobin
<1> HIDE DEF places
<1>3. \A d, e : <<d, e>> \in R <=>
          d \in places /\ e \in places /\ before(d[1], d[2], e[1], e[2])
  <2> HIDE DEF before
  <2> QED
    OBVIOUS
<1> HIDE DEF R
<1>4. \A e \in places : e[1] \in 1 .. K /\ e[2] \in DOMAIN buckets[e[1]] /\ e[2] \in Nat \ {0}
  BY <1>1
<1>5. TotalOrder(places, R)
  <2>1. \A d, e \in places : d # e => d[1] # e[1] \/ d[2] # e[2]
    BY <1>1
  <2> QED
    BY <1>3, <1>4, <2>1 DEF TotalOrder
<1>6. /\ N \in Nat
      /\ order \in [1 .. N -> places]
      /\ \A e \in places : \E k \in 1 .. N : order[k] = e
      /\ \A i, j \in 1 .. N : i < j => <<order[i], order[j]>> \in R
  BY <1>1, <1>5, OrderedData
<1> HIDE DEF order, N
<1>7. L \in Nat /\ {m \in 1 .. N : m <= limit} = 1 .. L
  BY <1>6
<1>8. \A n \in 1 .. L : order[n] \in places /\ all[n] = buckets[order[n][1]][order[n][2]]
  BY <1>2, <1>6, <1>7
<1>9. all \in [1 .. L -> A]
  <2>1. \A n \in 1 .. L : buckets[order[n][1]][order[n][2]] \in A
    BY <1>4, <1>8 DEF InLine, Apart
  <2>2. all = [n \in 1 .. L |-> buckets[order[n][1]][order[n][2]]]
    BY <1>2, <1>7
  <2> HIDE DEF all, L
  <2> QED
    BY <2>1, <2>2
<1> HIDE DEF all
<1>10. \A i, j \in 1 .. N : i # j => order[i] # order[j]
  <2>1. \A x \in places : <<x, x>> \notin R
    BY <1>5 DEF TotalOrder
  <2> SUFFICES ASSUME NEW i \in 1 .. N, NEW j \in 1 .. N, i < j PROVE order[i] # order[j]
    BY <1>6
  <2>2. <<order[i], order[j]>> \in R /\ order[i] \in places
    BY <1>6
  <2> QED
    BY <2>1, <2>2
<1>11. IsInjective(all)
  <2> SUFFICES ASSUME NEW i \in 1 .. L, NEW j \in 1 .. L, all[i] = all[j] PROVE i = j
    BY <1>9 DEF IsInjective
  <2> DEFINE d == order[i]
             e == order[j]
  <2>1. d \in places /\ e \in places /\ buckets[d[1]][d[2]] = buckets[e[1]][e[2]]
    BY <1>8
  <2>2. d[1] = e[1] /\ d[2] = e[2]
    <3> HIDE DEF d, e
    <3> QED
      BY <1>4, <2>1 DEF Apart
  <2>3. d = e
    <3> HIDE DEF d, e
    <3> QED
      BY <1>1, <2>1, <2>2
  <2> QED
    BY <1>6, <1>7, <1>10, <2>3
<1>12. ASSUME NEW n \in 1 .. L
       PROVE  \E k \in 1 .. K : \E i \in DOMAIN buckets[k] : all[n] = buckets[k][i]
  BY <1>4, <1>8
<1>13. ASSUME NEW k \in 1 .. K, NEW i \in DOMAIN buckets[k], K * i <= limit
       PROVE  \E n \in 1 .. L : all[n] = buckets[k][i]
  <2>1. <<k, i>> \in places /\ i \in Nat \ {0}
    BY <1>1
  <2>2. PICK n \in 1 .. N : order[n] = <<k, i>>
    BY <1>6, <2>1
  <2> DEFINE g == [m \in 1 .. n |-> order[m]]
             T == (1 .. K) \X (1 .. i)
  <2>3. \A m \in 1 .. n : order[m] \in T
    <3> TAKE m \in 1 .. n
    <3>1. m \in 1 .. N /\ order[m] \in places
      BY <1>6
    <3>2. order[m][2] <= i
      <4>1. CASE m = n
        BY <2>1, <2>2, <4>1
      <4>2. CASE m # n
        <5>1. <<order[m], order[n]>> \in R
          BY <1>6, <3>1, <4>2
        <5>2. order[m][2] < i \/ order[m][2] = i
          BY <1>3, <2>2, <5>1
        <5> QED
          BY <1>4, <2>1, <3>1, <5>2
      <4> QED
        BY <4>1, <4>2
    <3>3. /\ order[m] = <<order[m][1], order[m][2]>>
          /\ order[m][1] \in 1 .. K /\ order[m][2] \in Nat \ {0}
      BY <1>1, <1>4, <3>1
    <3>4. order[m][2] \in 1 .. i
      BY <2>1, <3>2, <3>3
    <3> QED
      BY <3>3, <3>4
  <2>4. g \in Injection(1 .. n, T)
    <3>1. g \in [1 .. n -> T]
      <4> HIDE DEF T
      <4> QED
        BY <2>3
    <3>2. \A a, b \in 1 .. n : g[a] = g[b] => a = b
      BY <1>6, <1>10
    <3> HIDE DEF g, T
    <3> QED
      BY <3>1, <3>2 DEF Injection, IsInjective
  <2>5. IsFiniteSet(T) /\ Cardinality(T) = K * i
    <3>1. IsFiniteSet(1 .. K) /\ Cardinality(1 .. K) = K
      BY FS_Interval
    <3>2. IsFiniteSet(1 .. i) /\ Cardinality(1 .. i) = i
      BY <2>1, FS_Interval
    <3> QED
      <4>1. IsFiniteSet(T) /\ Cardinality(T) = Cardinality(1 .. K) * Cardinality(1 .. i)
        BY <3>1, <3>2, FS_Product
      <4> HIDE DEF T
      <4> QED
        BY <3>1, <3>2, <4>1
  <2>6. Cardinality(1 .. n) = n
    BY <1>6, FS_Interval
  <2>7. n <= K * i
    <3> HIDE DEF g, T
    <3> QED
      BY <2>4, <2>5, <2>6, FS_Injection
  <2>8. K * i \in Nat
    BY <2>1
  <2>9. n \in 1 .. L
    <3>1. n <= limit
      BY <1>6, <1>13, <2>7, <2>8
    <3> QED
      BY <1>6, <3>1
  <2> QED
    BY <1>8, <2>2, <2>9
<1> QED
  <2>1. InLine(all, A) /\ DOMAIN all = 1 .. L
    BY <1>7, <1>9 DEF InLine
  <2>2. \A n \in DOMAIN all :
           \E k \in 1 .. K : \E i \in DOMAIN buckets[k] : all[n] = buckets[k][i]
    BY <1>12, <2>1
  <2>3. \A k \in 1 .. K : \A i \in DOMAIN buckets[k] :
           K * i <= limit => \E n \in DOMAIN all : all[n] = buckets[k][i]
    BY <1>13, <2>1
  <2> QED
    BY <1>11, <2>1, <2>2, <2>3 DEF all, Drawn

------------------------------------------------------------------------------
\* Selection: a screening is fair to its themes and names each symbol once.

\* What the market is known by.
MarketOK(market) == DOMAIN market \subseteq Stock /\ \A s \in DOMAIN market : market[s] \in Row

LEMMA MarketData ==
  ASSUME NEW busy \in Rankings, NEW rising \in Rankings
  PROVE  MarketOK(MarketSnapshot(busy, rising))
<1>1. /\ DOMAIN busy \subseteq Stock /\ \A s \in DOMAIN busy : busy[s] \in Row
      /\ DOMAIN rising \subseteq Stock /\ \A s \in DOMAIN rising : rising[s] \in Row
  BY SelectionAssumption
<1> QED
  BY <1>1 DEF MarketOK, MarketSnapshot

LEMMA MembersData ==
  ASSUME NEW t \in Theme
  PROVE  /\ InLine(Members[t], ToSet(Members[t])) /\ IsInjective(Members[t])
         /\ ToSet(Members[t]) \subseteq Stock
         /\ \A u \in Theme : u # t => ToSet(Members[t]) \cap ToSet(Members[u]) = {}
<1>1. Members[t] \in Seq(Stock) /\ IsInjective(Members[t])
  BY SelectionAssumption
<1>2. Len(Members[t]) \in Nat /\ Members[t] \in [1 .. Len(Members[t]) -> Stock]
  BY <1>1
<1>3. Members[t] \in [1 .. Len(Members[t]) -> ToSet(Members[t])]
  BY <1>2 DEF ToSet
<1>4. ToSet(Members[t]) \subseteq Stock
  BY <1>2 DEF ToSet
<1>5. \A u \in Theme : u # t => ToSet(Members[t]) \cap ToSet(Members[u]) = {}
  BY SelectionAssumption
<1> QED
  BY <1>1, <1>2, <1>3, <1>4, <1>5 DEF InLine

\* A sequence is one of the elements it has.
LEMMA LineOfSet ==
  ASSUME NEW A, NEW q, InLine(q, A), NEW B, ToSet(q) \subseteq B
  PROVE  InLine(q, B)
<1>1. PICK n \in Nat : q \in [1 .. n -> A]
  BY DEF InLine
<1>2. q \in [1 .. n -> B]
  BY <1>1 DEF ToSet
<1> QED
  BY <1>1, <1>2 DEF InLine

\* The bucket of a theme has members of it, and none twice.
LEMMA BucketData ==
  ASSUME NEW market, MarketOK(market), NEW t \in Theme
  PROVE  InLine(Bucket(market, t), ToSet(Members[t])) /\ IsInjective(Bucket(market, t))
<1> DEFINE A == ToSet(Members[t])
           B == A \cap DOMAIN market
           ok == {i \in DOMAIN Members[t] : IsUp(market, Members[t][i])}
           up == UpMembers(market, t)
           weight == [s \in DOMAIN market |-> market[s].amount]
           largest == Falling(up, weight)
           hard == {i \in DOMAIN largest : HardFilter(market[largest[i]])}
<1>1. InLine(Members[t], A) /\ IsInjective(Members[t])
  BY MembersData
<1>2. ok \in SUBSET DOMAIN Members[t]
  OBVIOUS
<1>3. InLine(up, A) /\ IsInjective(up) /\ ToSet(up) = {Members[t][i] : i \in ok}
  <2>1. up = Picked(Members[t], ok)
    BY DEF UpMembers
  <2> HIDE DEF up, ok, A
  <2> QED
    BY <1>1, <1>2, <2>1, PickedLine
<1>4. ToSet(up) \subseteq B
  <2>1. \A i \in ok : Members[t][i] \in A /\ Members[t][i] \in DOMAIN market
    BY DEF IsUp, ToSet
  <2> HIDE DEF up, ok, A
  <2> QED
    BY <1>3, <2>1
<1>5. InLine(up, B)
  <2> HIDE DEF up, B, A
  <2> QED
    BY <1>3, <1>4, LineOfSet
<1>6. \A i \in DOMAIN up : weight[up[i]] \in Int
  <2>1. \A i \in DOMAIN up : up[i] \in DOMAIN market
    <3> HIDE DEF up
    <3> QED
      BY <1>5 DEF InLine
  <2>2. \A s \in DOMAIN market : market[s].amount \in Int
    BY DEF MarketOK, Row
  <2> HIDE DEF up
  <2> QED
    BY <2>1, <2>2
<1>7. InLine(largest, B) /\ IsInjective(largest)
  <2> HIDE DEF up, B, weight
  <2> QED
    BY <1>3, <1>5, <1>6, FallingLine
<1>8. Bucket(market, t) = Picked(largest, hard)
  BY DEF Bucket
<1>9. hard \in SUBSET DOMAIN largest
  OBVIOUS
<1> HIDE DEF largest, hard, B
<1>10. InLine(Bucket(market, t), B) /\ IsInjective(Bucket(market, t))
  BY <1>7, <1>8, <1>9, PickedLine
<1>11. B \subseteq A
  BY DEF B
<1> HIDE DEF A
<1> QED
  BY <1>10, <1>11 DEF InLine, A

\* The watchlist brings nothing twice, and nothing that is there already.
LEMMA WatchedData ==
  ASSUME NEW have, NEW market, NEW vet
  PROVE  /\ InLine(WatchlistCandidates(have, market, vet), Stock)
         /\ IsInjective(WatchlistCandidates(have, market, vet))
         /\ \A k \in DOMAIN WatchlistCandidates(have, market, vet) :
               WatchlistCandidates(have, market, vet)[k] \notin have
<1> DEFINE ok == {i \in DOMAIN Watchlist :
                    /\ Watchlist[i] \notin have
                    /\ \A j \in 1 .. i - 1 : Watchlist[j] # Watchlist[i]
                    /\ Watchlist[i] \in DOMAIN market \/ vet[Watchlist[i]] # "unpriced"
                    /\ Vetted(Watchlist[i], vet)}
           n == Cardinality(ok)
           w == WatchlistCandidates(have, market, vet)
<1>1. /\ Watchlist \in Seq(Stock)
      /\ Len(Watchlist) \in Nat /\ Watchlist \in [1 .. Len(Watchlist) -> Stock]
  <2>1. Watchlist \in Seq(Stock)
    BY SelectionAssumption
  <2> QED
    BY <2>1
<1>2. InLine(Watchlist, Stock) /\ ok \in SUBSET DOMAIN Watchlist
  BY <1>1 DEF InLine
<1>3. w = Picked(Watchlist, ok)
  BY DEF WatchlistCandidates
<1>4. \A i \in ok : i \in Nat \ {0} /\ Watchlist[i] \notin have
  BY <1>1
<1>5. \A i, j \in ok : i < j => Watchlist[i] # Watchlist[j]
  BY <1>1
<1> HIDE DEF ok, w
<1>6. InLine(w, Stock)
  BY <1>2, <1>3, PickedLine
<1>7. n \in Nat
  BY <1>2, PickedData
<1>8. PICK order \in [1 .. n -> ok] :
         /\ w = [k \in 1 .. n |-> Watchlist[order[k]]]
         /\ \A i, j \in 1 .. n : i < j => order[i] < order[j]
  BY <1>2, <1>3, PickedData
<1> HIDE DEF n
<1>9. \A i, j \in 1 .. n : i < j => w[i] # w[j]
  BY <1>5, <1>8
<1>10. IsInjective(w)
  BY <1>7, <1>8, <1>9 DEF IsInjective
<1>11. \A k \in DOMAIN w : w[k] \notin have
  BY <1>4, <1>8
<1> QED
  BY <1>6, <1>10, <1>11 DEF w

\* c is a with b behind it.
Joined(c, a, b, m, n, A) ==
  /\ c \in [1 .. m + n -> A]
  /\ \A i \in 1 .. m : c[i] = a[i]
  /\ \A i \in 1 .. n : c[m + i] = b[i]

LEMMA ConcatData ==
  ASSUME NEW A, NEW m \in Nat, NEW n \in Nat, NEW a \in [1 .. m -> A], NEW b \in [1 .. n -> A]
  PROVE  Joined(a \o b, a, b, m, n, A)
<1>1. a \in Seq(A) /\ b \in Seq(A) /\ Len(a) = m /\ Len(b) = n
  OBVIOUS
<1>2. a \o b \in Seq(A) /\ Len(a \o b) = m + n
  BY <1>1
<1>3. a \o b \in [1 .. m + n -> A]
  <2> DEFINE c == a \o b
  <2>1. c \in [1 .. Len(c) -> A] /\ Len(c) = m + n
    <3>1. c \in Seq(A) /\ Len(c) = m + n
      BY <1>2
    <3> HIDE DEF c
    <3> QED
      BY <3>1
  <2> HIDE DEF c
  <2>2. c \in [1 .. m + n -> A]
    BY <2>1
  <2> QED
    BY <2>2 DEF c
<1>4. \A i \in 1 .. m : (a \o b)[i] = a[i]
  BY <1>1
<1>5. ASSUME NEW i \in 1 .. n PROVE (a \o b)[m + i] = b[i]
  <2>1. m + i \in 1 .. m + n /\ ~ (m + i <= m) /\ (m + i) - m = i
    OBVIOUS
  <2> QED
    BY <1>1, <2>1
<1> QED
  BY <1>3, <1>4, <1>5 DEF Joined

LEMMA TimesMonotone ==
  ASSUME NEW a \in Nat, NEW b \in Nat, NEW c \in Nat, NEW d \in Nat, a <= b, c <= d
  PROVE  a * c <= b * d
<1>1. (b - a) * c >= 0 /\ b * (d - c) >= 0
  OBVIOUS
<1>2. (b - a) * c = b * c - a * c /\ b * (d - c) = b * d - b * c
  OBVIOUS
<1>3. a * c \in Int /\ b * c \in Int /\ b * d \in Int
  OBVIOUS
<1> QED
  BY <1>1, <1>2, <1>3

\* A set of places has a first one and a last one.
LEMMA Extremes ==
  ASSUME NEW n \in Nat, NEW T \in SUBSET (1 .. n), T # {}
  PROVE  /\ \E x \in T : \A y \in T : x <= y
         /\ \E x \in T : \A y \in T : y <= x
<1> DEFINE R == {e \in T \X T : e[1] < e[2]}
           order == Ordered(T, R)
           N == Cardinality(T)
<1>1. IsFiniteSet(T)
  <2>1. IsFiniteSet(1 .. n)
    BY FS_Interval
  <2>2. T \in SUBSET (1 .. n)
    OBVIOUS
  <2> QED
    BY <2>1, <2>2, FS_Subset
<1>2. \A x, y : <<x, y>> \in R <=> x \in T /\ y \in T /\ x < y
  OBVIOUS
<1> HIDE DEF R
<1>3. /\ N \in Nat
      /\ order \in [1 .. N -> T]
      /\ \A i, j \in 1 .. N : i < j => order[i] < order[j]
      /\ \A x \in T : \E k \in 1 .. N : order[k] = x
  <2>1. TotalOrder(T, R)
    BY <1>2 DEF TotalOrder
  <2> QED
    BY <1>1, <1>2, <2>1, OrderedData
<1> HIDE DEF N, order
<1>4. \A x \in T : x \in Nat
  OBVIOUS
<1>5. N >= 1 /\ 1 \in 1 .. N /\ N \in 1 .. N
  <2>1. PICK k \in 1 .. N : TRUE
    BY <1>3
  <2> QED
    BY <1>3, <2>1
<1>6. ASSUME NEW y \in T PROVE order[1] <= y /\ y <= order[N]
  <2>1. PICK k \in 1 .. N : order[k] = y
    BY <1>3
  <2>2. order[1] \in Nat /\ order[N] \in Nat /\ y \in Nat
    BY <1>3, <1>4, <1>5
  <2>3. k = 1 \/ 1 < k
    OBVIOUS
  <2>4. k = N \/ k < N
    BY <1>3
  <2> QED
    BY <1>3, <1>5, <2>1, <2>2, <2>3, <2>4
<1> QED
  BY <1>3, <1>5, <1>6

\* Of the places V those with fewer than P before them: never more than P, and all of
\* V if they are fewer than P.
LEMMA ShareData ==
  ASSUME NEW n \in Nat, NEW V \in SUBSET (1 .. n), NEW P \in Nat \ {0}, NEW M,
         M = {x \in V : Cardinality({j \in V : j < x}) < P}
  PROVE  /\ IsFiniteSet(M) /\ Cardinality(M) \in Nat
         /\ Cardinality(M) <= P
         /\ Cardinality(M) < P => M = V
<1> DEFINE before(x) == {j \in V : j < x}
           count(x) == Cardinality(before(x))
<1>1. IsFiniteSet(V) /\ \A x \in V : x \in Nat
  <2>1. IsFiniteSet(1 .. n)
    BY FS_Interval
  <2>2. V \in SUBSET (1 .. n)
    OBVIOUS
  <2>3. IsFiniteSet(V)
    BY <2>1, <2>2, FS_Subset
  <2> QED
    BY <2>3
<1>2. IsFiniteSet(M) /\ Cardinality(M) \in Nat
  BY <1>1, FS_Subset, FS_CardinalityType
<1>3. \A x \in V : IsFiniteSet(before(x)) /\ count(x) \in Nat
  BY <1>1, FS_Subset, FS_CardinalityType
<1>4. Cardinality(M) <= P
  <2>1. CASE M = {}
    <3>1. Cardinality(M) = 0
      BY <2>1, FS_EmptySet
    <3> QED
      BY <3>1
  <2>2. CASE M # {}
    <3>1. PICK x \in M : \A y \in M : y <= x
      <4>1. M \in SUBSET (1 .. n)
        OBVIOUS
      <4> QED
        BY <2>2, <4>1, Extremes
    <3>2. M \ {x} \subseteq before(x)
      <4>1. M \subseteq V
        OBVIOUS
      <4>2. \A y \in M \ {x} : y < x
        BY <1>1, <3>1, <4>1
      <4> QED
        BY <4>1, <4>2
    <3>3. Cardinality(M \ {x}) = Cardinality(M) - 1
      BY <1>2, <3>1, FS_RemoveElement
    <3>4. Cardinality(M \ {x}) <= count(x)
      BY <1>3, <3>1, <3>2, FS_Subset
    <3>5. count(x) < P /\ count(x) \in Nat
      BY <1>3, <3>1
    <3> HIDE DEF count
    <3> QED
      BY <1>2, <3>3, <3>4, <3>5
  <2> QED
    BY <2>1, <2>2
<1>5. ASSUME M # V PROVE Cardinality(M) >= P
  <2> DEFINE Out == V \ M
  <2>1. PICK x \in Out : \A y \in Out : x <= y
    <3>1. Out \in SUBSET (1 .. n) /\ Out # {}
      BY <1>5
    <3> HIDE DEF Out
    <3> QED
      BY <3>1, Extremes
  <2>2. before(x) \subseteq M
    <3> SUFFICES ASSUME NEW y \in V, y < x, y \notin M PROVE FALSE
      OBVIOUS
    <3>1. y \in Out
      OBVIOUS
    <3>2. x <= y
      BY <2>1, <3>1
    <3>3. x \in Nat /\ y \in Nat
      BY <1>1
    <3> QED
      BY <3>2, <3>3
  <2>3. count(x) >= P /\ count(x) \in Nat
    BY <1>3, <2>1
  <2>4. count(x) <= Cardinality(M)
    BY <1>2, <2>2, FS_Subset
  <2> HIDE DEF count
  <2> QED
    BY <1>2, <2>3, <2>4
<1> QED
  BY <1>2, <1>4, <1>5

\* The parts of build_report.
Buckets(market, themes) == [k \in DOMAIN themes |-> Bucket(market, themes[k])]
Shortlist(market, themes) == RoundRobin(Buckets(market, themes), TopThemes * PerTheme * Spare)
ThemesOf(market, themes) == [s \in ToSet(Shortlist(market, themes)) |-> ThemeOf(s, themes)]
ChosenOf(market, themes, vet) ==
  Chosen(Shortlist(market, themes), vet, ThemesOf(market, themes))
WatchedOf(market, themes, vet) ==
  WatchlistCandidates(ToSet(ChosenOf(market, themes, vet)), market, vet)

\* The themes that were picked.
ThemesOK(themes, K) == K <= TopThemes /\ themes \in [1 .. K -> Theme] /\ IsInjective(themes)

\* A member is known to be of its theme.
LEMMA ThemeFound ==
  ASSUME NEW K \in Nat, NEW themes, ThemesOK(themes, K), NEW k \in 1 .. K,
         NEW s \in ToSet(Members[themes[k]])
  PROVE  ThemeOf(s, themes) = themes[k]
<1>1. themes[k] \in ToSet(themes) /\ ToSet(themes) \subseteq Theme /\ themes[k] \in Theme
  BY DEF ThemesOK, ToSet
<1>2. \A t \in ToSet(themes) : s \in ToSet(Members[t]) => t = themes[k]
  BY <1>1, MembersData
<1> QED
  BY <1>1, <1>2 DEF ThemeOf

LEMMA ShortlistData ==
  ASSUME NEW market, MarketOK(market), NEW K \in Nat, NEW themes, ThemesOK(themes, K)
  PROVE  /\ InLine(Shortlist(market, themes), Stock)
         /\ IsInjective(Shortlist(market, themes))
         /\ \A n \in DOMAIN Shortlist(market, themes) :
               ThemesOf(market, themes)[Shortlist(market, themes)[n]] \in Theme
         /\ \A k \in 1 .. K : \A i \in DOMAIN Bucket(market, themes[k]) :
               i <= Spare * PerTheme =>
                  \E n \in DOMAIN Shortlist(market, themes) :
                     /\ Shortlist(market, themes)[n] = Bucket(market, themes[k])[i]
                     /\ ThemesOf(market, themes)[Shortlist(market, themes)[n]] = themes[k]
<1> DEFINE buckets == Buckets(market, themes)
           short == Shortlist(market, themes)
           limit == TopThemes * PerTheme * Spare
           of == ThemesOf(market, themes)
<1>1. themes \in [1 .. K -> Theme] /\ K <= TopThemes
  BY DEF ThemesOK
<1>2. TopThemes \in Nat /\ PerTheme \in Nat /\ Spare \in Nat
  BY SelectionAssumption
<1>3. DOMAIN buckets = 1 .. K /\ \A k \in 1 .. K : buckets[k] = Bucket(market, themes[k])
  BY <1>1 DEF Buckets
<1>4. \A k \in 1 .. K : /\ InLine(buckets[k], ToSet(Members[themes[k]]))
                       /\ IsInjective(buckets[k])
                       /\ ToSet(Members[themes[k]]) \subseteq Stock
  BY <1>1, <1>3, BucketData, MembersData
<1> HIDE DEF buckets
<1>5. \A k \in 1 .. K : \A i \in DOMAIN buckets[k] : buckets[k][i] \in ToSet(Members[themes[k]])
  BY <1>4 DEF InLine
<1>6. \A k \in 1 .. K : InLine(buckets[k], Stock)
  <2> TAKE k \in 1 .. K
  <2>1. PICK n \in Nat : buckets[k] \in [1 .. n -> ToSet(Members[themes[k]])]
    BY <1>4 DEF InLine
  <2>2. buckets[k] \in [1 .. n -> Stock]
    BY <1>4, <2>1
  <2> QED
    BY <2>2 DEF InLine
<1>7. ASSUME NEW k \in 1 .. K, NEW l \in 1 .. K, NEW i \in DOMAIN buckets[k],
             NEW j \in DOMAIN buckets[l], buckets[k][i] = buckets[l][j]
      PROVE  k = l /\ i = j
  <2>1. buckets[k][i] \in ToSet(Members[themes[k]]) /\ buckets[k][i] \in ToSet(Members[themes[l]])
    BY <1>5, <1>7
  <2>2. themes[k] = themes[l]
    BY <1>1, <2>1, MembersData
  <2>3. k = l
    BY <1>1, <2>2 DEF ThemesOK, IsInjective
  <2>4. i = j
    BY <1>4, <1>7, <2>3 DEF IsInjective
  <2> QED
    BY <2>3, <2>4
<1>8. limit \in Nat
  BY <1>2
<1> HIDE DEF limit
<1>9. /\ InLine(short, Stock) /\ IsInjective(short)
      /\ \A n \in DOMAIN short :
            \E k \in 1 .. K : \E i \in DOMAIN buckets[k] : short[n] = buckets[k][i]
      /\ \A k \in 1 .. K : \A i \in DOMAIN buckets[k] :
            K * i <= limit => \E n \in DOMAIN short : short[n] = buckets[k][i]
  <2>1. short = RoundRobin(buckets, limit)
    BY DEF Shortlist, buckets, limit
  <2>2. \A k, l \in 1 .. K : \A i \in DOMAIN buckets[k], j \in DOMAIN buckets[l] :
            buckets[k][i] = buckets[l][j] => k = l /\ i = j
    BY <1>7
  <2>3. DOMAIN buckets = 1 .. K
    BY <1>3
  <2>4. Apart(buckets, K, Stock)
    BY <1>6, <2>2, <2>3 DEF Apart
  <2> HIDE DEF short
  <2>5. InLine(short, Stock) /\ Drawn(short, buckets, K, limit)
    BY <1>8, <2>1, <2>4, RoundRobinData
  <2> QED
    BY <2>5 DEF Drawn
<1>10. \A n \in DOMAIN short : of[short[n]] = ThemeOf(short[n], themes)
  BY DEF ThemesOf, ToSet
<1>11. \A n \in DOMAIN short : \A k \in 1 .. K : \A i \in DOMAIN buckets[k] :
          short[n] = buckets[k][i] => of[short[n]] = themes[k]
  BY <1>5, <1>10, ThemeFound
<1> HIDE DEF short, of
<1>12. \A n \in DOMAIN short : of[short[n]] \in Theme
  BY <1>1, <1>9, <1>11
<1>13. ASSUME NEW k \in 1 .. K, NEW i \in DOMAIN buckets[k], i <= Spare * PerTheme
       PROVE  \E n \in DOMAIN short : short[n] = buckets[k][i] /\ of[short[n]] = themes[k]
  <2>1. i \in Nat
    BY <1>6 DEF InLine
  <2>2. Spare * PerTheme \in Nat
    BY <1>2
  <2>3. K * i <= TopThemes * (Spare * PerTheme)
    BY <1>1, <1>2, <1>13, <2>1, <2>2, TimesMonotone
  <2>4. TopThemes * (Spare * PerTheme) = limit
    BY <1>2 DEF limit
  <2>5. PICK n \in DOMAIN short : short[n] = buckets[k][i]
    BY <1>9, <2>3, <2>4
  <2> QED
    BY <1>11, <2>5
<1> QED
  BY <1>3, <1>9, <1>12, <1>13 DEF short, of

\* The candidates of a report are symbols, each once.
Listed(r) ==
  /\ IsLine(r.candidates)
  /\ \A i \in DOMAIN r.candidates : r.candidates[i].symbol \in Stock
  /\ \A i, j \in DOMAIN r.candidates :
        r.candidates[i].symbol = r.candidates[j].symbol => i = j

\* The symbols that a theme brings.
Brought(r, t) ==
  {r.candidates[i].symbol : i \in {j \in DOMAIN r.candidates : r.candidates[j].theme = t}}

\* What FairShare says of the last report.
Fair(r) ==
  \A t \in DOMAIN r.bucket :
     /\ Cardinality(Brought(r, t)) <= PerTheme
     /\ Cardinality(Brought(r, t)) < PerTheme =>
           \A i \in DOMAIN r.bucket[t] :
              i <= Spare * PerTheme => r.bucket[t][i] \in Brought(r, t) \cup r.rejected

\* Candidates as a report lists them, with no regard to ranks and breadths.
Lists(r, chosen, watched, of) ==
  \E A : \E a \in [DOMAIN chosen -> A], b \in [DOMAIN watched -> A] :
     /\ r.candidates = a \o b
     /\ \A k \in DOMAIN chosen : a[k].symbol = chosen[k] /\ a[k].theme = of[chosen[k]]
     /\ \A k \in DOMAIN watched : b[k].symbol = watched[k] /\ b[k].theme = "watchlist"

LEMMA ReportParts ==
  ASSUME NEW market, NEW themes, NEW vet
  PROVE  LET r == BuildReport(market, themes, vet)
         IN /\ r.bucket = [k \in ToSet(themes) |-> Bucket(market, k)]
            /\ r.rejected = {s \in Stock : ~Vetted(s, vet)}
            /\ Lists(r, ChosenOf(market, themes, vet), WatchedOf(market, themes, vet),
                     ThemesOf(market, themes))
<1> DEFINE chosen == ChosenOf(market, themes, vet)
           watched == WatchedOf(market, themes, vet)
           of == ThemesOf(market, themes)
           a == [k \in DOMAIN chosen |->
                   [symbol |-> chosen[k], theme |-> of[chosen[k]],
                    rank |-> CHOOSE i \in DOMAIN themes : themes[i] = of[chosen[k]],
                    breadth |-> Len(UpMembers(market, of[chosen[k]]))]]
           b == [k \in DOMAIN watched |->
                   [symbol |-> watched[k], theme |-> "watchlist", rank |-> 0, breadth |-> 0]]
           A == ToSet(a) \cup ToSet(b)
           r == BuildReport(market, themes, vet)
<1>1. /\ r.bucket = [k \in ToSet(themes) |-> Bucket(market, k)]
      /\ r.rejected = {s \in Stock : ~Vetted(s, vet)}
      /\ r.candidates = a \o b
  BY DEF BuildReport, ChosenOf, WatchedOf, ThemesOf, Shortlist, Buckets
<1>2. /\ a \in [DOMAIN chosen -> A]
      /\ \A k \in DOMAIN chosen : a[k].symbol = chosen[k] /\ a[k].theme = of[chosen[k]]
  <2> HIDE DEF chosen, of, b
  <2> QED
    BY DEF ToSet
<1>3. /\ b \in [DOMAIN watched -> A]
      /\ \A k \in DOMAIN watched : b[k].symbol = watched[k] /\ b[k].theme = "watchlist"
  <2> HIDE DEF watched, a
  <2> QED
    BY DEF ToSet
<1> HIDE DEF a, b, r, A
<1>4. Lists(r, chosen, watched, of)
  <2> HIDE DEF chosen, watched, of
  <2> QED
    BY <1>1, <1>2, <1>3 DEF Lists
<1> QED
  BY <1>1, <1>4 DEF r

\* Chosen first, watched behind: still each symbol once, and a theme has what was
\* chosen for it.
LEMMA ListedData ==
  ASSUME NEW r, NEW of, NEW chosen, NEW watched, Lists(r, chosen, watched, of),
         InLine(chosen, Stock), IsInjective(chosen), InLine(watched, Stock), IsInjective(watched),
         \A k \in DOMAIN watched : watched[k] \notin ToSet(chosen)
  PROVE  /\ Listed(r)
         /\ \A t : t # "watchlist" => Brought(r, t) = {s \in ToSet(chosen) : of[s] = t}
<1>1. PICK m \in Nat : chosen \in [1 .. m -> Stock]
  BY DEF InLine
<1>2. PICK n \in Nat : watched \in [1 .. n -> Stock]
  BY DEF InLine
<1>3. DOMAIN chosen = 1 .. m /\ DOMAIN watched = 1 .. n
  BY <1>1, <1>2
<1>4. PICK A : \E a \in [DOMAIN chosen -> A], b \in [DOMAIN watched -> A] :
     /\ r.candidates = a \o b
     /\ \A k \in DOMAIN chosen : a[k].symbol = chosen[k] /\ a[k].theme = of[chosen[k]]
     /\ \A k \in DOMAIN watched : b[k].symbol = watched[k] /\ b[k].theme = "watchlist"
  BY DEF Lists
<1>5. PICK a \in [DOMAIN chosen -> A], b \in [DOMAIN watched -> A] :
     /\ r.candidates = a \o b
     /\ \A k \in DOMAIN chosen : a[k].symbol = chosen[k] /\ a[k].theme = of[chosen[k]]
     /\ \A k \in DOMAIN watched : b[k].symbol = watched[k] /\ b[k].theme = "watchlist"
  BY <1>4
<1> DEFINE c == r.candidates
<1>6. /\ c \in [1 .. m + n -> A]
      /\ \A i \in 1 .. m : c[i] = a[i]
      /\ \A i \in 1 .. n : c[m + i] = b[i]
  <2>1. a \in [1 .. m -> A] /\ b \in [1 .. n -> A]
    BY <1>3
  <2>2. Joined(a \o b, a, b, m, n, A)
    BY <2>1, ConcatData
  <2>3. Joined(c, a, b, m, n, A)
    BY <1>5, <2>2
  <2> HIDE DEF c
  <2> QED
    BY <2>3 DEF Joined
<1> HIDE DEF c
<1>7. \A i \in 1 .. m + n : i \in 1 .. m \/ \E k \in 1 .. n : i = m + k
  <2> SUFFICES ASSUME NEW i \in 1 .. m + n, ~ (i \in 1 .. m) PROVE \E k \in 1 .. n : i = m + k
    OBVIOUS
  <2>1. i - m \in 1 .. n /\ i = m + (i - m)
    OBVIOUS
  <2> QED
    BY <2>1
<1>8. \A i \in 1 .. m : i \in 1 .. m + n /\ c[i].symbol = chosen[i] /\ c[i].theme = of[chosen[i]]
  <2> TAKE i \in 1 .. m
  <2>1. i \in 1 .. m + n
    OBVIOUS
  <2>2. a[i].symbol = chosen[i] /\ a[i].theme = of[chosen[i]]
    BY <1>3, <1>5
  <2>3. c[i] = a[i]
    BY <1>6
  <2> QED
    BY <2>1, <2>2, <2>3
<1>9. \A k \in 1 .. n : /\ m + k \in 1 .. m + n
                       /\ c[m + k].symbol = watched[k] /\ c[m + k].theme = "watchlist"
  <2> TAKE k \in 1 .. n
  <2>1. m + k \in 1 .. m + n
    OBVIOUS
  <2>2. b[k].symbol = watched[k] /\ b[k].theme = "watchlist"
    BY <1>3, <1>5
  <2>3. c[m + k] = b[k]
    BY <1>6
  <2> QED
    BY <2>1, <2>2, <2>3
<1>10. DOMAIN c = 1 .. m + n /\ m + n \in Nat
  BY <1>6
<1>11. \A i \in DOMAIN c : c[i].symbol \in Stock
  <2>1. \A i \in 1 .. m : c[i].symbol \in Stock
    BY <1>1, <1>8
  <2>2. \A k \in 1 .. n : c[m + k].symbol \in Stock
    BY <1>2, <1>9
  <2> QED
    BY <1>7, <1>10, <2>1, <2>2
<1>12. ASSUME NEW i \in DOMAIN c, NEW j \in DOMAIN c, c[i].symbol = c[j].symbol PROVE i = j
  <2>1. \A k \in 1 .. m : chosen[k] \in ToSet(chosen)
    BY <1>3 DEF ToSet
  <2>2. CASE i \in 1 .. m /\ j \in 1 .. m
    BY <1>3, <1>8, <1>12, <2>2 DEF IsInjective
  <2>3. CASE i \in 1 .. m /\ \E l \in 1 .. n : j = m + l
    <3>1. PICK l \in 1 .. n : j = m + l
      BY <2>3
    <3>2. c[i].symbol = chosen[i] /\ c[j].symbol = watched[l]
      BY <1>8, <1>9, <2>3, <3>1
    <3> QED
      BY <1>3, <1>12, <2>1, <2>3, <3>2
  <2>4. CASE j \in 1 .. m /\ \E l \in 1 .. n : i = m + l
    <3>1. PICK l \in 1 .. n : i = m + l
      BY <2>4
    <3>2. c[j].symbol = chosen[j] /\ c[i].symbol = watched[l]
      BY <1>8, <1>9, <2>4, <3>1
    <3> QED
      BY <1>3, <1>12, <2>1, <2>4, <3>2
  <2>5. ASSUME NEW k \in 1 .. n, NEW l \in 1 .. n, i = m + k, j = m + l PROVE i = j
    BY <1>3, <1>9, <1>12, <2>5 DEF IsInjective
  <2> QED
    BY <1>7, <1>10, <2>2, <2>3, <2>4, <2>5
<1>13. Listed(r)
  <2>1. IsLine(c)
    BY <1>6, <1>10 DEF IsLine, InLine
  <2> QED
    BY <1>11, <1>12, <2>1 DEF Listed, c
<1>14. ASSUME NEW t, t # "watchlist"
       PROVE  Brought(r, t) = {s \in ToSet(chosen) : of[s] = t}
  <2>1. Brought(r, t) = {c[i].symbol : i \in {j \in 1 .. m + n : c[j].theme = t}}
    BY <1>10 DEF Brought, c
  <2>2. ASSUME NEW i \in 1 .. m + n, c[i].theme = t
        PROVE  c[i].symbol \in ToSet(chosen) /\ of[c[i].symbol] = t
    <3>1. i \in 1 .. m
      BY <1>7, <1>9, <1>14, <2>2
    <3> QED
      BY <1>3, <1>8, <2>2, <3>1 DEF ToSet
  <2>3. ASSUME NEW s \in ToSet(chosen), of[s] = t
        PROVE  \E i \in 1 .. m + n : c[i].theme = t /\ c[i].symbol = s
    <3>1. PICK i \in 1 .. m : chosen[i] = s
      BY <1>3 DEF ToSet
    <3> QED
      BY <1>8, <2>3, <3>1
  <2> QED
    BY <2>1, <2>2, <2>3
<1> QED
  BY <1>13, <1>14

LEMMA ReportListed ==
  ASSUME NEW market, MarketOK(market), NEW K \in Nat, NEW themes, ThemesOK(themes, K), NEW vet
  PROVE  /\ Listed(BuildReport(market, themes, vet))
         /\ \A t \in Theme : Brought(BuildReport(market, themes, vet), t) =
               {s \in ToSet(ChosenOf(market, themes, vet)) : ThemesOf(market, themes)[s] = t}
<1> DEFINE short == Shortlist(market, themes)
           of == ThemesOf(market, themes)
           chosen == ChosenOf(market, themes, vet)
           watched == WatchedOf(market, themes, vet)
           r == BuildReport(market, themes, vet)
           ok == {i \in DOMAIN short :
                    /\ Vetted(short[i], vet)
                    /\ Cardinality({j \in 1 .. i - 1 : /\ of[short[j]] = of[short[i]]
                                                      /\ Vetted(short[j], vet)}) < PerTheme}
<1>1. InLine(short, Stock) /\ IsInjective(short)
  BY ShortlistData
<1>2. chosen = Picked(short, ok) /\ ok \in SUBSET DOMAIN short
  BY DEF ChosenOf, Chosen
<1>3. Lists(r, chosen, watched, of)
  BY ReportParts
<1>4. /\ InLine(watched, Stock) /\ IsInjective(watched)
      /\ \A k \in DOMAIN watched : watched[k] \notin ToSet(chosen)
  BY WatchedData DEF WatchedOf
<1> HIDE DEF short, of, chosen, watched, r, ok
<1>5. InLine(chosen, Stock) /\ IsInjective(chosen)
  BY <1>1, <1>2, PickedLine
<1>6. /\ Listed(r)
      /\ \A t : t # "watchlist" => Brought(r, t) = {s \in ToSet(chosen) : of[s] = t}
  BY <1>3, <1>4, <1>5, ListedData
<1>7. \A t \in Theme : t # "watchlist"
  BY SelectionAssumption
<1>8. \A t \in Theme : Brought(r, t) = {s \in ToSet(chosen) : of[s] = t}
  BY <1>6, <1>7
<1> QED
  BY <1>6, <1>8 DEF r, chosen, of

\* The elements of q at the places M; those of a sequence that a function sends to t.
At(q, M) == {q[i] : i \in M}
Sent(q, of, t) == {s \in ToSet(q) : of[s] = t}

LEMMA PickedSet ==
  ASSUME NEW A, NEW q, InLine(q, A), NEW ok \in SUBSET DOMAIN q
  PROVE  ToSet(Picked(q, ok)) = At(q, ok)
<1>1. ToSet(Picked(q, ok)) = {q[i] : i \in ok}
  BY PickedLine
<1> QED
  BY <1>1 DEF At

\* A sequence without repetition has as many elements at some places as these are.
LEMMA CountedOnce ==
  ASSUME NEW q, IsInjective(q), NEW M \in SUBSET DOMAIN q, IsFiniteSet(M), NEW B,
         B = At(q, M)
  PROVE  Cardinality(B) = Cardinality(M)
<1> DEFINE f == [i \in M |-> q[i]]
<1>1. f \in Surjection(M, B) /\ f \in Injection(M, B)
  BY DEF Surjection, Injection, IsInjective, At
<1> HIDE DEF f
<1> QED
  BY <1>1, FS_Surjection

\* The share of a theme in a report: the vetted ones of the shortlist, the first PerTheme
\* of them.
LEMMA ShareOfTheme ==
  ASSUME NEW n \in Nat, NEW short \in [1 .. n -> Stock], IsInjective(short), NEW of, NEW vet,
         NEW t, NEW chosen, chosen = Chosen(short, vet, of),
         NEW B, B = Sent(chosen, of, t)
  PROVE  /\ Cardinality(B) \in Nat /\ Cardinality(B) <= PerTheme
         /\ Cardinality(B) < PerTheme =>
               \A i \in 1 .. n : of[short[i]] = t /\ Vetted(short[i], vet) => short[i] \in B
<1> DEFINE ok == {i \in DOMAIN short :
                    /\ Vetted(short[i], vet)
                    /\ Cardinality({j \in 1 .. i - 1 : /\ of[short[j]] = of[short[i]]
                                                      /\ Vetted(short[j], vet)}) < PerTheme}
           V == {i \in 1 .. n : of[short[i]] = t /\ Vetted(short[i], vet)}
           M == {x \in V : Cardinality({j \in V : j < x}) < PerTheme}
<1>1. chosen = Picked(short, ok) /\ ok \in SUBSET DOMAIN short
  BY DEF Chosen
<1>2. ToSet(chosen) = At(short, ok)
  <2>1. InLine(short, Stock)
    BY DEF InLine
  <2> HIDE DEF ok
  <2> QED
    BY <1>1, <2>1, PickedSet
<1>3. \A i \in V : {j \in 1 .. i - 1 : of[short[j]] = of[short[i]] /\ Vetted(short[j], vet)} =
                   {j \in V : j < i}
  OBVIOUS
<1>4. \A i : i \in ok /\ of[short[i]] = t <=> i \in M
  BY <1>3
<1> HIDE DEF ok
<1>5. B = At(short, M)
  <2> HIDE DEF M
  <2> QED
    BY <1>2, <1>4 DEF At, Sent
<1>6. PerTheme \in Nat \ {0}
  BY SelectionAssumption
<1>7. V \in SUBSET (1 .. n)
  OBVIOUS
<1>8. /\ IsFiniteSet(M) /\ Cardinality(M) \in Nat
      /\ Cardinality(M) <= PerTheme
      /\ Cardinality(M) < PerTheme => M = V
  <2> HIDE DEF V
  <2> QED
    BY <1>6, <1>7, ShareData
<1>9. M \in SUBSET DOMAIN short
  OBVIOUS
<1>10. \A i \in 1 .. n : of[short[i]] = t /\ Vetted(short[i], vet) => i \in V
  OBVIOUS
<1> HIDE DEF M, V
<1>11. Cardinality(B) = Cardinality(M)
  BY <1>5, <1>8, <1>9, CountedOnce
<1>12. \A i \in M : short[i] \in B
  BY <1>5 DEF At
<1> QED
  BY <1>8, <1>10, <1>11, <1>12

LEMMA ReportFair ==
  ASSUME NEW market, MarketOK(market), NEW K \in Nat, NEW themes, ThemesOK(themes, K), NEW vet
  PROVE  Fair(BuildReport(market, themes, vet))
<1> DEFINE r == BuildReport(market, themes, vet)
           short == Shortlist(market, themes)
           of == ThemesOf(market, themes)
           chosen == ChosenOf(market, themes, vet)
<1>1. /\ r.bucket = [k \in ToSet(themes) |-> Bucket(market, k)]
      /\ r.rejected = {s \in Stock : ~Vetted(s, vet)}
  BY ReportParts
<1>2. \A t \in Theme : Brought(r, t) = {s \in ToSet(chosen) : of[s] = t}
  BY ReportListed
<1>3. InLine(short, Stock) /\ IsInjective(short)
  BY ShortlistData
<1>4. \A k \in 1 .. K : \A i \in DOMAIN Bucket(market, themes[k]) :
         i <= Spare * PerTheme =>
            \E n \in DOMAIN short : /\ short[n] = Bucket(market, themes[k])[i]
                                    /\ of[short[n]] = themes[k]
  BY ShortlistData
<1>5. chosen = Chosen(short, vet, of)
  BY DEF ChosenOf
<1> HIDE DEF r, short, of, chosen
<1>6. PICK n \in Nat : short \in [1 .. n -> Stock]
  BY <1>3 DEF InLine
<1> SUFFICES ASSUME NEW t \in DOMAIN r.bucket
             PROVE  /\ Cardinality(Brought(r, t)) <= PerTheme
                    /\ Cardinality(Brought(r, t)) < PerTheme =>
                          \A i \in DOMAIN r.bucket[t] : i <= Spare * PerTheme =>
                             r.bucket[t][i] \in Brought(r, t) \cup r.rejected
  BY DEF Fair, r
<1>7. PICK k \in 1 .. K : themes[k] = t
  BY <1>1 DEF ThemesOK, ToSet
<1>8. t \in Theme /\ r.bucket[t] = Bucket(market, themes[k])
  BY <1>1, <1>7 DEF ThemesOK
<1> DEFINE B == Brought(r, t)
<1>9. B = Sent(chosen, of, t)
  BY <1>2, <1>8 DEF Sent
<1> HIDE DEF B
<1>10. /\ Cardinality(B) \in Nat /\ Cardinality(B) <= PerTheme
       /\ Cardinality(B) < PerTheme =>
               \A i \in 1 .. n : of[short[i]] = t /\ Vetted(short[i], vet) => short[i] \in B
  BY <1>3, <1>5, <1>6, <1>9, ShareOfTheme
<1>11. ASSUME Cardinality(B) < PerTheme, NEW i \in DOMAIN r.bucket[t], i <= Spare * PerTheme
       PROVE  r.bucket[t][i] \in B \cup r.rejected
  <2>1. PICK j \in DOMAIN short : /\ short[j] = r.bucket[t][i]
                                 /\ of[short[j]] = t
    BY <1>4, <1>7, <1>8, <1>11
  <2>2. j \in 1 .. n /\ short[j] \in Stock
    BY <1>6, <2>1
  <2>3. CASE Vetted(short[j], vet)
    BY <1>10, <1>11, <2>1, <2>2, <2>3
  <2>4. CASE ~Vetted(short[j], vet)
    BY <1>1, <2>1, <2>2, <2>4
  <2> QED
    BY <2>3, <2>4
<1> QED
  BY <1>10, <1>11 DEF B

\* What is true of every screening.
GoodReport(r) == Listed(r) /\ Fair(r)

LEMMA ReportsGood == \A r \in Reports : GoodReport(r)
<1> SUFFICES ASSUME NEW r \in Reports PROVE GoodReport(r)
  OBVIOUS
<1> DEFINE Best(m) == IF Cardinality(Qualified(m)) < TopThemes
                      THEN Cardinality(Qualified(m)) ELSE TopThemes
           Asks(m) == {m} \X {q \in [1 .. Best(m) -> Qualified(m)] : IsInjective(q)} \X Vets
<1>1. PICK busy \in Rankings, rising \in Rankings :
         \E ask \in Asks(MarketSnapshot(busy, rising)) : r = BuildReport(ask[1], ask[2], ask[3])
  BY DEF Reports
<1> DEFINE m == MarketSnapshot(busy, rising)
           K == Best(m)
<1>2. MarketOK(m)
  BY MarketData
<1>3. K \in Nat /\ K <= TopThemes
  <2>1. IsFiniteSet(Qualified(m))
    <3>1. IsFiniteSet(Theme)
      BY SelectionAssumption
    <3> QED
      BY <3>1, FS_Subset DEF Qualified
  <2>2. Cardinality(Qualified(m)) \in Nat
    BY <2>1, FS_CardinalityType
  <2>3. TopThemes \in Nat
    BY SelectionAssumption
  <2> HIDE DEF m
  <2> QED
    BY <2>2, <2>3
<1>4. PICK ask \in Asks(m) : r = BuildReport(ask[1], ask[2], ask[3])
  BY <1>1
<1> HIDE DEF m
<1>5. ask[1] = m /\ ask[2] \in [1 .. K -> Qualified(m)] /\ IsInjective(ask[2])
  <2> HIDE DEF Best
  <2> QED
    BY <1>4
<1> HIDE DEF K
<1>6. ThemesOK(ask[2], K)
  <2>1. Qualified(m) \subseteq Theme
    BY DEF Qualified
  <2>2. ask[2] \in [1 .. K -> Theme]
    BY <1>5, <2>1
  <2> QED
    BY <1>3, <1>5, <2>2 DEF ThemesOK
<1> QED
  BY <1>2, <1>3, <1>4, <1>5, <1>6, ReportFair, ReportListed DEF GoodReport

LEMMA NoReportGood == GoodReport(NoReport)
<1>1. NoReport.candidates = <<>> /\ DOMAIN NoReport.bucket = {}
  BY DEF NoReport
<1>2. DOMAIN NoReport.candidates = {}
  BY <1>1
<1>3. IsLine(NoReport.candidates)
  <2>1. <<>> \in [1 .. 0 -> {}]
    OBVIOUS
  <2> QED
    BY <1>1, <2>1 DEF IsLine, InLine
<1> QED
  BY <1>1, <1>2, <1>3 DEF GoodReport, Listed, Fair

------------------------------------------------------------------------------
\* Selection: a verdict has its grounds, and the queue of verdicts keeps them.

\* Few things are liked.
LEMMA LikesFinite == \A r \in DOMAIN EntryTechniques : IsFiniteSet(EntryTechniques[r].likes)
<1>1. IsFiniteSet({}) /\ \A a : IsFiniteSet({a})
  BY FS_EmptySet, FS_Singleton
<1>2. \A a, b : IsFiniteSet({a, b})
  <2> TAKE a, b
  <2>1. IsFiniteSet({a} \cup {b})
    BY <1>1, FS_AddElement
  <2>2. {a, b} = {a} \cup {b}
    OBVIOUS
  <2> QED
    BY <2>1, <2>2
<1>3. DOMAIN EntryTechniques =
        {"breakout", "theme_leader", "vwap_pullback", "vwap_reclaim", "open_gap",
         "close_squeeze", "orb", "volume_dry_pop", "bull_flag", "ma_pullback",
         "rsi_pullback", "volatility_breakout", "swing_ma_pullback", "swing_breakout",
         "swing_golden_cross"}
  BY DEF EntryTechniques
<1>4. /\ EntryTechniques["breakout"].likes = {"body", "rs"}
      /\ EntryTechniques["theme_leader"].likes = {"theme_accel"}
      /\ EntryTechniques["bull_flag"].likes = {"flag_dry"}
      /\ EntryTechniques["ma_pullback"].likes = {"volume"}
      /\ EntryTechniques["rsi_pullback"].likes = {"volume"}
  BY DEF EntryTechniques, Rule, Breakout, ThemeLeader, BullFlag, MaPullback, RsiPullback
<1>5. /\ EntryTechniques["vwap_pullback"].likes = {}
      /\ EntryTechniques["vwap_reclaim"].likes = {}
      /\ EntryTechniques["open_gap"].likes = {}
      /\ EntryTechniques["close_squeeze"].likes = {}
      /\ EntryTechniques["orb"].likes = {}
  BY DEF EntryTechniques, Rule, VwapPullback, VwapReclaim, OpenGap, CloseSqueeze, Orb
<1>6. /\ EntryTechniques["volume_dry_pop"].likes = {}
      /\ EntryTechniques["volatility_breakout"].likes = {}
      /\ EntryTechniques["swing_ma_pullback"].likes = {}
      /\ EntryTechniques["swing_breakout"].likes = {}
      /\ EntryTechniques["swing_golden_cross"].likes = {}
  BY DEF EntryTechniques, Rule, VolumeDryPop, VolatilityBreakout, SwingMaPullback,
         SwingBreakout, SwingGoldenCross
<1>7. /\ IsFiniteSet({"body", "rs"})
      /\ IsFiniteSet({"theme_accel"}) /\ IsFiniteSet({"flag_dry"}) /\ IsFiniteSet({"volume"})
  <2>1. IsFiniteSet({"body", "rs"})
    BY <1>2
  <2>2. IsFiniteSet({"theme_accel"})
    BY <1>1
  <2>3. IsFiniteSet({"flag_dry"})
    BY <1>1
  <2>4. IsFiniteSet({"volume"})
    BY <1>1
  <2> QED
    BY <2>1, <2>2, <2>3, <2>4
<1>8. IsFiniteSet({})
  BY <1>1
<1> QED
  <2> SUFFICES ASSUME NEW r \in DOMAIN EntryTechniques
               PROVE  IsFiniteSet(EntryTechniques[r].likes)
    OBVIOUS
  <2>1. CASE r \in {"breakout", "theme_leader", "bull_flag", "ma_pullback", "rsi_pullback"}
    BY <1>4, <1>7, <2>1
  <2>2. CASE r \in {"vwap_pullback", "vwap_reclaim", "open_gap", "close_squeeze", "orb"}
    BY <1>5, <1>8, <2>2
  <2>3. CASE r \in {"volume_dry_pop", "volatility_breakout", "swing_ma_pullback",
                    "swing_breakout", "swing_golden_cross"}
    BY <1>6, <1>8, <2>3
  <2> QED
    BY <1>3, <2>1, <2>2, <2>3

LEMMA RulesKnown == /\ Rules \subseteq DOMAIN EntryTechniques
                    /\ \E n \in Nat : EntryOrder \in [1 .. n -> Rules]
<1>1. EntryOrder \in Seq(DOMAIN EntryTechniques)
  BY PlaybookAssumption
<1>2. PICK n \in Nat : EntryOrder \in [1 .. n -> DOMAIN EntryTechniques]
  BY <1>1
<1>3. EntryOrder \in [1 .. n -> Rules] /\ Rules \subseteq DOMAIN EntryTechniques
  BY <1>2 DEF Rules
<1> QED
  BY <1>3

\* A score is a number.
LEMMA ScoreIsInt ==
  ASSUME NEW rule \in Rules, NEW ctx, NEW st \in Stats, NEW best
  PROVE  SelectionScore(rule, ctx, st, best) \in Int
<1> DEFINE likes == EntryTechniques[rule].likes
           seen == {k \in likes : Passed(ctx.chart[rule][k])}
<1>1. Score(rule, ctx) \in Int
  <2>1. IsFiniteSet(likes)
    BY LikesFinite, RulesKnown
  <2>2. Cardinality(likes) \in Nat /\ Cardinality(seen) \in Nat
    BY <2>1, FS_Subset, FS_CardinalityType
  <2>3. likes # {} => Cardinality(likes) # 0
    BY <2>1, FS_EmptySet
  <2>4. Score(rule, ctx) = IF likes = {} THEN 100
                           ELSE 75 + (25 * Cardinality(seen)) \div Cardinality(likes)
    BY DEF Score
  <2> DEFINE a == Cardinality(likes)
             b == Cardinality(seen)
  <2> HIDE DEF likes, seen
  <2>5. a \in Nat /\ b \in Nat
    BY <2>2
  <2>6. Score(rule, ctx) = IF likes = {} THEN 100 ELSE 75 + (25 * b) \div a
    BY <2>4
  <2>7. likes # {} => a # 0
    BY <2>3
  <2> HIDE DEF a, b
  <2> QED
    BY <2>5, <2>6, <2>7
<1>2. PerformanceMultiplier(rule, st) \in Int
  <2>1. st[rule].wins \in 0 .. 100 /\ Weight \in Nat
    BY SelectionAssumption, PlaybookAssumption
  <2> DEFINE w == st[rule].wins
             x == 100 + (Weight * (2 * w - 100)) \div 100
  <2>2. w \in Nat
    BY <2>1
  <2> HIDE DEF w
  <2>3. Weight * (2 * w - 100) \in Int
    BY <2>1, <2>2
  <2>4. x \in Int
    BY <2>3
  <2>5. PerformanceMultiplier(rule, st) = IF st[rule].trades < MinTrades THEN 100
                                          ELSE Clamped(x, 70, 130)
    BY DEF PerformanceMultiplier, x, w
  <2> HIDE DEF x
  <2> QED
    BY <2>4, <2>5 DEF Clamped
<1>3. PreferenceMultiplier(rule, best) \in Int
  BY PlaybookAssumption DEF PreferenceMultiplier
<1> QED
  BY <1>1, <1>2, <1>3 DEF SelectionScore

\* What a verdict rests on.
Grounded(v, hour) ==
  /\ v.rule \in Rules /\ v.score \in Int
  /\ hour \in EntryTechniques[v.rule].windows
  /\ \A k \in EntryTechniques[v.rule].needs \ {"vi_gap"} : v.terms[k] = "holds"

\* Among the rules that pass there is one that wins.
LEMMA EntryData ==
  ASSUME NEW ctx, NEW st \in Stats, NEW best, EvaluateEntry(ctx, st, best) # NoVerdict
  PROVE  /\ Grounded(EvaluateEntry(ctx, st, best), ctx.window)
         /\ EvaluateEntry(ctx, st, best).rule = "orb" => ~ctx.orbDone
<1> DEFINE P == PassedRules(ctx)
           score(i) == SelectionScore(EntryOrder[i], ctx, st, best)
           first(i, j) == IF BestSignal THEN score(i) > score(j) \/ (score(i) = score(j) /\ i < j)
                                        ELSE i < j
           R == {e \in P \X P : first(e[1], e[2])}
           order == Ordered(P, R)
           wins(i) == \A j \in P :
             IF BestSignal THEN score(i) > score(j) \/ (score(i) = score(j) /\ i <= j)
                           ELSE i <= j
           w == CHOOSE i \in P : wins(i)
           v == EvaluateEntry(ctx, st, best)
<1>1. PICK n \in Nat : EntryOrder \in [1 .. n -> Rules]
  BY RulesKnown
<1>2. P \subseteq 1 .. n
  BY <1>1 DEF PassedRules
<1>3. \A i \in 1 .. n : score(i) \in Int
  BY <1>1, ScoreIsInt
<1>4. P # {} /\ v = [rule |-> EntryOrder[w], score |-> score(w),
                    terms |-> [k \in Needs(EntryOrder[w], ctx) |->
                                 Reading(EntryOrder[w], k, ctx)]]
  BY DEF EvaluateEntry
<1>5. \A i, j : <<i, j>> \in R <=> i \in P /\ j \in P /\ first(i, j)
  <2> HIDE DEF first, P
  <2> QED
    OBVIOUS
<1>6. \E i \in P : wins(i)
  <2> HIDE DEF R, P, score
  <2>1. IsFiniteSet(P)
    <3>1. IsFiniteSet(1 .. n)
      BY FS_Interval
    <3> QED
      BY <1>2, <3>1, FS_Subset
  <2>2. TotalOrder(P, R)
    BY <1>2, <1>3, <1>5 DEF TotalOrder
  <2>3. /\ Cardinality(P) \in Nat
        /\ order \in [1 .. Cardinality(P) -> P]
        /\ \A x \in P : \E k \in 1 .. Cardinality(P) : order[k] = x
        /\ \A i, j \in 1 .. Cardinality(P) : i < j => <<order[i], order[j]>> \in R
    BY <2>1, <2>2, OrderedData
  <2> HIDE DEF order
  <2>4. 1 \in 1 .. Cardinality(P)
    BY <1>4, <2>3
  <2>5. \A j \in P : j = order[1] \/ first(order[1], j)
    <3> TAKE j \in P
    <3>1. PICK k \in 1 .. Cardinality(P) : order[k] = j
      BY <2>3
    <3>2. k = 1 \/ 1 < k
      OBVIOUS
    <3>3. 1 < k => <<order[1], j>> \in R
      BY <2>3, <2>4, <3>1
    <3> QED
      BY <1>5, <3>1, <3>2, <3>3
  <2> DEFINE x == order[1]
  <2>6. x \in P
    BY <2>3, <2>4
  <2>7. x \in 1 .. n /\ score(x) \in Int
    BY <1>2, <1>3, <2>6
  <2>8. ASSUME NEW j \in P
        PROVE  IF BestSignal THEN score(x) > score(j) \/ (score(x) = score(j) /\ x <= j)
                             ELSE x <= j
    <3>1. j = x \/ first(x, j)
      BY <2>5
    <3>2. j \in 1 .. n /\ score(j) \in Int
      BY <1>2, <1>3
    <3> HIDE DEF x
    <3>3. CASE j = x
      BY <2>7, <3>3
    <3>4. CASE first(x, j)
      BY <2>7, <3>2, <3>4
    <3> QED
      BY <3>1, <3>3, <3>4
  <2>9. wins(x)
    BY <2>8
  <2> QED
    BY <2>6, <2>9
<1>7. w \in P
  <2> HIDE DEF P, wins
  <2> QED
    BY <1>6
<1> HIDE DEF w, v
<1>8. w \in 1 .. n /\ EntryOrder[w] \in Rules
  BY <1>1, <1>2, <1>7
<1> DEFINE rule == EntryOrder[w]
<1>9. ctx.window \in EntryTechniques[rule].windows /\ BlockedBy(rule, ctx) = {}
  BY <1>7 DEF PassedRules
<1>10. \A k \in Needs(rule, ctx) : Reading(rule, k, ctx) = "holds"
  BY <1>9 DEF BlockedBy, Passed
<1>11. v.rule = rule /\ v.score = score(w)
       /\ \A k \in Needs(rule, ctx) : v.terms[k] = Reading(rule, k, ctx)
  BY <1>4
<1>12. \A k \in EntryTechniques[rule].needs \ {"vi_gap"} : k \in Needs(rule, ctx)
  BY DEF Needs
<1>13. rule \in Rules
  BY <1>8
<1> HIDE DEF rule
<1>14. ASSUME rule = "orb" PROVE ~ctx.orbDone
  <2>1. "first_break" \in EntryTechniques["orb"].needs
    BY DEF EntryTechniques, Rule, Orb
  <2>2. Reading(rule, "first_break", ctx) = "holds"
    BY <1>10, <1>12, <1>14, <2>1
  <2> QED
    BY <2>2 DEF Reading
<1>15. score(w) \in Int
  BY <1>3, <1>8
<1> HIDE DEF score
<1>16. Grounded(v, ctx.window)
  BY <1>9, <1>10, <1>11, <1>12, <1>13, <1>15 DEF Grounded
<1> QED
  BY <1>11, <1>14, <1>16 DEF v

\* What the buying loop is handed: verdicts that are grounded, on symbols that are not
\* held, each once, no stronger one behind a weaker; an opening range not yet used.
Founded(v, held, used, hour) ==
  /\ Grounded(v, hour)
  /\ v.symbol \in Stock \ held
  /\ v.rule = "orb" => v.symbol \notin used

InHand(q, held, used, hour) ==
  /\ \A i \in DOMAIN q : Founded(q[i], held, used, hour)
  /\ \A i, j \in DOMAIN q : i < j => q[i].symbol # q[j].symbol /\ q[i].score >= q[j].score

\* The verdicts of a round, not yet sorted.
LEMMA VerdictsData ==
  ASSUME Listed(report), stats \in Stats, NEW bars, NEW best
  PROVE  LET q == Verdicts(bars, best)
         IN /\ IsLine(q)
            /\ \A k \in DOMAIN q : Founded(q[k], DOMAIN positions, orbDone, Window)
            /\ \A k, l \in DOMAIN q : q[k].symbol = q[l].symbol => k = l
<1> DEFINE of(c) == EvaluateEntry(Context(c, bars[c.symbol], c.symbol \in orbDone), stats, best)
           list == report.candidates
           ok == {i \in DOMAIN list : /\ list[i].symbol \notin DOMAIN positions \cup cooling
                                      /\ bars[list[i].symbol].bars
                                      /\ of(list[i]) # NoVerdict}
           seen == Picked(list, ok)
           q == Verdicts(bars, best)
           N == Cardinality(ok)
<1>1. q = [k \in DOMAIN seen |-> On(seen[k].symbol, of(seen[k]))]
  BY DEF Verdicts
<1>2. \A i \in ok : /\ list[i].symbol \in Stock \ DOMAIN positions
                   /\ of(list[i]) # NoVerdict
  <2>1. \A i \in DOMAIN list : list[i].symbol \in Stock
    BY DEF Listed
  <2> HIDE DEF of, list
  <2> QED
    BY <2>1
<1>3. ok \in SUBSET DOMAIN list
  OBVIOUS
<1> HIDE DEF ok, q
<1>4. PICK A : InLine(list, A)
  BY DEF Listed, IsLine
<1>5. \A i \in DOMAIN list : i \in Nat
  BY <1>4 DEF InLine
<1>6. \A i, j \in DOMAIN list : list[i].symbol = list[j].symbol => i = j
  BY DEF Listed
<1> HIDE DEF list
<1>7. N \in Nat
  BY <1>3, <1>4, PickedData
<1>8. PICK order \in [1 .. N -> ok] :
         /\ seen = [k \in 1 .. N |-> list[order[k]]]
         /\ \A i, j \in 1 .. N : i < j => order[i] < order[j]
  BY <1>3, <1>4, PickedData
<1> HIDE DEF N, seen
<1>9. \A k, l \in 1 .. N : order[k] = order[l] => k = l
  <2>1. \A k \in 1 .. N : order[k] \in Nat
    BY <1>3, <1>5, <1>8
  <2> QED
    BY <1>7, <1>8, <2>1
<1>10. \A k \in 1 .. N : seen[k] = list[order[k]] /\ order[k] \in ok
  BY <1>8
<1>11. q = [k \in 1 .. N |-> On(seen[k].symbol, of(seen[k]))]
  <2>1. DOMAIN seen = 1 .. N
    BY <1>8
  <2> HIDE DEF of
  <2> QED
    BY <1>1, <2>1
<1>12. IsLine(q)
  <2> DEFINE B == {On(seen[k].symbol, of(seen[k])) : k \in 1 .. N}
  <2>1. q \in [1 .. N -> B]
    <3> HIDE DEF of
    <3> QED
      BY <1>11
  <2> HIDE DEF B
  <2> QED
    BY <1>7, <2>1 DEF IsLine, InLine
<1>13. DOMAIN q = 1 .. N
  <2> HIDE DEF of
  <2> QED
    BY <1>11
<1>14. ASSUME NEW k \in 1 .. N
       PROVE  /\ q[k].symbol = list[order[k]].symbol
              /\ Founded(q[k], DOMAIN positions, orbDone, Window)
  <2> DEFINE c == list[order[k]]
             ctx == Context(c, bars[c.symbol], c.symbol \in orbDone)
             v == EvaluateEntry(ctx, stats, best)
  <2>1. q[k] = On(c.symbol, v)
    <3>1. q[k] = On(seen[k].symbol, of(seen[k]))
      <4> HIDE DEF of
      <4> QED
        BY <1>11
    <3> QED
      BY <1>10, <3>1
  <2>2. v # NoVerdict /\ c.symbol \in Stock \ DOMAIN positions
    BY <1>2, <1>10
  <2>3. ctx.window = Window /\ ctx.orbDone = (c.symbol \in orbDone)
    BY DEF Context
  <2> HIDE DEF ctx
  <2>4. Grounded(v, ctx.window) /\ (v.rule = "orb" => ~ctx.orbDone)
    BY <2>2, EntryData
  <2> HIDE DEF v, c
  <2>5. /\ q[k].symbol = c.symbol /\ q[k].rule = v.rule /\ q[k].score = v.score
        /\ q[k].terms = v.terms
    BY <2>1 DEF On
  <2>6. Grounded(q[k], Window)
    BY <2>3, <2>4, <2>5 DEF Grounded
  <2> QED
    BY <2>2, <2>3, <2>4, <2>5, <2>6 DEF Founded, c
<1> HIDE DEF of
<1>15. \A k, l \in 1 .. N : q[k].symbol = q[l].symbol => k = l
  <2>1. \A k \in 1 .. N : order[k] \in DOMAIN list
    BY <1>3, <1>8
  <2> QED
    BY <1>6, <1>9, <1>14, <2>1
<1> QED
  BY <1>12, <1>13, <1>14, <1>15 DEF q

\* Sorted, they are what the buying loop is handed.
LEMMA ScoredData ==
  ASSUME NEW q, IsLine(q), NEW held, NEW used, NEW hour,
         \A k \in DOMAIN q : Founded(q[k], held, used, hour),
         \A k, l \in DOMAIN q : q[k].symbol = q[l].symbol => k = l
  PROVE  IsLine(Scored(q)) /\ InHand(Scored(q), held, used, hour)
<1> DEFINE weight == [v \in ToSet(q) |-> v.score]
           f == Falling(q, weight)
<1>1. PICK A : InLine(q, A)
  BY DEF IsLine
<1>2. \A i \in DOMAIN q : q[i] \in ToSet(q) /\ weight[q[i]] = q[i].score
  BY DEF ToSet
<1>3. \A i \in DOMAIN q : weight[q[i]] \in Int
  BY <1>2 DEF Founded, Grounded
<1>4. IsInjective(q)
  BY DEF IsInjective
<1>5. Scored(q) = f
  BY DEF Scored
<1>6. \A v \in ToSet(q) : weight[v] = v.score
  OBVIOUS
<1> HIDE DEF weight
<1>7. /\ InLine(f, A) /\ IsInjective(f) /\ ToSet(f) = ToSet(q)
      /\ \A i, j \in DOMAIN f : i < j => weight[f[i]] >= weight[f[j]]
  BY <1>1, <1>3, <1>4, FallingLine
<1> HIDE DEF f
<1>8. \A i \in DOMAIN f : i \in Nat /\ f[i] \in ToSet(q)
  BY <1>7 DEF InLine, ToSet
<1>9. \A v \in ToSet(q) : Founded(v, held, used, hour)
  BY DEF ToSet
<1>10. \A u, v \in ToSet(q) : u.symbol = v.symbol => u = v
  BY DEF ToSet
<1>11. \A i, j \in DOMAIN f : i < j => f[i].symbol # f[j].symbol
  BY <1>7, <1>8, <1>10 DEF IsInjective
<1>12. InHand(f, held, used, hour)
  BY <1>6, <1>7, <1>8, <1>9, <1>11 DEF InHand
<1> QED
  BY <1>5, <1>7, <1>12 DEF IsLine

\* One verdict less, one symbol more that may be held and whose opening range is used.
LEMMA TailData ==
  ASSUME NEW q, IsLine(q), q # <<>>, NEW held, NEW used, NEW hour, InHand(q, held, used, hour)
  PROVE  /\ Head(q) = q[1] /\ 1 \in DOMAIN q
         /\ IsLine(Tail(q))
         /\ InHand(Tail(q), held \cup {Head(q).symbol}, used \cup {Head(q).symbol}, hour)
<1>0. PICK A : InLine(q, A)
  BY DEF IsLine
<1>1. PICK n \in Nat : q \in [1 .. n -> A]
  BY <1>0 DEF InLine
<1>2. q \in Seq(A) /\ Len(q) = n
  BY <1>1
<1>3. n # 0
  BY <1>2
<1>4. Head(q) = q[1] /\ 1 \in DOMAIN q
  BY <1>1, <1>2, <1>3
<1> DEFINE r == Tail(q)
<1>5. r \in [1 .. n - 1 -> A] /\ \A i \in 1 .. n - 1 : r[i] = q[i + 1]
  <2>1. q \in Seq(A) /\ q # <<>>
    BY <1>2
  <2>2. /\ r \in Seq(A) /\ Len(r) = Len(q) - 1
        /\ \A i \in 1 .. Len(r) : r[i] = q[i + 1]
    BY <2>1, HeadTailProperties
  <2> HIDE DEF r
  <2>3. r \in [1 .. Len(r) -> A]
    BY <2>2
  <2> QED
    BY <1>2, <2>2, <2>3
<1> HIDE DEF r
<1>6. IsLine(r)
  <2>1. n - 1 \in Nat
    BY <1>3
  <2> QED
    BY <1>5, <2>1 DEF IsLine, InLine
<1>7. \A i \in 1 .. n - 1 : i + 1 \in 1 .. n /\ 1 < i + 1 /\ q[i + 1].symbol # q[1].symbol
  <2> TAKE i \in 1 .. n - 1
  <2>1. i + 1 \in 1 .. n /\ 1 < i + 1 /\ 1 \in 1 .. n
    OBVIOUS
  <2> QED
    BY <1>1, <2>1 DEF InHand
<1>8. ASSUME NEW i \in 1 .. n - 1
      PROVE  Founded(r[i], held \cup {q[1].symbol}, used \cup {q[1].symbol}, hour)
  <2>1. Founded(q[i + 1], held, used, hour)
    BY <1>1, <1>7 DEF InHand
  <2> QED
    BY <1>5, <1>7, <2>1 DEF Founded
<1>9. ASSUME NEW i \in 1 .. n - 1, NEW j \in 1 .. n - 1, i < j
      PROVE  r[i].symbol # r[j].symbol /\ r[i].score >= r[j].score
  <2>1. i + 1 < j + 1 /\ i + 1 \in DOMAIN q /\ j + 1 \in DOMAIN q
    BY <1>1, <1>7, <1>9
  <2>2. q[i + 1].symbol # q[j + 1].symbol /\ q[i + 1].score >= q[j + 1].score
    BY <2>1 DEF InHand
  <2> QED
    BY <1>5, <2>2
<1>10. DOMAIN r = 1 .. n - 1
  BY <1>5
<1> QED
  BY <1>4, <1>6, <1>8, <1>9, <1>10 DEF InHand, r

\* Whatever was screened is fair and names each symbol once, and while the engine buys
\* what is left of the queue is founded on what is held and used by then.
BuyInv ==
  /\ GoodReport(report) /\ stats \in Stats
  /\ step = "buy" => IsLine(scored) /\ InHand(scored, DOMAIN positions, orbDone, Window)

LEMMA BuyStart == SelectionInit => BuyInv
BY NoReportGood DEF SelectionInit, BuyInv

LEMMA BuyStep == BuyInv /\ [SelectionNext]_selectionVars => BuyInv'
<1> SUFFICES ASSUME BuyInv, [SelectionNext]_selectionVars PROVE BuyInv'
  OBVIOUS
<1> DEFINE Kept == GoodReport(report') /\ stats' \in Stats
           Hand == IsLine(scored) /\ InHand(scored, DOMAIN positions, orbDone, Window)
<1>1. ASSUME UNCHANGED <<report, stats>> PROVE Kept
  BY <1>1 DEF BuyInv
<1>2. ASSUME NewReport PROVE Kept
  BY <1>2, ReportsGood DEF NewReport
<1>3. ASSUME UNCHANGED <<positions, orbDone, clock, scored>> PROVE Hand => Hand'
  <2>1. DOMAIN positions' = DOMAIN positions /\ Window' = Window
    BY <1>3 DEF Window
  <2> QED
    BY <1>3, <2>1 DEF IsLine
<1>4. ASSUME Kept, step' # "buy" PROVE BuyInv'
  BY <1>4 DEF BuyInv
<1>5. ASSUME Kept, UNCHANGED <<step, positions, orbDone, clock, scored>> PROVE BuyInv'
  <2> HIDE DEF Hand
  <2>1. step' = "buy" => Hand'
    BY <1>3, <1>5 DEF BuyInv, Hand
  <2> QED
    BY <1>5, <2>1 DEF BuyInv, Hand
<1> HIDE DEF Kept, Hand
<1>6. ASSUME NEW s \in Stock, Manage(s) PROVE step' # "buy" /\ UNCHANGED <<report, stats>>
  BY <1>6 DEF Manage, NoPrice, Close, SellPart, GivenBack, Hold, Add, Keeps, Stays, Look, Sold,
              picking
<1>7. CASE BeginRound
  BY <1>1, <1>4, <1>7 DEF BeginRound, picking
<1>8. CASE NoPrices \/ EndManage \/ Check
  BY <1>1, <1>4, <1>8 DEF NoPrices, EndManage, Check, picking
<1>9. CASE Rescreen \/ NoRescreen \/ SkipEntries
  BY <1>1, <1>2, <1>4, <1>9 DEF Rescreen, NoRescreen, SkipEntries, picking
<1>10. CASE WebRescreen
  BY <1>2, <1>5, <1>10 DEF WebRescreen, holding, buying
<1>11. CASE Cooled
  BY <1>1, <1>5, <1>11 DEF Cooled, picking, buying
<1>12. CASE EndBuy
  BY <1>1, <1>4, <1>12 DEF EndBuy, picking
<1>13. CASE Evaluate
  <2>1. PICK bars \in Chartings, best \in Rules \cup {"none"} :
           scored' = Scored(Verdicts(bars, best))
    BY <1>13 DEF Evaluate
  <2> DEFINE q == Verdicts(bars, best)
  <2>2. /\ IsLine(q)
        /\ \A k \in DOMAIN q : Founded(q[k], DOMAIN positions, orbDone, Window)
        /\ \A k, l \in DOMAIN q : q[k].symbol = q[l].symbol => k = l
    BY VerdictsData DEF BuyInv, GoodReport
  <2> HIDE DEF q
  <2>3. IsLine(Scored(q)) /\ InHand(Scored(q), DOMAIN positions, orbDone, Window)
    BY <2>2, ScoredData
  <2>4. /\ UNCHANGED <<positions, orbDone, clock, report, stats>>
    BY <1>13 DEF Evaluate, holding, picking
  <2>5. DOMAIN positions' = DOMAIN positions /\ Window' = Window
    BY <2>4 DEF Window
  <2> QED
    BY <1>1, <2>1, <2>3, <2>4, <2>5 DEF BuyInv, Kept, q
<1>14. CASE Buy
  <2> DEFINE h == Head(scored).symbol
             held == DOMAIN positions \cup {h}
             used == orbDone \cup {h}
  <2>1. /\ step = "buy" /\ scored # <<>> /\ scored' = Tail(scored)
        /\ orbDone' \subseteq used
        /\ UNCHANGED <<clock, report, stats>>
    BY <1>14 DEF Buy, picking
  <2>2. DOMAIN positions' \subseteq held
    BY <1>14 DEF Buy
  <2>3. IsLine(Tail(scored)) /\ InHand(Tail(scored), held, used, Window)
    BY <2>1, TailData DEF BuyInv
  <2> HIDE DEF held, used
  <2>4. \A v : Founded(v, held, used, Window) => Founded(v, DOMAIN positions', orbDone', Window)
    BY <2>1, <2>2 DEF Founded
  <2>5. InHand(Tail(scored), DOMAIN positions', orbDone', Window)
    BY <2>3, <2>4 DEF InHand
  <2>6. Window' = Window
    BY <2>1 DEF Window
  <2> QED
    BY <1>1, <2>1, <2>3, <2>5, <2>6 DEF BuyInv, Kept
<1>15. CASE UNCHANGED selectionVars
  BY <1>1, <1>5, <1>15 DEF selectionVars
<1> QED
  BY <1>1, <1>4, <1>6, <1>7, <1>8, <1>9, <1>10, <1>11, <1>12, <1>13, <1>14, <1>15
     DEF SelectionNext

\* Only buying opens a position, and of the symbol that is at the head of the queue.
LEMMA OpenedByBuy ==
  ASSUME [SelectionNext]_selectionVars, NEW s \in Opened
  PROVE  step = "buy" /\ scored # <<>> /\ s = Head(scored).symbol
<1>1. s \in DOMAIN positions' /\ s \notin DOMAIN positions
  BY DEF Opened
<1>2. ASSUME NEW u \in Stock, Manage(u) PROVE DOMAIN positions' \subseteq DOMAIN positions
  BY <1>2 DEF Manage, NoPrice, Close, SellPart, GivenBack, Hold, Add, Sold, holding
<1>3. ASSUME BeginRound \/ NoPrices \/ EndManage \/ Check \/ Rescreen \/ NoRescreen \/ WebRescreen
      PROVE  UNCHANGED positions
  BY <1>3 DEF BeginRound, NoPrices, EndManage, Check, Rescreen, NoRescreen, WebRescreen, holding
<1>4. ASSUME SkipEntries \/ Evaluate \/ EndBuy \/ Cooled \/ UNCHANGED selectionVars
      PROVE  UNCHANGED positions
  BY <1>4 DEF SkipEntries, Evaluate, EndBuy, Cooled, holding, selectionVars
<1>5. CASE Buy
  BY <1>1, <1>5 DEF Buy
<1> QED
  BY <1>1, <1>2, <1>3, <1>4, <1>5 DEF SelectionNext

\* What is bought, from the invariant.
LEMMA BoughtStep ==
  ASSUME BuyInv, [SelectionNext]_selectionVars, NEW s \in Opened
  PROVE  /\ s = scored[1].symbol
         /\ \A i \in DOMAIN scored : scored[i].score <= scored[1].score
         /\ Founded(scored[1], DOMAIN positions, orbDone, Window)
<1>1. step = "buy" /\ scored # <<>> /\ s = Head(scored).symbol
  BY OpenedByBuy
<1>2. IsLine(scored) /\ InHand(scored, DOMAIN positions, orbDone, Window)
  BY <1>1 DEF BuyInv
<1>3. Head(scored) = scored[1] /\ 1 \in DOMAIN scored
  BY <1>1, <1>2, TailData
<1>4. \A i \in DOMAIN scored : i \in Nat /\ i >= 1
  <2>1. PICK A : InLine(scored, A)
    BY <1>2 DEF IsLine
  <2> QED
    BY <2>1 DEF InLine
<1>5. \A i \in DOMAIN scored : scored[i].score \in Int
  BY <1>2 DEF InHand, Founded, Grounded
<1>6. \A i \in DOMAIN scored : scored[i].score <= scored[1].score
  BY <1>2, <1>3, <1>4, <1>5 DEF InHand
<1> QED
  BY <1>1, <1>2, <1>3, <1>6 DEF InHand

(***************************************************************************)
(* No theme starves another, whatever the themes, the rankings and the     *)
(* limits: of the buckets the round robin of build_report draws the i-th   *)
(* of each before the i + 1-st of any, and the limit leaves room for       *)
(* Spare * PerTheme of every picked theme.                                 *)
(***************************************************************************)
THEOREM ShareKept == SelectionSpec => []FairShare
<1>1. BuyInv => FairShare
  BY DEF BuyInv, GoodReport, Fair, Brought, FairShare
<1> QED
  BY <1>1, BuyStart, BuyStep, PTL DEF SelectionSpec

(***************************************************************************)
(* Buying never finds the symbol held: a report names each symbol once,    *)
(* held ones are passed by, and what is bought leaves the queue.           *)
(***************************************************************************)
THEOREM BoughtOnce == SelectionSpec => []NeverBoughtTwice
<1>1. BuyInv => NeverBoughtTwice
  <2> SUFFICES ASSUME BuyInv, step = "buy", scored # <<>>
               PROVE  Head(scored).symbol \notin DOMAIN positions
    BY DEF NeverBoughtTwice
  <2>1. IsLine(scored) /\ InHand(scored, DOMAIN positions, orbDone, Window)
    BY DEF BuyInv
  <2>2. Head(scored) = scored[1] /\ 1 \in DOMAIN scored
    BY <2>1, TailData
  <2> QED
    BY <2>1, <2>2 DEF InHand, Founded
<1> QED
  BY <1>1, BuyStart, BuyStep, PTL DEF SelectionSpec

(***************************************************************************)
(* What try_entries buys has no stronger signal waiting behind it.         *)
(***************************************************************************)
THEOREM StrongestBought == SelectionSpec => StrongestFirst
<1>1. BuyInv /\ [SelectionNext]_selectionVars =>
         [\A s \in Opened :
             /\ s = scored[1].symbol
             /\ \A i \in DOMAIN scored : scored[i].score <= scored[1].score]_selectionVars
  BY BoughtStep
<1> QED
  BY <1>1, BuyStart, BuyStep, PTL DEF SelectionSpec, StrongestFirst

(***************************************************************************)
(* A position is opened only on a rule whose every need was seen to hold,  *)
(* in its window, and on an opening range only once a day: the verdict is  *)
(* still what it was when the order goes out.                              *)
(***************************************************************************)
THEOREM SignalBought == SelectionSpec => BuysOnASignal
<1>1. BuyInv /\ [SelectionNext]_selectionVars =>
         [\A s \in Opened :
             LET v == scored[1] IN
             /\ v.rule \in Rules
             /\ Window \in EntryTechniques[v.rule].windows
             /\ \A k \in EntryTechniques[v.rule].needs \ {"vi_gap"} : v.terms[k] = "holds"
             /\ v.rule = "orb" => s \notin orbDone]_selectionVars
  <2> SUFFICES ASSUME BuyInv, [SelectionNext]_selectionVars, NEW s \in Opened
               PROVE  LET v == scored[1] IN
                      /\ v.rule \in Rules
                      /\ Window \in EntryTechniques[v.rule].windows
                      /\ \A k \in EntryTechniques[v.rule].needs \ {"vi_gap"} :
                            v.terms[k] = "holds"
                      /\ v.rule = "orb" => s \notin orbDone
    OBVIOUS
  <2>1. s = scored[1].symbol /\ Founded(scored[1], DOMAIN positions, orbDone, Window)
    BY BoughtStep
  <2> QED
    BY <2>1 DEF Founded, Grounded
<1> QED
  BY <1>1, BuyStart, BuyStep, PTL DEF SelectionSpec, BuysOnASignal

------------------------------------------------------------------------------
\* Selection: losses are cut.

\* The fields of a position that Selection keeps.
HeldPosition ==
  [entry : Nat \ {0}, peak : Nat \ {0}, last : Nat \ {0}, lastFill : Nat \ {0},
   scaledOut : Nat, adds : Nat, short : BOOLEAN]

\* Where a position stands after its price was seen.
Cut(q) ==
  /\ q.last * 100 > q.entry * (100 - StopLoss)
  /\ q.scaledOut > 0 => q.last > q.entry

\* LossesAreCut with what its proof needs: which positions are still to be looked at,
\* and that parts are sold only where scale_out is on.
LossInv ==
  /\ todo \subseteq DOMAIN positions
  /\ positions \in [DOMAIN positions -> HeldPosition]
  /\ \A s \in DOMAIN positions : positions[s].scaledOut > 0 => ScaleOut
  /\ \A s \in DOMAIN positions : ~positions[s].short => Cut(positions[s])

\* The stop is heard among the exit rules.
LEMMA StopHeard ==
  ASSUME NEW q, NEW p, NEW closing, NEW signs, EvaluateExit(q, p, closing, signs) = "none"
  PROVE  ~FixedStop(q, p)
<1> DEFINE fired == {i \in DOMAIN ExitPriority : Slot(ExitPriority[i], q, p, closing, signs)}
<1>1. DOMAIN ExitPriority = 1 .. 7 /\ \A i \in 1 .. 7 : ExitPriority[i] # "none"
  BY DEF ExitPriority
<1>2. ASSUME fired # {} PROVE FALSE
  <2>1. PICK i \in fired : \A j \in fired : i <= j
    <3>1. \A i \in fired : i \in 1 .. 7
      BY <1>1
    <3> HIDE DEF fired
    <3>2. CASE 1 \in fired
      BY <3>1, <3>2
    <3>3. CASE 1 \notin fired /\ 2 \in fired
      BY <3>1, <3>3
    <3>4. CASE 1 \notin fired /\ 2 \notin fired /\ 3 \in fired
      BY <3>1, <3>4
    <3>5. CASE {1, 2, 3} \cap fired = {} /\ 4 \in fired
      BY <3>1, <3>5
    <3>6. CASE {1, 2, 3, 4} \cap fired = {} /\ 5 \in fired
      BY <3>1, <3>6
    <3>7. CASE {1, 2, 3, 4, 5} \cap fired = {} /\ 6 \in fired
      BY <3>1, <3>7
    <3>8. CASE {1, 2, 3, 4, 5, 6} \cap fired = {}
      BY <1>2, <3>1, <3>8
    <3> QED
      BY <3>2, <3>3, <3>4, <3>5, <3>6, <3>7, <3>8
  <2> DEFINE i0 == CHOOSE k \in fired : \A j \in fired : k <= j
  <2>2. i0 \in fired
    BY <2>1
  <2>3. ExitPriority[i0] = "none"
    BY <1>2 DEF EvaluateExit
  <2> QED
    BY <1>1, <2>2, <2>3
<1>3. 2 \notin fired
  BY <1>2
<1>4. ExitPriority[2] = "fixed_stop"
  BY DEF ExitPriority
<1>5. ~Slot("fixed_stop", q, p, closing, signs)
  BY <1>1, <1>3, <1>4
<1>6. "fixed" \in ExitEnabled
  BY SelectionAssumption
<1> QED
  BY <1>5, <1>6 DEF Slot, FixedStop

LEMMA SeenIsPosition ==
  ASSUME positions \in [DOMAIN positions -> HeldPosition],
         NEW s \in DOMAIN positions, NEW p \in Price
  PROVE  /\ Seen(s, p) \in HeldPosition
         /\ Seen(s, p).last = p /\ Seen(s, p).entry = positions[s].entry
         /\ Seen(s, p).scaledOut = positions[s].scaledOut
<1> DEFINE q  == positions[s]
           hi == IF p > q.peak THEN p ELSE q.peak
           q1 == [q EXCEPT !.last = p]
           q2 == [q1 EXCEPT !.peak = hi]
           q3 == [q2 EXCEPT !.short = FALSE]
<1>1. p \in Nat \ {0}
  BY SelectionAssumption
<1>2. q \in HeldPosition
  OBVIOUS
<1>3. hi \in Nat \ {0}
  BY <1>1, <1>2 DEF HeldPosition
<1> HIDE DEF q, hi
<1>4. q1 \in HeldPosition /\ q1.last = p /\ q1.entry = q.entry /\ q1.scaledOut = q.scaledOut
  BY <1>1, <1>2 DEF HeldPosition
<1> HIDE DEF q1
<1>5. q2 \in HeldPosition /\ q2.last = p /\ q2.entry = q.entry /\ q2.scaledOut = q.scaledOut
  BY <1>3, <1>4 DEF HeldPosition
<1> HIDE DEF q2
<1>6. q3 \in HeldPosition /\ q3.last = p /\ q3.entry = q.entry /\ q3.scaledOut = q.scaledOut
  BY <1>5 DEF HeldPosition
<1> QED
  BY <1>6 DEF Seen, q, hi, q1, q2

\* One position is put in another's place.
LEMMA OneChanged ==
  ASSUME LossInv, todo' \subseteq todo, NEW s \in DOMAIN positions, NEW q \in HeldPosition,
         q.scaledOut > 0 => ScaleOut, ~q.short => Cut(q), positions' = [positions EXCEPT ![s] = q]
  PROVE  LossInv'
<1>1. /\ positions' \in [DOMAIN positions' -> HeldPosition]
      /\ DOMAIN positions' = DOMAIN positions
      /\ \A u \in DOMAIN positions : positions'[u] = IF u = s THEN q ELSE positions[u]
  BY DEF LossInv
<1> QED
  BY <1>1 DEF LossInv, Cut

\* A sale takes the position away, or leaves what it was called for to be judged.
LEMMA SoldCuts ==
  ASSUME LossInv, NEW s \in DOMAIN positions, NEW p \in Price, NEW part \in BOOLEAN,
         NEW outcome, Sold(s, p, part, outcome),
         part => /\ ScaleOut /\ p > positions[s].entry
                 /\ p * 100 > positions[s].entry * (100 - StopLoss)
  PROVE  LossInv'
<1> DEFINE q    == Seen(s, p)
           step1 == [q EXCEPT !.scaledOut = @ + 1]
           fell == [q EXCEPT !.short = TRUE]
<1>0. todo' = todo \ {s}
  BY DEF Sold
<1>1. /\ q \in HeldPosition /\ q.last = p /\ q.entry = positions[s].entry
      /\ q.scaledOut = positions[s].scaledOut
  BY SeenIsPosition DEF LossInv
<1>2. positions[s].scaledOut > 0 => ScaleOut
  BY DEF LossInv
<1>3. CASE positions' = [u \in DOMAIN positions \ {s} |-> positions[u]]
  BY <1>0, <1>3 DEF LossInv, Cut
<1>4. CASE part /\ positions' = [positions EXCEPT ![s] = step1]
  <2> HIDE DEF q
  <2>1. step1 \in HeldPosition /\ step1.last = p /\ step1.entry = positions[s].entry
    BY <1>1 DEF HeldPosition
  <2> HIDE DEF step1
  <2>2. Cut(step1)
    BY <1>4, <2>1 DEF Cut
  <2> QED
    BY <1>0, <1>4, <2>1, <2>2, OneChanged
<1>5. CASE positions' = [positions EXCEPT ![s] = fell]
  <2> HIDE DEF q
  <2>1. fell \in HeldPosition /\ fell.short /\ fell.scaledOut = q.scaledOut
    BY <1>1 DEF HeldPosition
  <2> HIDE DEF fell
  <2> QED
    BY <1>0, <1>1, <1>2, <1>5, <2>1, OneChanged
<1> QED
  BY <1>3, <1>4, <1>5 DEF Sold

LEMMA LossStart == SelectionInit => LossInv
BY DEF SelectionInit, LossInv

LEMMA LossStep == LossInv /\ [SelectionNext]_selectionVars => LossInv'
<1> SUFFICES ASSUME LossInv, [SelectionNext]_selectionVars PROVE LossInv'
  OBVIOUS
<1>1. ASSUME UNCHANGED positions, todo' \subseteq DOMAIN positions PROVE LossInv'
  BY <1>1 DEF LossInv, Cut
<1>2. ASSUME NEW s \in Stock, Manage(s) PROVE LossInv'
  <2>1. CASE NoPrice(s)
    BY <1>1, <2>1 DEF NoPrice, holding, LossInv
  <2>2. ASSUME NEW p \in Price, NEW signs \in Signs,
               Close(s, p, signs) \/ SellPart(s, p, signs) \/ GivenBack(s, p, signs)
               \/ Hold(s, p, signs) \/ Add(s, p, signs)
        PROVE  LossInv'
    <3>1. s \in DOMAIN positions
      BY <2>2 DEF Close, SellPart, GivenBack, Hold, Add, Keeps, Stays, Look, LossInv
    <3>2. p \in Nat \ {0} /\ FirstExit \in Nat \ {0} /\ TakeProfit \in Nat \ {0}
          /\ StopLoss \in Nat \ {0} /\ AddStep \in Nat
      BY SelectionAssumption
    <3> DEFINE q == Seen(s, p)
               e == positions[s].entry
    <3>3. /\ positions[s] \in HeldPosition /\ e \in Nat \ {0} /\ positions[s].scaledOut \in Nat
          /\ positions[s].lastFill \in Nat \ {0} /\ (positions[s].scaledOut > 0 => ScaleOut)
      BY <3>1 DEF LossInv, HeldPosition
    <3>4. q \in HeldPosition /\ q.last = p /\ q.entry = e /\ q.scaledOut = positions[s].scaledOut
      BY <3>1, SeenIsPosition DEF LossInv
    <3>5. ASSUME Stays(s, p, signs) PROVE p * 100 > e * (100 - StopLoss)
      <4>1. ~FixedStop(q, p)
        BY <3>5, StopHeard DEF Stays
      <4> HIDE DEF q, e
      <4>2. e * (100 - StopLoss) \in Int
        BY <3>2, <3>3
      <4> QED
        BY <3>2, <3>4, <4>1, <4>2 DEF FixedStop
    <3>6. CASE Close(s, p, signs)
      <4>1. PICK outcome \in Outcomes : Sold(s, p, FALSE, outcome)
        BY <3>6 DEF Close
      <4> QED
        BY <3>1, <4>1, SoldCuts
    <3>7. CASE GivenBack(s, p, signs)
      <4>1. PICK outcome \in Outcomes : Sold(s, p, FALSE, outcome)
        BY <3>7 DEF GivenBack
      <4> QED
        BY <3>1, <4>1, SoldCuts
    <3>8. CASE SellPart(s, p, signs)
      <4>1. PICK outcome \in Outcomes : Sold(s, p, TRUE, outcome)
        BY <3>8 DEF SellPart
      <4>2. ScaleOut /\ ((p - e) * 100 >= FirstExit * e \/ (p - e) * 100 >= TakeProfit * e)
        BY <3>8 DEF SellPart, ExitStep
      <4>3. p > e
        <5> HIDE DEF e
        <5>1. FirstExit * e > 0 /\ TakeProfit * e > 0
          BY <3>2, <3>3
        <5>2. FirstExit * e \in Int /\ TakeProfit * e \in Int
          BY <3>2, <3>3
        <5> QED
          BY <3>2, <3>3, <4>2, <5>1, <5>2
      <4>4. p * 100 > e * (100 - StopLoss)
        BY <3>5, <3>8 DEF SellPart
      <4> QED
        BY <3>1, <4>1, <4>2, <4>3, <4>4, SoldCuts
    <3>9. CASE Hold(s, p, signs)
      <4>1. positions' = [positions EXCEPT ![s] = q] /\ todo' = todo \ {s}
        BY <3>9 DEF Hold
      <4>2. p * 100 > e * (100 - StopLoss)
        BY <3>5, <3>9 DEF Hold, Keeps
      <4>3. positions[s].scaledOut > 0 => p > e
        <5>1. ~BreakevenHit(s, p)
          BY <3>9 DEF Hold, Keeps
        <5> QED
          <6>1. ScaleOut /\ positions[s].scaledOut >= 1 => ~ (p * 1000 <= e * 1001)
            BY <5>1 DEF BreakevenHit
          <6> HIDE DEF e
          <6> QED
            BY <3>2, <3>3, <6>1
      <4> HIDE DEF q
      <4>4. Cut(q)
        BY <3>4, <4>2, <4>3 DEF Cut
      <4> QED
        <5>1. todo' \subseteq todo /\ q \in HeldPosition /\ (q.scaledOut > 0 => ScaleOut)
          BY <3>3, <3>4, <4>1
        <5> QED
          BY <3>1, <4>1, <4>4, <5>1, OneChanged
    <3>10. CASE Add(s, p, signs)
      <4> DEFINE mean == (e + p) \div 2
                 r1 == [q EXCEPT !.entry = (@ + p) \div 2]
                 r2 == [r1 EXCEPT !.adds = @ + 1]
                 r3 == [r2 EXCEPT !.lastFill = p]
      <4>1. positions' = [positions EXCEPT ![s] = r3] /\ todo' = todo \ {s}
        BY <3>10 DEF Add
      <4>2. positions[s].scaledOut = 0 /\ (p - e) * 100 >= AddStep * e
        BY <3>10 DEF Add, AddDue
      <4>3. p >= e
        <5> HIDE DEF e
        <5>1. AddStep * e >= 0 /\ AddStep * e \in Int
          BY <3>2, <3>3
        <5> QED
          BY <3>2, <3>3, <4>2, <5>1
      <4>4. mean \in Nat \ {0} /\ mean <= p
        <5> HIDE DEF e
        <5> QED
          BY <3>2, <3>3, <4>3
      <4>5. p * 100 > mean * (100 - StopLoss)
        <5> HIDE DEF mean
        <5>1. mean * StopLoss > 0 /\ mean * StopLoss \in Int
          BY <3>2, <4>4
        <5>2. mean * (100 - StopLoss) = mean * 100 - mean * StopLoss
          BY <3>2, <4>4
        <5> QED
          BY <3>2, <4>4, <5>1, <5>2
      <4> HIDE DEF q
      <4>6. r1 \in HeldPosition /\ r1.last = p /\ r1.entry = mean /\ r1.scaledOut = 0
        <5>1. (q.entry + p) \div 2 = mean
          BY <3>4
        <5> HIDE DEF mean
        <5> QED
          BY <3>4, <4>2, <4>4, <5>1 DEF HeldPosition
      <4> HIDE DEF r1, mean
      <4>7. r2 \in HeldPosition /\ r2.last = p /\ r2.entry = mean /\ r2.scaledOut = 0
        BY <4>6 DEF HeldPosition
      <4> HIDE DEF r2
      <4>8. r3 \in HeldPosition /\ r3.last = p /\ r3.entry = mean /\ r3.scaledOut = 0
        BY <3>2, <4>7 DEF HeldPosition
      <4> HIDE DEF r3
      <4>9. Cut(r3)
        BY <4>5, <4>8 DEF Cut
      <4> QED
        <5>1. todo' \subseteq todo /\ ~ (r3.scaledOut > 0)
          BY <4>1, <4>8
        <5> QED
          BY <3>1, <4>1, <4>8, <4>9, <5>1, OneChanged
    <3> QED
      BY <2>2, <3>6, <3>7, <3>8, <3>9, <3>10
  <2> QED
    BY <1>2, <2>1, <2>2 DEF Manage
<1>3. CASE Buy
  <2>1. CASE UNCHANGED positions
    BY <1>1, <1>3, <2>1 DEF Buy, LossInv
  <2> DEFINE h == Head(scored).symbol
  <2>2. ASSUME NEW p \in BuyPrice,
               positions' = [s \in DOMAIN positions \cup {h} |->
                                IF s = h THEN NewPosition(p) ELSE positions[s]]
        PROVE  LossInv'
    <3>1. /\ DOMAIN positions' = DOMAIN positions \cup {h}
          /\ \A u \in DOMAIN positions' :
                positions'[u] = IF u = h THEN NewPosition(p) ELSE positions[u]
          /\ positions' = [u \in DOMAIN positions' |-> positions'[u]]
      BY <2>2
    <3>2. p \in Nat \ {0} /\ StopLoss \in Nat \ {0}
      BY SelectionAssumption
    <3>3. NewPosition(p) \in HeldPosition
      BY <3>2 DEF NewPosition, HeldPosition
    <3>4. Cut(NewPosition(p)) /\ NewPosition(p).scaledOut = 0
      <4>1. p * 100 > p * (100 - StopLoss)
        <5>1. p * StopLoss > 0 /\ p * StopLoss \in Int
          BY <3>2
        <5>2. p * (100 - StopLoss) = p * 100 - p * StopLoss
          BY <3>2
        <5> QED
          BY <3>2, <5>1, <5>2
      <4> QED
        BY <4>1 DEF NewPosition, Cut
    <3>5. todo' = todo
      BY <1>3 DEF Buy
    <3> HIDE DEF h
    <3> QED
      BY <3>1, <3>3, <3>4, <3>5 DEF LossInv, Cut
  <2> QED
    BY <1>3, <2>1, <2>2 DEF Buy
<1>4. CASE BeginRound
  BY <1>1, <1>4 DEF BeginRound, holding
<1>5. CASE Check
  BY <1>1, <1>5 DEF Check, holding, LossInv
<1>6. CASE NoPrices
  BY <1>1, <1>6 DEF NoPrices, holding, LossInv
<1>7. CASE EndManage
  BY <1>1, <1>7 DEF EndManage, holding, LossInv
<1>8. CASE Rescreen \/ NoRescreen \/ WebRescreen \/ SkipEntries
  BY <1>1, <1>8 DEF Rescreen, NoRescreen, WebRescreen, SkipEntries, holding, LossInv
<1>9. CASE Evaluate
  <2>1. UNCHANGED <<todo, holding>>
    BY <1>9 DEF Evaluate
  <2> QED
    BY <1>1, <2>1 DEF holding, LossInv
<1>10. CASE EndBuy \/ Cooled
  BY <1>1, <1>10 DEF EndBuy, Cooled, holding, LossInv
<1>11. CASE UNCHANGED selectionVars
  BY <1>1, <1>11 DEF selectionVars, LossInv
<1> QED
  BY <1>2, <1>3, <1>4, <1>5, <1>6, <1>7, <1>8, <1>9, <1>10, <1>11 DEF SelectionNext

(***************************************************************************)
(* A held position whose price was seen is above its stop, and above       *)
(* break-even once a part was sold, or its sale has fallen short: for any  *)
(* prices, parts, additions and readings of the other exit rules.          *)
(***************************************************************************)
THEOREM LossesCut == SelectionSpec => []LossesAreCut
<1>1. LossInv => LossesAreCut
  BY DEF LossInv, LossesAreCut, Cut
<1> QED
  BY <1>1, LossStart, LossStep, PTL DEF SelectionSpec

------------------------------------------------------------------------------
\* Selection: the caps.

\* The caps and the types.  What is held and what was traded is never more than a day's
\* trades, and in the buying loop what is left of the budget is within them too.
CapsInv ==
  /\ step \in {"idle", "manage", "check", "screen", "enter", "buy"}
  /\ clock \in DOMAIN Hours /\ todo \subseteq DOMAIN positions /\ DOMAIN positions \subseteq Stock
  /\ {force, mayAdd, halted} \subseteq BOOLEAN
  /\ cooling \cup orbDone \subseteq Stock
  /\ IsFiniteSet(DOMAIN positions) /\ Cardinality(DOMAIN positions) <= MaxPositions
  /\ trades \in Nat /\ budget \in 0 .. DailyMaxTrades
  /\ trades + Cardinality(DOMAIN positions) + (IF step = "buy" THEN budget ELSE 0)
        <= DailyMaxTrades
  /\ step # "buy" => scored = <<>>

LEMMA CapsStart == SelectionInit => CapsInv
<1> SUFFICES ASSUME SelectionInit PROVE CapsInv
  OBVIOUS
<1>1. DOMAIN positions = {}
  BY DEF SelectionInit
<1>2. IsFiniteSet(DOMAIN positions) /\ Cardinality(DOMAIN positions) = 0
  BY <1>1, FS_EmptySet
<1>3. 1 \in DOMAIN Hours /\ MaxPositions \in Nat /\ DailyMaxTrades \in Nat
  <2>1. Hours \in Seq(STRING) /\ Hours # <<>>
    BY SelectionAssumption
  <2>2. 1 \in DOMAIN Hours
    BY <2>1
  <2> QED
    BY <2>2, SelectionAssumption
<1>4. /\ step = "idle" /\ clock = 1 /\ todo = {} /\ cooling = {} /\ orbDone = {}
      /\ force = FALSE /\ mayAdd = FALSE /\ halted = FALSE
      /\ trades = 0 /\ budget = 0 /\ scored = <<>>
  BY DEF SelectionInit
<1>5. trades + Cardinality(DOMAIN positions) + 0 <= DailyMaxTrades
  BY <1>2, <1>3, <1>4
<1>6. Cardinality(DOMAIN positions) <= MaxPositions /\ budget \in 0 .. DailyMaxTrades
  BY <1>2, <1>3, <1>4
<1>7. /\ clock \in DOMAIN Hours
      /\ todo \subseteq DOMAIN positions
      /\ DOMAIN positions \subseteq Stock
  BY <1>1, <1>3, <1>4
<1>8. {force, mayAdd, halted} \subseteq BOOLEAN /\ cooling \cup orbDone \subseteq Stock
  BY <1>4
<1>9. trades + Cardinality(DOMAIN positions) + (IF step = "buy" THEN budget ELSE 0)
        <= DailyMaxTrades
  BY <1>4, <1>5
<1> QED
  BY <1>2, <1>4, <1>6, <1>7, <1>8, <1>9 DEF CapsInv

LEMMA CapsStep == CapsInv /\ BuyInv /\ [SelectionNext]_selectionVars => CapsInv'
<1> SUFFICES ASSUME CapsInv, BuyInv, [SelectionNext]_selectionVars PROVE CapsInv'
  OBVIOUS
<1> DEFINE P == DOMAIN positions
           n == Cardinality(P)
<1>1. IsFiniteSet(P) /\ n \in Nat
  BY FS_CardinalityType DEF CapsInv
<1>2. MaxPositions \in Nat /\ DailyMaxTrades \in Nat /\ Hours \in Seq(STRING)
  BY SelectionAssumption
<1>3. ASSUME UNCHANGED <<positions, trades>>, step # "buy", step' # "buy",
             step' \in {"idle", "manage", "check", "screen", "enter"},
             clock' \in DOMAIN Hours, todo' \subseteq P, force' \in BOOLEAN, mayAdd' \in BOOLEAN,
             halted' \in BOOLEAN, UNCHANGED <<cooling, orbDone, scored, budget>>
      PROVE  CapsInv'
  BY <1>3 DEF CapsInv
<1>4. CASE BeginRound
  <2>1. clock' \in DOMAIN Hours
    <3>1. clock \in DOMAIN Hours /\ clock' \in clock .. Len(Hours)
      BY <1>4 DEF BeginRound, CapsInv
    <3> QED
      BY <1>2, <3>1
  <2>2. mayAdd' \in BOOLEAN
    BY <1>4 DEF BeginRound
  <2>3. step = "idle" /\ step' \in {"check", "manage"} /\ todo' = P /\ force' = FALSE
        /\ UNCHANGED <<halted, orbDone, positions, trades, cooling, scored, budget>>
    BY <1>4 DEF BeginRound, holding, buying
  <2>4. halted' \in BOOLEAN
    BY <2>3 DEF CapsInv
  <2> HIDE DEF P
  <2> QED
    BY <1>3, <2>1, <2>2, <2>3, <2>4
<1>5. CASE NoPrices \/ EndManage \/ Check \/ Rescreen \/ NoRescreen \/ SkipEntries
  <2>1. /\ step # "buy" /\ step' \in {"idle", "manage", "check", "screen", "enter"}
        /\ todo' \subseteq P /\ force' \in BOOLEAN /\ halted' \in BOOLEAN
        /\ UNCHANGED <<clock, mayAdd, positions, trades, cooling, orbDone, scored, budget>>
    BY <1>5 DEF NoPrices, EndManage, Check, Rescreen, NoRescreen, SkipEntries, holding, buying,
               CapsInv
  <2> QED
    BY <1>3, <2>1 DEF CapsInv
<1>6. CASE WebRescreen \/ UNCHANGED selectionVars
  <2>1. UNCHANGED <<step, clock, todo, force, mayAdd, halted, positions, trades, cooling, orbDone,
                   scored, budget>>
    BY <1>6 DEF WebRescreen, holding, buying, selectionVars
  <2> QED
    BY <2>1 DEF CapsInv
<1>7. CASE Cooled
  <2>1. /\ cooling' \subseteq cooling
        /\ UNCHANGED <<step, clock, todo, force, mayAdd, halted, positions, trades, orbDone,
                       scored, budget>>
    BY <1>7 DEF Cooled, buying
  <2> QED
    BY <2>1 DEF CapsInv
<1>8. CASE EndBuy
  <2>1. /\ step = "buy" /\ step' = "idle" /\ scored' = <<>> /\ budget' = 0
        /\ UNCHANGED <<clock, todo, force, mayAdd, halted, positions, trades, cooling, orbDone>>
    BY <1>8 DEF EndBuy, holding
  <2>2. trades + n <= DailyMaxTrades
    BY <1>1, <1>2, <2>1 DEF CapsInv
  <2> QED
    BY <1>1, <1>2, <2>1, <2>2 DEF CapsInv
<1>9. CASE Evaluate
  <2>1. /\ step = "enter" /\ budget' = DailyMaxTrades - trades - n
        /\ DailyMaxTrades - trades - n > 0
        /\ step' = (IF scored' = <<>> THEN "idle" ELSE "buy")
        /\ UNCHANGED <<clock, todo, force, mayAdd, halted, positions, trades, cooling, orbDone>>
    BY <1>9 DEF Evaluate, EntryBudget, holding
  <2>2. trades \in Nat
    BY DEF CapsInv
  <2>3. budget' \in 0 .. DailyMaxTrades /\ trades + n + budget' <= DailyMaxTrades
        /\ trades + n <= DailyMaxTrades
    <3> HIDE DEF n
    <3> QED
      BY <1>1, <1>2, <2>1, <2>2
  <2> QED
    BY <1>1, <1>2, <2>1, <2>3 DEF CapsInv
<1>10. CASE Buy
  <2> DEFINE h == Head(scored).symbol
             Q == DOMAIN positions'
  <2>1. /\ step = "buy" /\ step' = "buy" /\ scored # <<>> /\ budget > 0 /\ n < MaxPositions
        /\ budget' = budget - 1 /\ orbDone' \subseteq orbDone \cup {h}
        /\ UNCHANGED <<clock, todo, force, mayAdd, trades, cooling>>
        /\ halted' \in {halted, TRUE}
    BY <1>10 DEF Buy, RoomLeft
  <2>2. Q = P \/ Q = P \cup {h}
    BY <1>10 DEF Buy
  <2>3. h \in Stock
    <3>1. IsLine(scored) /\ InHand(scored, P, orbDone, Window)
      BY <2>1 DEF BuyInv
    <3>2. Head(scored) = scored[1] /\ 1 \in DOMAIN scored
      BY <2>1, <3>1, TailData
    <3> QED
      BY <3>1, <3>2 DEF InHand, Founded
  <2>4. IsFiniteSet(Q) /\ Cardinality(Q) \in Nat /\ Cardinality(Q) <= n + 1
    <3> HIDE DEF h, Q
    <3> QED
      BY <1>1, <2>2, FS_AddElement
  <2>5. P \subseteq Q /\ Q \subseteq Stock /\ todo' \subseteq Q
    BY <2>1, <2>2, <2>3 DEF CapsInv
  <2>6. trades \in Nat /\ budget \in Nat /\ budget <= DailyMaxTrades
        /\ trades + n + budget <= DailyMaxTrades
    BY <1>2, <2>1 DEF CapsInv
  <2> DEFINE m == Cardinality(Q)
  <2>7. m \in Nat /\ m <= n + 1
    BY <2>4
  <2>8. m <= MaxPositions /\ trades + m + budget' <= DailyMaxTrades
        /\ budget' \in 0 .. DailyMaxTrades
    <3> HIDE DEF n, m
    <3> QED
      BY <1>1, <1>2, <2>1, <2>6, <2>7
  <2>9. orbDone' \cup cooling' \subseteq Stock /\ {force', mayAdd', halted'} \subseteq BOOLEAN
    BY <2>1, <2>3 DEF CapsInv
  <2>10. clock' \in DOMAIN Hours /\ trades' \in Nat
    BY <2>1 DEF CapsInv
  <2> QED
    BY <2>1, <2>4, <2>5, <2>8, <2>9, <2>10 DEF CapsInv
<1>11. ASSUME NEW s \in Stock, Manage(s) PROVE CapsInv'
  <2> DEFINE Q == DOMAIN positions'
  <2>1. /\ step = "manage" /\ s \in todo /\ todo' = todo \ {s}
        /\ halted' \in {halted, TRUE}
        /\ UNCHANGED <<step, clock, force, mayAdd, orbDone, scored, budget>>
    BY <1>11 DEF Manage, NoPrice, Close, SellPart, GivenBack, Hold, Add, Keeps, Stays, Look, Sold,
                 buying
  <2>2. s \in P /\ halted' \in BOOLEAN
    BY <2>1 DEF CapsInv
  <2>3. \/ Q = P /\ UNCHANGED <<trades, cooling>>
        \/ Q = P \ {s} /\ trades' = trades + 1 /\ cooling' = cooling \cup {s}
    BY <1>11 DEF Manage, NoPrice, Close, SellPart, GivenBack, Hold, Add, Sold, holding
  <2>4. CASE Q = P /\ UNCHANGED <<trades, cooling>>
    BY <1>1, <2>1, <2>2, <2>4 DEF CapsInv
  <2>5. CASE Q = P \ {s} /\ trades' = trades + 1 /\ cooling' = cooling \cup {s}
    <3>1. IsFiniteSet(Q) /\ Cardinality(Q) = n - 1
      <4> HIDE DEF Q, P
      <4> QED
        BY <1>1, <2>2, <2>5, FS_RemoveElement DEF n
    <3>2. trades \in Nat /\ trades + n <= DailyMaxTrades /\ n <= MaxPositions
      BY <1>1, <1>2, <2>1 DEF CapsInv
    <3>3. trades' + Cardinality(Q) <= DailyMaxTrades /\ Cardinality(Q) <= MaxPositions
          /\ trades' \in Nat
      <4> HIDE DEF n, Q
      <4> QED
        BY <1>1, <1>2, <2>5, <3>1, <3>2
    <3>4. trades' + Cardinality(Q) + 0 <= DailyMaxTrades
      <4>1. Cardinality(Q) \in Int
        <5> HIDE DEF Q, n
        <5> QED
          BY <1>1, <3>1
      <4> HIDE DEF Q
      <4> QED
        BY <1>2, <3>3, <4>1
    <3>5. Q \subseteq Stock /\ todo' \subseteq Q /\ cooling' \cup orbDone' \subseteq Stock
      BY <2>1, <2>5 DEF CapsInv
    <3> QED
      BY <2>1, <2>2, <3>1, <3>3, <3>4, <3>5 DEF CapsInv
  <2> QED
    BY <2>3, <2>4, <2>5
<1> QED
  BY <1>4, <1>5, <1>6, <1>7, <1>8, <1>9, <1>10, <1>11 DEF SelectionNext

(***************************************************************************)
(* No more is held than MaxPositions, and no more traded in a day than     *)
(* DailyMaxTrades, those still held counted in: try_entries reads its      *)
(* budget once, for the whole list it then buys.                           *)
(***************************************************************************)
THEOREM CapsRespected == SelectionSpec => []SelectionTypeOK
<1>1. CapsInv /\ BuyInv => SelectionTypeOK
  <2> SUFFICES ASSUME CapsInv, BuyInv PROVE SelectionTypeOK
    OBVIOUS
  <2>1. \A i \in DOMAIN report.candidates : report.candidates[i].symbol \in Stock
    BY DEF BuyInv, GoodReport, Listed
  <2>2. \A i \in DOMAIN scored : scored[i].rule \in Rules /\ scored[i].symbol \in Stock
    BY DEF BuyInv, CapsInv, InHand, Founded, Grounded
  <2>3. trades \in 0 .. DailyMaxTrades
    <3>1. Cardinality(DOMAIN positions) \in Nat
      BY FS_CardinalityType DEF CapsInv
    <3>2. DailyMaxTrades \in Nat
      BY SelectionAssumption
    <3> QED
      BY <3>1, <3>2 DEF CapsInv
  <2> QED
    BY <2>1, <2>2, <2>3 DEF CapsInv, SelectionTypeOK
<1> QED
  BY <1>1, BuyStart, BuyStep, CapsStart, CapsStep, PTL DEF SelectionSpec
=============================================================================
