-------------------------- MODULE LiveOrders_proofs --------------------------
(***************************************************************************)
(* Proofs about LiveOrders for any number of orders, any quantities and    *)
(* any number of retries.  The inductive invariant Inv says, for every     *)
(* place the engine thread can be in, what the exchange and the journal    *)
(* have in store for the order in flight.                                  *)
(***************************************************************************)
EXTENDS LiveOrders, Sums

\* The thread is inside buy() or sell().
Busy == pc \notin {"down", "idle"}

\* An order is on its way or taken at most once, and only if it is journalled.
OneCopy ==
    \A c \in Coid :
      /\ wire[c] + exchange[c].copies <= 1
      /\ book[c].status = "none" => wire[c] = 0 /\ exchange[c].copies = 0
      /\ exchange[c].status = "absent" <=> exchange[c].copies = 0
      /\ exchange[c].status = "absent" => exchange[c].filled = 0

\* Before it is posted, and again after it was refused, the order is nowhere.
Nowhere(c) == wire[c] = 0 /\ exchange[c].copies = 0

PostsNothingTwice ==
    /\ pc = "post" => Nowhere(Cur)
    /\ pc = "reply" /\ answer = "busy" => Nowhere(Cur)
    /\ pc = "reply" /\ answer = "ok" => exchange[Cur].copies > 0

\* Quantities: an order fills up to its size, what was seen was filled, and the
\* chase asks for what the first order left.
Quantities ==
    /\ \A c \in Coid : exchange[c].filled <= book[c].qty
    /\ Busy => call.seen <= book[Cur].qty /\ call.done + book[Cur].qty <= call.qty
    /\ pc = "rest" => ~Chasing

\* A thread past _send has an order at the exchange; so has the one it chases.
Placed ==
    /\ pc \in {"wait", "settle", "rest"} => exchange[Cur].copies > 0
    /\ pc = "finish" \/ (Busy /\ Chasing) => exchange[call.first].copies > 0

\* The journal knows what the order in flight is for.
Purpose ==
    Busy => /\ book[Cur].status # "none"
            /\ book[Cur].reason = IF Chasing THEN Chase ELSE call.reason

Inv ==
    /\ TypeOK
    /\ OneCopy
    /\ PostsNothingTwice
    /\ Quantities
    /\ Placed
    /\ Purpose
    /\ SentIsAtTheExchange
    /\ HaltsWhenUnconfirmed


\* The bounds leave room for the constants the model starts from.
LEMMA SomeIdIsId == SomeId \in Coid
BY BoundsAssumption DEF SomeId

\* Between calls the locals have their type too.
LEMMA NoCallIsCall == NoCall \in Call
BY SomeIdIsId, BoundsAssumption DEF NoCall, Locals, Call, Qty, Reason, Entry

\* The first state satisfies the invariant.
LEMMA InitInv == Init => Inv
<1> SUFFICES ASSUME Init PROVE Inv
  OBVIOUS
<1>1. NoIntent \in Intent /\ NoOrder \in Order
  BY BoundsAssumption DEF NoIntent, Intent, NoOrder, Order, Qty, Reason, Entry
<1>2. TypeOK
  BY <1>1, NoCallIsCall DEF Init, TypeOK, Answer, Control
<1>3. OneCopy /\ PostsNothingTwice
  BY DEF Init, OneCopy, PostsNothingTwice, NoOrder, NoIntent
<1>4. Quantities /\ Placed /\ Purpose
  BY BoundsAssumption DEF Init, Quantities, Placed, Purpose, Busy, NoOrder, NoIntent
<1>5. SentIsAtTheExchange /\ HaltsWhenUnconfirmed
  BY DEF Init, SentIsAtTheExchange, HaltsWhenUnconfirmed, Unconfirmed, NoIntent
<1> QED
  BY <1>2, <1>3, <1>4, <1>5 DEF Inv

\* Type correctness.
LEMMA TypeStep == Inv /\ [Next]_vars => TypeOK'
<1> SUFFICES ASSUME Inv, [Next]_vars PROVE TypeOK'
  OBVIOUS
<1>0. TypeOK
  BY DEF Inv
<1> USE <1>0 DEF TypeOK, Answer, Control, Cur
<1>1. CASE StartManage
  BY <1>1 DEF StartManage, orderVars, AfterCancel
<1>2. CASE StartEntries
  BY <1>2 DEF StartEntries, orderVars, AfterCancel
<1>3. CASE SendAgain
  <2>1. call' \in Call
    BY <1>3, BoundsAssumption DEF SendAgain, Call
  <2> QED
    BY <1>3, <2>1 DEF SendAgain
<1>4. CASE NoAnswer
  BY <1>4 DEF NoAnswer, orderVars, AfterCancel
<1>5. CASE ResolveMisses
  <2>1. call' \in Call
    BY <1>5, BoundsAssumption DEF ResolveMisses, Call
  <2> QED
    BY <1>5, <2>1 DEF ResolveMisses, orderVars
<1>6. CASE Poll
  <2>1. exchange[Cur] \in Order /\ exchange[Cur].status # "absent"
    BY <1>6 DEF Poll, Inv, OneCopy, Placed, Order, Call
  <2>2. call' \in Call
    BY <1>6, <2>1 DEF Poll, Call, Order
  <2> QED
    BY <1>6, <2>2 DEF Poll, orderVars
<1>7. CASE WaitEnds
  BY <1>7 DEF WaitEnds, orderVars, AfterCancel
<1>8. CASE NothingToCancel
  BY <1>8 DEF NothingToCancel, orderVars, AfterCancel
<1>9. CASE CancelFails
  BY <1>9 DEF CancelFails, orderVars, AfterCancel
<1>10. CASE Halt
  BY <1>10, NoCallIsCall DEF Halt, orderVars
<1>11. CASE Crash
  BY <1>11, NoCallIsCall DEF Crash, Call
<1>12. CASE Restart
  BY <1>12 DEF Restart, orderVars, AfterCancel
<1>13. CASE Accepted
  <2>1. book' \in [Coid -> Intent]
    BY <1>13 DEF Accepted, Mark, Intent
  <2> QED
    BY <1>13, <2>1 DEF Accepted
<1>14. CASE Failed
  <2>1. book' \in [Coid -> Intent]
    BY <1>14 DEF Failed, Mark, Intent
  <2> QED
    BY <1>14, <2>1, NoCallIsCall DEF Failed, SendFails, Return
<1>15. CASE ResolveFinds
  <2>1. book' \in [Coid -> Intent]
    BY <1>15 DEF ResolveFinds, Mark, Intent
  <2> QED
    BY <1>15, <2>1 DEF ResolveFinds
<1>16. CASE ResolveGivesUp
  <2>1. book' \in [Coid -> Intent]
    BY <1>16 DEF ResolveGivesUp, Mark, Intent
  <2> QED
    BY <1>16, <2>1, NoCallIsCall DEF ResolveGivesUp, SendFails, Return
<1>17. CASE Finish
  <2>1. call.done + call.seen \in Qty
    BY <1>17, BoundsAssumption DEF Finish, Inv, Quantities, Busy, Call, Qty, Intent
  <2>2. book' \in [Coid -> Intent]
    BY <1>17, <2>1 DEF Finish, Intent, Call
  <2>3. bought' \in Nat
    BY <1>17, <2>1 DEF Finish, Qty
  <2> QED
    BY <1>17, <2>2, <2>3, NoCallIsCall DEF Finish, Return
<1>18. CASE Post
  BY <1>18 DEF Post, Call
<1>19. CASE Cancel
  <2>1. exchange' \in [Coid -> Order]
    BY <1>19 DEF Cancel, Order, Call
  <2> QED
    BY <1>19, <2>1 DEF Cancel, AfterCancel
<1>20. ASSUME NEW c \in Coid, ChaseRest(c) PROVE TypeOK'
  <2>0. /\ call.seen \in Qty /\ call.done \in Qty /\ call.qty \in Qty /\ book[Cur].qty \in Qty
        /\ call.seen <= book[Cur].qty /\ call.done + book[Cur].qty <= call.qty
    BY <1>20 DEF ChaseRest, Inv, Quantities, Busy, Call, Intent
  <2>1. call.seen \in Qty /\ call.qty - call.seen \in Qty
    BY <2>0, BoundsAssumption DEF Qty
  <2>2. call' \in Call
    BY <1>20, <2>1, BoundsAssumption DEF ChaseRest, Locals, Call, Qty
  <2>3. book' \in [Coid -> Intent]
    BY <1>20, <2>1, BoundsAssumption DEF ChaseRest, Record, Intent, Reason, Qty
  <2> QED
    BY <1>20, <2>2, <2>3 DEF ChaseRest
<1>21. ASSUME NEW c \in Coid, Accept(c) PROVE TypeOK'
  <2>1. exchange' \in [Coid -> Order]
    BY <1>21 DEF Accept, Order
  <2> QED
    BY <1>21, <2>1 DEF Accept
<1>22. ASSUME NEW c \in Coid, Refuse(c) PROVE TypeOK'
  BY <1>22 DEF Refuse, orderVars, AfterCancel
<1>23. ASSUME NEW c \in Coid, Lose(c) PROVE TypeOK'
  BY <1>23 DEF Lose, orderVars, AfterCancel
<1>24. ASSUME NEW c \in Coid, Execute(c) PROVE TypeOK'
  <2>1. book[c].qty \in Qty
    BY DEF Intent
  <2>2. exchange' \in [Coid -> Order]
    BY <1>24, <2>1, BoundsAssumption DEF Execute, Order, Qty
  <2> QED
    BY <1>24, <2>2 DEF Execute
<1>25. ASSUME NEW c \in Coid, Expire(c) PROVE TypeOK'
  <2>1. exchange' \in [Coid -> Order]
    BY <1>25 DEF Expire, Order
  <2> QED
    BY <1>25, <2>1 DEF Expire
<1>26. ASSUME NEW c \in Coid, NEW q \in Sizes, NEW why \in {Entry, Add, Close}, Start(c, q, why)
      PROVE  TypeOK'
  <2>1. q \in Qty
    BY BoundsAssumption DEF Qty
  <2>2. call' \in Call
    BY <1>26, <2>1, BoundsAssumption DEF Start, Locals, Call, Reason, Qty
  <2>3. book' \in [Coid -> Intent]
    BY <1>26, <2>1, BoundsAssumption DEF Start, Record, Intent, Reason, Qty
  <2> QED
    BY <1>26, <2>2, <2>3 DEF Start
<1>27. CASE UNCHANGED vars
  BY <1>27 DEF vars, orderVars, AfterCancel
<1> QED
  BY <1>1, <1>2, <1>3, <1>4, <1>5, <1>6, <1>7, <1>8, <1>9, <1>10, <1>11, <1>12, <1>13, <1>14,
      <1>15, <1>16, <1>17, <1>18, <1>19, <1>20, <1>21, <1>22, <1>23, <1>24, <1>25, <1>26, <1>27
  DEF Next, ClientStep, EngineStep, Environment, StartEntry, StartAdd, StartClose, Entry, Add, Close

\* No order is taken twice.
LEMMA OneCopyStep == Inv /\ [Next]_vars => OneCopy'
<1> SUFFICES ASSUME Inv, [Next]_vars PROVE OneCopy'
  OBVIOUS
<1> USE DEF Inv, Cur
<1>1. CASE UNCHANGED <<book, exchange, wire>>
  BY <1>1 DEF OneCopy
<1>2. CASE Accepted
  BY <1>2 DEF Accepted, Mark, TypeOK, OneCopy, Intent, Order, Call, IsNew, Fresh
<1>3. CASE Failed
  BY <1>3 DEF Failed, Mark, TypeOK, OneCopy, Intent, Order, Call, IsNew, Fresh
<1>4. CASE ResolveFinds
  BY <1>4 DEF ResolveFinds, Mark, TypeOK, OneCopy, Intent, Order, Call, IsNew, Fresh
<1>5. CASE ResolveGivesUp
  BY <1>5 DEF ResolveGivesUp, Mark, TypeOK, OneCopy, Intent, Order, Call, IsNew, Fresh
<1>6. CASE Finish
  BY <1>6 DEF Finish, TypeOK, OneCopy, Intent, Order, Call, IsNew, Fresh
<1>7. CASE Post
  <2>1. Nowhere(Cur) /\ Cur \in Coid /\ book[Cur].status # "none"
    BY <1>7 DEF Post, PostsNothingTwice, TypeOK, Call, Purpose, Busy
  <2>2. wire'[Cur] = 1 /\ \A d \in Coid \ {Cur} : wire'[d] = wire[d]
    BY <1>7, <2>1 DEF Post, TypeOK, Nowhere
  <2> QED
    BY <1>7, <2>1, <2>2 DEF Post, OneCopy, Nowhere
<1>8. CASE Cancel
  BY <1>8 DEF Cancel, TypeOK, OneCopy, Intent, Order, Call, IsNew, Fresh
<1>9. ASSUME NEW c \in Coid, ChaseRest(c) PROVE OneCopy'
  BY <1>9 DEF ChaseRest, Record, TypeOK, OneCopy, Intent, Order, Call, IsNew, Fresh
<1>10. ASSUME NEW c \in Coid, Accept(c) PROVE OneCopy'
  <2>1. /\ \A d \in Coid \ {c} : exchange'[d] = exchange[d] /\ wire'[d] = wire[d]
        /\ exchange'[c].copies = exchange[c].copies + 1 /\ wire'[c] = wire[c] - 1
        /\ exchange'[c].status # "absent" /\ exchange'[c].filled = exchange[c].filled
        /\ wire[c] > 0 /\ wire[c] \in Nat /\ exchange[c].copies \in Nat
    BY <1>10 DEF Accept, TypeOK, Order
  <2> QED
    BY <1>10, <2>1 DEF Accept, OneCopy
<1>11. ASSUME NEW c \in Coid, Refuse(c) PROVE OneCopy'
  BY <1>11 DEF Refuse, TypeOK, OneCopy, Intent, Order, Call, IsNew, Fresh
<1>12. ASSUME NEW c \in Coid, Lose(c) PROVE OneCopy'
  BY <1>12 DEF Lose, TypeOK, OneCopy, Intent, Order, Call, IsNew, Fresh
<1>13. ASSUME NEW c \in Coid, Execute(c) PROVE OneCopy'
  <2>1. /\ \A d \in Coid \ {c} : exchange'[d] = exchange[d]
        /\ exchange'[c].copies = exchange[c].copies
        /\ exchange[c].status # "absent" /\ exchange'[c].status # "absent"
    BY <1>13 DEF Execute, TypeOK, Order
  <2> QED
    BY <1>13, <2>1 DEF Execute, OneCopy
<1>14. ASSUME NEW c \in Coid, Expire(c) PROVE OneCopy'
  <2>1. /\ \A d \in Coid \ {c} : exchange'[d] = exchange[d]
        /\ exchange'[c].copies = exchange[c].copies /\ exchange'[c].filled = exchange[c].filled
        /\ exchange[c].status # "absent" /\ exchange'[c].status # "absent"
    BY <1>14 DEF Expire, TypeOK, Order
  <2> QED
    BY <1>14, <2>1 DEF Expire, OneCopy
<1>15. ASSUME NEW c \in Coid, NEW q \in Sizes, NEW why \in {Entry, Add, Close}, Start(c, q, why)
      PROVE  OneCopy'
  BY <1>15 DEF Start, Record, TypeOK, OneCopy, Intent, Order, Call, IsNew, Fresh
<1>16. CASE UNCHANGED vars
  BY <1>16 DEF OneCopy, vars
<1> QED
  BY <1>1, <1>2, <1>3, <1>4, <1>5, <1>6, <1>7, <1>8, <1>9, <1>10, <1>11, <1>12, <1>13, <1>14,
      <1>15, <1>16
  DEF Next, ClientStep, EngineStep, Environment, StartEntry, StartAdd, StartClose, Entry, Add,
      Close, StartManage, StartEntries, SendAgain, NoAnswer, ResolveMisses, Poll, WaitEnds,
      NothingToCancel, CancelFails, Halt, Crash, Restart, orderVars

\* A POST leaves only for an order that is nowhere.
LEMMA PostsStep == Inv /\ [Next]_vars => PostsNothingTwice'
<1> SUFFICES ASSUME Inv, [Next]_vars PROVE PostsNothingTwice'
  OBVIOUS
<1> USE DEF Inv, Cur
<1>1. CASE StartManage
  BY <1>1 DEF StartManage, PostsNothingTwice, Nowhere
<1>2. CASE StartEntries
  BY <1>2 DEF StartEntries, PostsNothingTwice, Nowhere
<1>3. CASE SendAgain
  BY <1>3 DEF SendAgain, PostsNothingTwice, Nowhere
<1>4. CASE NoAnswer
  BY <1>4 DEF NoAnswer, PostsNothingTwice, Nowhere
<1>5. CASE ResolveMisses
  BY <1>5 DEF ResolveMisses, PostsNothingTwice, Nowhere
<1>6. CASE Poll
  BY <1>6 DEF Poll, PostsNothingTwice, Nowhere
<1>7. CASE WaitEnds
  BY <1>7 DEF WaitEnds, PostsNothingTwice, Nowhere
<1>8. CASE NothingToCancel
  BY <1>8 DEF NothingToCancel, PostsNothingTwice, Nowhere
<1>9. CASE CancelFails
  BY <1>9 DEF CancelFails, AfterCancel, PostsNothingTwice, Nowhere
<1>10. CASE Halt
  BY <1>10 DEF Halt, PostsNothingTwice, Nowhere
<1>11. CASE Crash
  BY <1>11 DEF Crash, PostsNothingTwice, Nowhere
<1>12. CASE Restart
  BY <1>12 DEF Restart, PostsNothingTwice, Nowhere
<1>13. CASE Accepted
  BY <1>13 DEF Accepted, Mark, PostsNothingTwice, Nowhere
<1>14. CASE Failed
  BY <1>14 DEF Failed, Mark, SendFails, Return, PostsNothingTwice, Nowhere
<1>15. CASE ResolveFinds
  BY <1>15 DEF ResolveFinds, Mark, PostsNothingTwice, Nowhere
<1>16. CASE ResolveGivesUp
  BY <1>16 DEF ResolveGivesUp, Mark, SendFails, Return, PostsNothingTwice, Nowhere
<1>17. CASE Finish
  BY <1>17 DEF Finish, Return, PostsNothingTwice, Nowhere
<1>18. CASE Post
  BY <1>18 DEF Post, PostsNothingTwice, Nowhere
<1>19. CASE Cancel
  BY <1>19 DEF Cancel, AfterCancel, PostsNothingTwice, Nowhere
<1>20. ASSUME NEW c \in Coid, ChaseRest(c) PROVE PostsNothingTwice'
  <2>1. Nowhere(c)
    BY <1>20 DEF ChaseRest, IsNew, Fresh, OneCopy, Nowhere
  <2> QED
    BY <1>20, <2>1 DEF ChaseRest, Locals, PostsNothingTwice, Nowhere
<1>21. ASSUME NEW c \in Coid, Accept(c) PROVE PostsNothingTwice'
  <2>1. wire[c] = 1 /\ exchange[c].copies = 0 
    BY <1>21 DEF Accept, OneCopy, TypeOK, Order
  <2>7. exchange'[c].copies = 1
    BY <1>21, <2>1 DEF Accept, TypeOK
  <2>2. pc = "post" => Cur # c
    BY <2>1 DEF PostsNothingTwice, Nowhere
  <2>3. pc = "reply" /\ Cur = c => answer' \in {"ok", "refused"}
    BY <1>21 DEF Accept, Waiting
  <2>4. Cur # c /\ Cur \in Coid => wire'[Cur] = wire[Cur] /\ exchange'[Cur] = exchange[Cur]
    BY <1>21 DEF Accept, TypeOK
  <2>5. Cur \in Coid
    BY DEF TypeOK, Call
  <2>6. pc = "reply" /\ Cur # c => answer' = answer
    BY <1>21 DEF Accept, Waiting
  <2> QED
    BY <1>21, <2>1, <2>2, <2>3, <2>4, <2>5, <2>6, <2>7 DEF Accept, PostsNothingTwice, Nowhere
<1>22. ASSUME NEW c \in Coid, Refuse(c) PROVE PostsNothingTwice'
  <2>0. wire[c] \in Nat /\ exchange[c].copies \in Nat /\ wire[c] + exchange[c].copies <= 1
    BY DEF OneCopy, TypeOK, Order
  <2>1. wire[c] = 1 /\ exchange[c].copies = 0
    BY <1>22, <2>0 DEF Refuse
  <2>2. wire'[c] = 0 /\ exchange' = exchange /\ call' = call /\ pc' = pc
        /\ \A d \in Coid \ {c} : wire'[d] = wire[d]
    BY <1>22, <2>1 DEF Refuse, TypeOK
  <2>3. pc = "post" => c # Cur
    BY <2>1 DEF PostsNothingTwice, Nowhere
  <2>4. pc = "reply" /\ Cur # c => answer' = answer
    BY <1>22 DEF Refuse, Waiting
  <2>5. pc = "reply" /\ Cur = c => answer' # "ok"
    BY <1>22 DEF Refuse, Waiting
  <2>6. Cur \in Coid
    BY DEF TypeOK, Call
  <2> QED
    BY <2>1, <2>2, <2>3, <2>4, <2>5, <2>6 DEF PostsNothingTwice, Nowhere
<1>23. ASSUME NEW c \in Coid, Lose(c) PROVE PostsNothingTwice'
  BY <1>23 DEF Lose, PostsNothingTwice, Nowhere
<1>24. ASSUME NEW c \in Coid, Execute(c) PROVE PostsNothingTwice'
  BY <1>24 DEF Execute, PostsNothingTwice, Nowhere
<1>25. ASSUME NEW c \in Coid, Expire(c) PROVE PostsNothingTwice'
  BY <1>25 DEF Expire, PostsNothingTwice, Nowhere
<1>26. ASSUME NEW c \in Coid, NEW q \in Sizes, NEW why \in {Entry, Add, Close}, Start(c, q, why)
      PROVE  PostsNothingTwice'
  <2>1. Nowhere(c)
    BY <1>26 DEF Start, IsNew, Fresh, OneCopy, Nowhere
  <2> QED
    BY <1>26, <2>1 DEF Start, Locals, PostsNothingTwice, Nowhere
<1>27. CASE UNCHANGED vars
  BY <1>27 DEF vars, PostsNothingTwice, Nowhere
<1> QED
  BY <1>1, <1>2, <1>3, <1>4, <1>5, <1>6, <1>7, <1>8, <1>9, <1>10, <1>11, <1>12, <1>13, <1>14,
      <1>15, <1>16, <1>17, <1>18, <1>19, <1>20, <1>21, <1>22, <1>23, <1>24, <1>25, <1>26, <1>27
  DEF Next, ClientStep, EngineStep, Environment, StartEntry, StartAdd, StartClose, Entry, Add, Close

\* Quantities add up.
LEMMA QuantitiesStep == Inv /\ [Next]_vars => Quantities'
<1> SUFFICES ASSUME Inv, [Next]_vars PROVE Quantities'
  OBVIOUS
<1> USE DEF Inv, Cur
<1>1. CASE StartManage
  BY <1>1 DEF StartManage, Quantities, TypeOK, Call, Order, Intent, Busy, Chasing, orderVars
<1>2. CASE StartEntries
  BY <1>2 DEF StartEntries, Quantities, TypeOK, Call, Order, Intent, Busy, Chasing, orderVars
<1>3. CASE SendAgain
  BY <1>3 DEF SendAgain, Quantities, TypeOK, Call, Order, Intent, Busy, Chasing, orderVars
<1>4. CASE NoAnswer
  BY <1>4 DEF NoAnswer, Quantities, TypeOK, Call, Order, Intent, Busy, Chasing, orderVars
<1>5. CASE ResolveMisses
  BY <1>5 DEF ResolveMisses, Quantities, TypeOK, Call, Order, Intent, Busy, Chasing, orderVars
<1>6. CASE Poll
  BY <1>6 DEF Poll, Quantities, TypeOK, Call, Order, Intent, Busy, Chasing, orderVars
<1>7. CASE WaitEnds
  BY <1>7 DEF WaitEnds, Quantities, TypeOK, Call, Order, Intent, Busy, Chasing, orderVars
<1>8. CASE NothingToCancel
  BY <1>8 DEF NothingToCancel, Quantities, TypeOK, Call, Order, Intent, Busy, Chasing, orderVars
<1>9. CASE CancelFails
  BY <1>9 DEF CancelFails, AfterCancel, Quantities, TypeOK, Call, Order, Intent, Busy, Chasing,
      orderVars
<1>10. CASE Halt
  BY <1>10 DEF Halt, Quantities, TypeOK, Call, Order, Intent, Busy, Chasing, orderVars
<1>11. CASE Crash
  BY <1>11 DEF Crash, Quantities, TypeOK, Call, Order, Intent, Busy, Chasing, orderVars
<1>12. CASE Restart
  BY <1>12 DEF Restart, Quantities, TypeOK, Call, Order, Intent, Busy, Chasing, orderVars
<1>13. CASE Accepted
  BY <1>13 DEF Accepted, Mark, Quantities, TypeOK, Call, Order, Intent, Busy, Chasing, orderVars
<1>14. CASE Failed
  BY <1>14 DEF Failed, Mark, SendFails, Return, Quantities, TypeOK, Call, Order, Intent, Busy,
      Chasing, orderVars
<1>15. CASE ResolveFinds
  BY <1>15 DEF ResolveFinds, Mark, Quantities, TypeOK, Call, Order, Intent, Busy, Chasing, orderVars
<1>16. CASE ResolveGivesUp
  BY <1>16 DEF ResolveGivesUp, Mark, SendFails, Return, Quantities, TypeOK, Call, Order, Intent,
      Busy, Chasing, orderVars
<1>17. CASE Finish
  BY <1>17 DEF Finish, Return, Quantities, TypeOK, Call, Order, Intent, Busy, Chasing, orderVars
<1>18. CASE Post
  BY <1>18 DEF Post, Quantities, TypeOK, Call, Order, Intent, Busy, Chasing, orderVars
<1>19. CASE Cancel
  BY <1>19 DEF Cancel, AfterCancel, Quantities, TypeOK, Call, Order, Intent, Busy, Chasing,
      orderVars
<1>20. ASSUME NEW c \in Coid, ChaseRest(c) PROVE Quantities'
  <2>1. exchange[c].filled = 0 
    BY <1>20 DEF ChaseRest, IsNew, Fresh, OneCopy
  <2>0. /\ call.seen \in Nat /\ call.done \in Nat /\ call.qty \in Nat /\ book[Cur].qty \in Nat
        /\ call.seen <= book[Cur].qty /\ call.done + book[Cur].qty <= call.qty
    BY <1>20 DEF ChaseRest, Quantities, Busy, TypeOK, Call, Intent, Qty
  <2>2. book'[c].qty = call.qty - call.seen /\ \A d \in Coid \ {c} : book'[d] = book[d]
    BY <1>20 DEF ChaseRest, Record, TypeOK
  <2>3. call'.coid = c /\ call'.seen = 0 /\ call'.done = call.seen /\ call'.qty = call.qty /\ pc' = "post"
    BY <1>20 DEF ChaseRest, Locals
  <2>4. \A d \in Coid : exchange'[d].filled <= book'[d].qty
    BY <1>20, <2>0, <2>1, <2>2 DEF ChaseRest, Quantities
  <2> QED
    BY <2>0, <2>2, <2>3, <2>4 DEF Quantities
<1>21. ASSUME NEW c \in Coid, Accept(c) PROVE Quantities'
  BY <1>21 DEF Accept, Quantities, TypeOK, Call, Order, Intent, Busy, Chasing, orderVars
<1>22. ASSUME NEW c \in Coid, Refuse(c) PROVE Quantities'
  BY <1>22 DEF Refuse, Quantities, TypeOK, Call, Order, Intent, Busy, Chasing, orderVars
<1>23. ASSUME NEW c \in Coid, Lose(c) PROVE Quantities'
  BY <1>23 DEF Lose, Quantities, TypeOK, Call, Order, Intent, Busy, Chasing, orderVars
<1>24. ASSUME NEW c \in Coid, Execute(c) PROVE Quantities'
  BY <1>24 DEF Execute, Quantities, TypeOK, Call, Order, Intent, Busy, Chasing, orderVars
<1>25. ASSUME NEW c \in Coid, Expire(c) PROVE Quantities'
  BY <1>25 DEF Expire, Quantities, TypeOK, Call, Order, Intent, Busy, Chasing, orderVars
<1>26. ASSUME NEW c \in Coid, NEW q \in Sizes, NEW why \in {Entry, Add, Close}, Start(c, q, why)
      PROVE  Quantities'
  <2>1. exchange[c].filled = 0 /\ q \in Qty
    BY <1>26, BoundsAssumption DEF Start, IsNew, Fresh, OneCopy, Qty
  <2>2. book'[c].qty = q /\ \A d \in Coid \ {c} : book'[d] = book[d]
    BY <1>26 DEF Start, Record, TypeOK
  <2>3. call'.coid = c /\ call'.seen = 0 /\ call'.done = 0 /\ call'.qty = q /\ pc' = "post"
    BY <1>26 DEF Start, Locals
  <2>4. \A d \in Coid : exchange'[d].filled <= book'[d].qty
    BY <1>26, <2>1, <2>2 DEF Start, Quantities, Qty
  <2> QED
    BY <2>1, <2>2, <2>3, <2>4 DEF Quantities, Qty
<1>27. CASE UNCHANGED vars
  BY <1>27 DEF vars, Quantities, TypeOK, Call, Order, Intent, Busy, Chasing, orderVars
<1> QED
  BY <1>1, <1>2, <1>3, <1>4, <1>5, <1>6, <1>7, <1>8, <1>9, <1>10, <1>11, <1>12, <1>13, <1>14,
      <1>15, <1>16, <1>17, <1>18, <1>19, <1>20, <1>21, <1>22, <1>23, <1>24, <1>25, <1>26, <1>27
  DEF Next, ClientStep, EngineStep, Environment, StartEntry, StartAdd, StartClose, Entry, Add, Close

\* The orders a call relies on are at the exchange.
LEMMA PlacedStep == Inv /\ [Next]_vars => Placed'
<1> SUFFICES ASSUME Inv, [Next]_vars PROVE Placed'
  OBVIOUS
<1> USE DEF Inv, Cur
<1>1. CASE StartManage
  BY <1>1 DEF StartManage, Placed, TypeOK, Call, Order, Busy, Chasing, orderVars
<1>2. CASE StartEntries
  BY <1>2 DEF StartEntries, Placed, TypeOK, Call, Order, Busy, Chasing, orderVars
<1>3. CASE SendAgain
  BY <1>3 DEF SendAgain, Placed, TypeOK, Call, Order, Busy, Chasing, orderVars
<1>4. CASE NoAnswer
  BY <1>4 DEF NoAnswer, Placed, TypeOK, Call, Order, Busy, Chasing, orderVars
<1>5. CASE ResolveMisses
  BY <1>5 DEF ResolveMisses, Placed, TypeOK, Call, Order, Busy, Chasing, orderVars
<1>6. CASE Poll
  BY <1>6 DEF Poll, Placed, TypeOK, Call, Order, Busy, Chasing, orderVars
<1>7. CASE WaitEnds
  BY <1>7 DEF WaitEnds, Placed, TypeOK, Call, Order, Busy, Chasing, orderVars
<1>8. CASE NothingToCancel
  BY <1>8 DEF NothingToCancel, Placed, TypeOK, Call, Order, Busy, Chasing, orderVars
<1>9. CASE CancelFails
  BY <1>9 DEF CancelFails, AfterCancel, Placed, TypeOK, Call, Order, Busy, Chasing, orderVars
<1>10. CASE Halt
  BY <1>10 DEF Halt, Placed, TypeOK, Call, Order, Busy, Chasing, orderVars
<1>11. CASE Crash
  BY <1>11 DEF Crash, Placed, TypeOK, Call, Order, Busy, Chasing, orderVars
<1>12. CASE Restart
  BY <1>12 DEF Restart, Placed, TypeOK, Call, Order, Busy, Chasing, orderVars
<1>13. CASE Accepted
  BY <1>13 DEF Accepted, Placed, PostsNothingTwice, Busy, Chasing
<1>14. CASE Failed
  BY <1>14 DEF Failed, Mark, SendFails, Return, Placed, TypeOK, Call, Order, Busy, Chasing,
      orderVars
<1>15. CASE ResolveFinds
  BY <1>15 DEF ResolveFinds, Placed, OneCopy, TypeOK, Call, Order, Busy, Chasing
<1>16. CASE ResolveGivesUp
  BY <1>16 DEF ResolveGivesUp, Mark, SendFails, Return, Placed, TypeOK, Call, Order, Busy,
      Chasing, orderVars
<1>17. CASE Finish
  BY <1>17 DEF Finish, Return, Placed, TypeOK, Call, Order, Busy, Chasing, orderVars
<1>18. CASE Post
  BY <1>18 DEF Post, Placed, TypeOK, Call, Order, Busy, Chasing, orderVars
<1>19. CASE Cancel
  BY <1>19 DEF Cancel, AfterCancel, Placed, TypeOK, Call, Order, Busy, Chasing, orderVars
<1>20. ASSUME NEW c \in Coid, ChaseRest(c) PROVE Placed'
  BY <1>20 DEF ChaseRest, Record, Locals, Placed, TypeOK, Call, Order, Busy, Chasing, orderVars
<1>21. ASSUME NEW c \in Coid, Accept(c) PROVE Placed'
  BY <1>21 DEF Accept, Placed, TypeOK, Call, Order, Busy, Chasing, orderVars
<1>22. ASSUME NEW c \in Coid, Refuse(c) PROVE Placed'
  BY <1>22 DEF Refuse, Placed, TypeOK, Call, Order, Busy, Chasing, orderVars
<1>23. ASSUME NEW c \in Coid, Lose(c) PROVE Placed'
  BY <1>23 DEF Lose, Placed, TypeOK, Call, Order, Busy, Chasing, orderVars
<1>24. ASSUME NEW c \in Coid, Execute(c) PROVE Placed'
  BY <1>24 DEF Execute, Placed, TypeOK, Call, Order, Busy, Chasing, orderVars
<1>25. ASSUME NEW c \in Coid, Expire(c) PROVE Placed'
  BY <1>25 DEF Expire, Placed, TypeOK, Call, Order, Busy, Chasing, orderVars
<1>26. ASSUME NEW c \in Coid, NEW q \in Sizes, NEW why \in {Entry, Add, Close}, Start(c, q, why)
      PROVE  Placed'
  BY <1>26 DEF Start, Record, Locals, Placed, TypeOK, Call, Order, Busy, Chasing, orderVars
<1>27. CASE UNCHANGED vars
  BY <1>27 DEF vars, Placed, TypeOK, Call, Order, Busy, Chasing, orderVars
<1> QED
  BY <1>1, <1>2, <1>3, <1>4, <1>5, <1>6, <1>7, <1>8, <1>9, <1>10, <1>11, <1>12, <1>13, <1>14,
      <1>15, <1>16, <1>17, <1>18, <1>19, <1>20, <1>21, <1>22, <1>23, <1>24, <1>25, <1>26, <1>27
  DEF Next, ClientStep, EngineStep, Environment, StartEntry, StartAdd, StartClose, Entry, Add, Close

\* The journal knows the purpose of the order in flight.
LEMMA PurposeStep == Inv /\ [Next]_vars => Purpose'
<1> SUFFICES ASSUME Inv, [Next]_vars PROVE Purpose'
  OBVIOUS
<1> USE DEF Inv, Cur
<1>1. CASE StartManage
  BY <1>1 DEF StartManage, Purpose, TypeOK, Call, Intent, Busy, Chasing, orderVars
<1>2. CASE StartEntries
  BY <1>2 DEF StartEntries, Purpose, TypeOK, Call, Intent, Busy, Chasing, orderVars
<1>3. CASE SendAgain
  BY <1>3 DEF SendAgain, Purpose, TypeOK, Call, Intent, Busy, Chasing, orderVars
<1>4. CASE NoAnswer
  BY <1>4 DEF NoAnswer, Purpose, TypeOK, Call, Intent, Busy, Chasing, orderVars
<1>5. CASE ResolveMisses
  BY <1>5 DEF ResolveMisses, Purpose, TypeOK, Call, Intent, Busy, Chasing, orderVars
<1>6. CASE Poll
  BY <1>6 DEF Poll, Purpose, TypeOK, Call, Intent, Busy, Chasing, orderVars
<1>7. CASE WaitEnds
  BY <1>7 DEF WaitEnds, Purpose, TypeOK, Call, Intent, Busy, Chasing, orderVars
<1>8. CASE NothingToCancel
  BY <1>8 DEF NothingToCancel, Purpose, TypeOK, Call, Intent, Busy, Chasing, orderVars
<1>9. CASE CancelFails
  BY <1>9 DEF CancelFails, AfterCancel, Purpose, TypeOK, Call, Intent, Busy, Chasing, orderVars
<1>10. CASE Halt
  BY <1>10 DEF Halt, Purpose, TypeOK, Call, Intent, Busy, Chasing, orderVars
<1>11. CASE Crash
  BY <1>11 DEF Crash, Purpose, TypeOK, Call, Intent, Busy, Chasing, orderVars
<1>12. CASE Restart
  BY <1>12 DEF Restart, Purpose, TypeOK, Call, Intent, Busy, Chasing, orderVars
<1>13. CASE Accepted
  BY <1>13 DEF Accepted, Mark, Purpose, TypeOK, Call, Intent, Busy, Chasing, orderVars
<1>14. CASE Failed
  BY <1>14 DEF Failed, Mark, SendFails, Return, Purpose, TypeOK, Call, Intent, Busy, Chasing,
      orderVars
<1>15. CASE ResolveFinds
  BY <1>15 DEF ResolveFinds, Mark, Purpose, TypeOK, Call, Intent, Busy, Chasing, orderVars
<1>16. CASE ResolveGivesUp
  BY <1>16 DEF ResolveGivesUp, Mark, SendFails, Return, Purpose, TypeOK, Call, Intent, Busy,
      Chasing, orderVars
<1>17. CASE Finish
  BY <1>17 DEF Finish, Return, Purpose, TypeOK, Call, Intent, Busy, Chasing, orderVars
<1>18. CASE Post
  BY <1>18 DEF Post, Purpose, TypeOK, Call, Intent, Busy, Chasing, orderVars
<1>19. CASE Cancel
  BY <1>19 DEF Cancel, AfterCancel, Purpose, TypeOK, Call, Intent, Busy, Chasing, orderVars
<1>20. ASSUME NEW c \in Coid, ChaseRest(c) PROVE Purpose'
  <2>1. c # call.first
    BY <1>20 DEF ChaseRest, IsNew, Fresh, OneCopy, Placed, Quantities, TypeOK, Call, Order,
        Chasing, Busy
  <2>2. call'.coid = c /\ call'.first = call.first /\ pc' = "post"
    BY <1>20 DEF ChaseRest, Locals
  <2>3. book'[c].status = "intent" /\ book'[c].reason = Chase
    BY <1>20 DEF ChaseRest, Record, TypeOK
  <2> QED
    BY <2>1, <2>2, <2>3 DEF Purpose, Chasing
<1>21. ASSUME NEW c \in Coid, Accept(c) PROVE Purpose'
  BY <1>21 DEF Accept, Purpose, TypeOK, Call, Intent, Busy, Chasing, orderVars
<1>22. ASSUME NEW c \in Coid, Refuse(c) PROVE Purpose'
  BY <1>22 DEF Refuse, Purpose, TypeOK, Call, Intent, Busy, Chasing, orderVars
<1>23. ASSUME NEW c \in Coid, Lose(c) PROVE Purpose'
  BY <1>23 DEF Lose, Purpose, TypeOK, Call, Intent, Busy, Chasing, orderVars
<1>24. ASSUME NEW c \in Coid, Execute(c) PROVE Purpose'
  BY <1>24 DEF Execute, Purpose, TypeOK, Call, Intent, Busy, Chasing, orderVars
<1>25. ASSUME NEW c \in Coid, Expire(c) PROVE Purpose'
  BY <1>25 DEF Expire, Purpose, TypeOK, Call, Intent, Busy, Chasing, orderVars
<1>26. ASSUME NEW c \in Coid, NEW q \in Sizes, NEW why \in {Entry, Add, Close}, Start(c, q, why)
      PROVE  Purpose'
  BY <1>26 DEF Start, Record, Locals, Purpose, TypeOK, Call, Intent, Busy, Chasing, orderVars
<1>27. CASE UNCHANGED vars
  BY <1>27 DEF vars, Purpose, TypeOK, Call, Intent, Busy, Chasing, orderVars
<1> QED
  BY <1>1, <1>2, <1>3, <1>4, <1>5, <1>6, <1>7, <1>8, <1>9, <1>10, <1>11, <1>12, <1>13, <1>14,
      <1>15, <1>16, <1>17, <1>18, <1>19, <1>20, <1>21, <1>22, <1>23, <1>24, <1>25, <1>26, <1>27
  DEF Next, ClientStep, EngineStep, Environment, StartEntry, StartAdd, StartClose, Entry, Add, Close

\* A sent order is at the exchange.
LEMMA SentStep == Inv /\ [Next]_vars => SentIsAtTheExchange'
<1> SUFFICES ASSUME Inv, [Next]_vars PROVE SentIsAtTheExchange'
  OBVIOUS
<1> USE DEF Inv, Cur
<1>1. CASE UNCHANGED <<book, exchange>>
  BY <1>1 DEF SentIsAtTheExchange
<1>2. CASE Accepted
  <2>1. Cur \in Coid /\ exchange[Cur].copies > 0
    BY <1>2 DEF Accepted, PostsNothingTwice, TypeOK, Call
  <2>2. \A c \in Coid \ {Cur} : book'[c] = book[c]
    BY <1>2 DEF Accepted, Mark, TypeOK
  <2> QED
    BY <1>2, <2>1, <2>2 DEF Accepted, SentIsAtTheExchange
<1>3. CASE Failed
  BY <1>3 DEF Failed, Mark, SentIsAtTheExchange, TypeOK, Intent, Order
<1>4. CASE ResolveFinds
  <2>1. Cur \in Coid /\ exchange[Cur].copies > 0
    BY <1>4 DEF ResolveFinds, OneCopy, TypeOK, Call, Order
  <2>2. \A c \in Coid \ {Cur} : book'[c] = book[c]
    BY <1>4 DEF ResolveFinds, Mark, TypeOK
  <2> QED
    BY <1>4, <2>1, <2>2 DEF ResolveFinds, SentIsAtTheExchange
<1>5. CASE ResolveGivesUp
  BY <1>5 DEF ResolveGivesUp, Mark, SentIsAtTheExchange, TypeOK, Intent, Order
<1>6. CASE Finish
  <2>1. call.first \in Coid /\ exchange[call.first].copies > 0
    BY <1>6 DEF Finish, Placed, TypeOK, Call
  <2>2. \A c \in Coid \ {call.first} : book'[c] = book[c]
    BY <1>6 DEF Finish, TypeOK
  <2> QED
    BY <1>6, <2>1, <2>2 DEF Finish, SentIsAtTheExchange
<1>7. CASE Post
  BY <1>7 DEF Post, SentIsAtTheExchange, TypeOK, Intent, Order
<1>8. CASE Cancel
  BY <1>8 DEF Cancel, SentIsAtTheExchange, TypeOK, Intent, Order
<1>9. ASSUME NEW c \in Coid, ChaseRest(c) PROVE SentIsAtTheExchange'
  BY <1>9 DEF ChaseRest, Record, SentIsAtTheExchange, TypeOK, Intent, Order
<1>10. ASSUME NEW c \in Coid, Accept(c) PROVE SentIsAtTheExchange'
  BY <1>10 DEF Accept, SentIsAtTheExchange, TypeOK, Intent, Order
<1>11. ASSUME NEW c \in Coid, Refuse(c) PROVE SentIsAtTheExchange'
  BY <1>11 DEF Refuse, SentIsAtTheExchange, TypeOK, Intent, Order
<1>12. ASSUME NEW c \in Coid, Lose(c) PROVE SentIsAtTheExchange'
  BY <1>12 DEF Lose, SentIsAtTheExchange, TypeOK, Intent, Order
<1>13. ASSUME NEW c \in Coid, Execute(c) PROVE SentIsAtTheExchange'
  BY <1>13 DEF Execute, SentIsAtTheExchange, TypeOK, Intent, Order
<1>14. ASSUME NEW c \in Coid, Expire(c) PROVE SentIsAtTheExchange'
  BY <1>14 DEF Expire, SentIsAtTheExchange, TypeOK, Intent, Order
<1>15. ASSUME NEW c \in Coid, NEW q \in Sizes, NEW why \in {Entry, Add, Close}, Start(c, q, why)
      PROVE  SentIsAtTheExchange'
  BY <1>15 DEF Start, Record, SentIsAtTheExchange, TypeOK, Intent, Order
<1>16. CASE UNCHANGED vars
  BY <1>16 DEF SentIsAtTheExchange, vars
<1> QED
  BY <1>1, <1>2, <1>3, <1>4, <1>5, <1>6, <1>7, <1>8, <1>9, <1>10, <1>11, <1>12, <1>13, <1>14,
      <1>15, <1>16
  DEF Next, ClientStep, EngineStep, Environment, StartEntry, StartAdd, StartClose, Entry, Add,
      Close, StartManage, StartEntries, SendAgain, NoAnswer, ResolveMisses, Poll, WaitEnds,
      NothingToCancel, CancelFails, Halt, Crash, Restart, orderVars

\* Entries and closes halt.
LEMMA HaltsStep == Inv /\ [Next]_vars => HaltsWhenUnconfirmed'
<1> SUFFICES ASSUME Inv, [Next]_vars PROVE HaltsWhenUnconfirmed'
  OBVIOUS
<1> USE DEF Inv, Cur
<1>1. CASE StartManage
  BY <1>1 DEF StartManage, HaltsWhenUnconfirmed, Unconfirmed, TypeOK, Call, Order, Intent, Busy,
      Chasing, orderVars, Answer
<1>2. CASE StartEntries
  BY <1>2 DEF StartEntries, HaltsWhenUnconfirmed, Unconfirmed, TypeOK, Call, Order, Intent, Busy,
      Chasing, orderVars, Answer
<1>3. CASE SendAgain
  BY <1>3 DEF SendAgain, HaltsWhenUnconfirmed, Unconfirmed, TypeOK, Call, Order, Intent, Busy,
      Chasing, orderVars, Answer
<1>4. CASE NoAnswer
  BY <1>4 DEF NoAnswer, HaltsWhenUnconfirmed, Unconfirmed, TypeOK, Call, Order, Intent, Busy,
      Chasing, orderVars, Answer
<1>5. CASE ResolveMisses
  BY <1>5 DEF ResolveMisses, HaltsWhenUnconfirmed, Unconfirmed, TypeOK, Call, Order, Intent,
      Busy, Chasing, orderVars, Answer
<1>6. CASE Poll
  BY <1>6 DEF Poll, HaltsWhenUnconfirmed, Unconfirmed, TypeOK, Call, Order, Intent, Busy,
      Chasing, orderVars, Answer
<1>7. CASE WaitEnds
  BY <1>7 DEF WaitEnds, HaltsWhenUnconfirmed, Unconfirmed, TypeOK, Call, Order, Intent, Busy,
      Chasing, orderVars, Answer
<1>8. CASE NothingToCancel
  BY <1>8 DEF NothingToCancel, HaltsWhenUnconfirmed, Unconfirmed, TypeOK, Call, Order, Intent,
      Busy, Chasing, orderVars, Answer
<1>9. CASE CancelFails
  BY <1>9 DEF CancelFails, AfterCancel, HaltsWhenUnconfirmed, Unconfirmed, TypeOK, Call, Order,
      Intent, Busy, Chasing, orderVars, Answer
<1>10. CASE Halt
  <2>1. book[Cur].reason \in {Entry, Close} => call.reason # Add
    BY <1>10 DEF Halt, Purpose, Busy, Entry, Add, Close, Chase
  <2> QED
    BY <1>10, <2>1 DEF Halt, HaltsWhenUnconfirmed, Unconfirmed, orderVars
<1>11. CASE Crash
  BY <1>11 DEF Crash, HaltsWhenUnconfirmed, Unconfirmed, TypeOK, Call, Order, Intent, Busy,
      Chasing, orderVars, Answer
<1>12. CASE Restart
  BY <1>12 DEF Restart, HaltsWhenUnconfirmed, Unconfirmed, TypeOK, Call, Order, Intent, Busy,
      Chasing, orderVars, Answer
<1>13. CASE Accepted
  <2>1. \A c \in Coid : Unconfirmed(c)' => Unconfirmed(c) /\ book'[c].reason = book[c].reason
    BY <1>13 DEF Accepted, Mark, Unconfirmed, TypeOK, Call, Intent
  <2> QED
    BY <1>13, <2>1 DEF Accepted, HaltsWhenUnconfirmed
<1>14. CASE Failed
  <2>1. Cur \in Coid /\ book'[Cur].error = TRUE
    BY <1>14 DEF Failed, Mark, TypeOK, Call, Intent
  <2>2. \A c \in Coid \ {Cur} : book'[c] = book[c]
    BY <1>14 DEF Failed, Mark, TypeOK
  <2>3. pc # "halt" /\ halted' = halted /\ cut' = cut
    BY <1>14 DEF Failed
  <2> QED
    BY <2>1, <2>2, <2>3 DEF HaltsWhenUnconfirmed, Unconfirmed
<1>15. CASE ResolveFinds
  <2>1. \A c \in Coid : Unconfirmed(c)' => Unconfirmed(c) /\ book'[c].reason = book[c].reason
    BY <1>15 DEF ResolveFinds, Mark, Unconfirmed, TypeOK, Call, Intent
  <2> QED
    BY <1>15, <2>1 DEF ResolveFinds, HaltsWhenUnconfirmed
<1>16. CASE ResolveGivesUp
  <2>1. Cur \in Coid /\ book'[Cur].reason = book[Cur].reason
    BY <1>16 DEF ResolveGivesUp, Mark, TypeOK, Call, Intent
  <2>2. \A c \in Coid \ {Cur} : book'[c] = book[c]
    BY <1>16 DEF ResolveGivesUp, Mark, TypeOK
  <2>3. pc # "halt" /\ halted' = halted /\ cut' = cut
    BY <1>16 DEF ResolveGivesUp
  <2>4. book[Cur].reason \in {Entry, Close} => ~Chasing
    BY <1>16 DEF ResolveGivesUp, Purpose, Busy, Entry, Close, Chase
  <2>5. ~Chasing => pc' = "halt" /\ call' = call
    BY <1>16 DEF ResolveGivesUp, SendFails, Return
  <2> QED
    BY <2>1, <2>2, <2>3, <2>4, <2>5 DEF HaltsWhenUnconfirmed, Unconfirmed
<1>17. CASE Finish
  <2>1. call.first \in Coid /\ book'[call.first].status = "sent"
    BY <1>17 DEF Finish, TypeOK, Call, Intent
  <2>2. \A c \in Coid \ {call.first} : book'[c] = book[c]
    BY <1>17 DEF Finish, TypeOK
  <2>3. pc # "halt" /\ halted' = halted /\ cut' = cut
    BY <1>17 DEF Finish
  <2> QED
    BY <2>1, <2>2, <2>3 DEF HaltsWhenUnconfirmed, Unconfirmed
<1>18. CASE Post
  BY <1>18 DEF Post, HaltsWhenUnconfirmed, Unconfirmed, TypeOK, Call, Order, Intent, Busy,
      Chasing, orderVars, Answer
<1>19. CASE Cancel
  BY <1>19 DEF Cancel, AfterCancel, HaltsWhenUnconfirmed, Unconfirmed, TypeOK, Call, Order,
      Intent, Busy, Chasing, orderVars, Answer
<1>20. ASSUME NEW c \in Coid, ChaseRest(c) PROVE HaltsWhenUnconfirmed'
  <2>1. book'[c].status = "intent" /\ \A d \in Coid \ {c} : book'[d] = book[d]
    BY <1>20 DEF ChaseRest, Record, TypeOK
  <2> QED
    BY <1>20, <2>1 DEF ChaseRest, HaltsWhenUnconfirmed, Unconfirmed
<1>21. ASSUME NEW c \in Coid, Accept(c) PROVE HaltsWhenUnconfirmed'
  BY <1>21 DEF Accept, HaltsWhenUnconfirmed, Unconfirmed, TypeOK, Call, Order, Intent, Busy,
      Chasing, orderVars, Answer
<1>22. ASSUME NEW c \in Coid, Refuse(c) PROVE HaltsWhenUnconfirmed'
  BY <1>22 DEF Refuse, HaltsWhenUnconfirmed, Unconfirmed, TypeOK, Call, Order, Intent, Busy,
      Chasing, orderVars, Answer
<1>23. ASSUME NEW c \in Coid, Lose(c) PROVE HaltsWhenUnconfirmed'
  BY <1>23 DEF Lose, HaltsWhenUnconfirmed, Unconfirmed, TypeOK, Call, Order, Intent, Busy,
      Chasing, orderVars, Answer
<1>24. ASSUME NEW c \in Coid, Execute(c) PROVE HaltsWhenUnconfirmed'
  BY <1>24 DEF Execute, HaltsWhenUnconfirmed, Unconfirmed, TypeOK, Call, Order, Intent, Busy,
      Chasing, orderVars, Answer
<1>25. ASSUME NEW c \in Coid, Expire(c) PROVE HaltsWhenUnconfirmed'
  BY <1>25 DEF Expire, HaltsWhenUnconfirmed, Unconfirmed, TypeOK, Call, Order, Intent, Busy,
      Chasing, orderVars, Answer
<1>26. ASSUME NEW c \in Coid, NEW q \in Sizes, NEW why \in {Entry, Add, Close}, Start(c, q, why)
      PROVE  HaltsWhenUnconfirmed'
  <2>1. book'[c].status = "intent" /\ \A d \in Coid \ {c} : book'[d] = book[d]
    BY <1>26 DEF Start, Record, TypeOK
  <2> QED
    BY <1>26, <2>1 DEF Start, HaltsWhenUnconfirmed, Unconfirmed
<1>27. CASE UNCHANGED vars
  BY <1>27 DEF HaltsWhenUnconfirmed, Unconfirmed, vars
<1> QED
  BY <1>1, <1>2, <1>3, <1>4, <1>5, <1>6, <1>7, <1>8, <1>9, <1>10, <1>11, <1>12, <1>13, <1>14,
      <1>15, <1>16, <1>17, <1>18, <1>19, <1>20, <1>21, <1>22, <1>23, <1>24, <1>25, <1>26, <1>27
  DEF Next, ClientStep, EngineStep, Environment, StartEntry, StartAdd, StartClose, Entry, Add, Close

\* The invariant is inductive, and implies the properties below.
LEMMA InvHolds == Spec => []Inv
<1>1. Inv /\ [Next]_vars => Inv'
  BY TypeStep, OneCopyStep, PostsStep, QuantitiesStep, PlacedStep, PurposeStep, SentStep,
     HaltsStep DEF Inv
<1> QED
  BY InitInv, <1>1, PTL DEF Spec

(***************************************************************************)
(* Type correctness: quantities stay within the size of an order, and the  *)
(* tries and retries of a call within their limits, however many orders    *)
(* there are.                                                              *)
(***************************************************************************)
THEOREM TypeCorrect == Spec => []TypeOK
BY InvHolds, PTL DEF Inv

(***************************************************************************)
(* A journal row with an order id names an order the exchange took.        *)
(***************************************************************************)
THEOREM SentCorrect == Spec => []SentIsAtTheExchange
BY InvHolds, PTL DEF Inv

(***************************************************************************)
(* No entry and no close is left unconfirmed by a program that goes on     *)
(* trading.                                                                *)
(***************************************************************************)
THEOREM HaltsCorrect == Spec => []HaltsWhenUnconfirmed
BY InvHolds, PTL DEF Inv

\* A step journals an order, has it taken, or means nothing to OrderOnce.
LEMMA RefineStep == Inv /\ [Next]_vars => [Once!Next]_<<Promised, Made>>
<1> SUFFICES ASSUME Inv, [Next]_vars PROVE [Once!Next]_<<Promised, Made>>
  OBVIOUS
<1> USE DEF Inv, Cur
<1>1. CASE UNCHANGED <<book, exchange>>
  BY <1>1 DEF Promised, Made
<1>2. CASE Accepted
  <2>1. /\ Cur \in Coid /\ book[Cur].status # "none" /\ book'[Cur].status # "none"
        /\ \A d \in Coid \ {Cur} : book'[d] = book[d]
    BY <1>2 DEF Accepted, Mark, Purpose, Busy, TypeOK, Call, Intent
  <2>2. Promised' = Promised
    BY <2>1 DEF Promised
  <2> QED
    BY <1>2, <2>2 DEF Accepted, Made
<1>3. CASE Failed
  <2>1. /\ Cur \in Coid /\ book[Cur].status # "none" /\ book'[Cur].status # "none"
        /\ \A d \in Coid \ {Cur} : book'[d] = book[d]
    BY <1>3 DEF Failed, Mark, Purpose, Busy, TypeOK, Call, Intent
  <2>2. Promised' = Promised
    BY <2>1 DEF Promised
  <2> QED
    BY <1>3, <2>2 DEF Failed, Made
<1>4. CASE ResolveFinds
  <2>1. /\ Cur \in Coid /\ book[Cur].status # "none" /\ book'[Cur].status # "none"
        /\ \A d \in Coid \ {Cur} : book'[d] = book[d]
    BY <1>4 DEF ResolveFinds, Mark, Purpose, Busy, TypeOK, Call, Intent
  <2>2. Promised' = Promised
    BY <2>1 DEF Promised
  <2> QED
    BY <1>4, <2>2 DEF ResolveFinds, Made
<1>5. CASE ResolveGivesUp
  <2>1. /\ Cur \in Coid /\ book[Cur].status # "none" /\ book'[Cur].status # "none"
        /\ \A d \in Coid \ {Cur} : book'[d] = book[d]
    BY <1>5 DEF ResolveGivesUp, Mark, Purpose, Busy, TypeOK, Call, Intent
  <2>2. Promised' = Promised
    BY <2>1 DEF Promised
  <2> QED
    BY <1>5, <2>2 DEF ResolveGivesUp, Made
<1>6. CASE Finish
  <2>1. /\ call.first \in Coid /\ book[call.first].status # "none"
        /\ book'[call.first].status = "sent"
        /\ \A d \in Coid \ {call.first} : book'[d] = book[d]
    BY <1>6 DEF Finish, Placed, OneCopy, TypeOK, Call, Intent, Order
  <2>2. Promised' = Promised
    BY <2>1 DEF Promised
  <2> QED
    BY <1>6, <2>2 DEF Finish, Made
<1>7. CASE Post
  BY <1>7 DEF Post, Promised, Made
<1>8. CASE Cancel
  <2>1. \A d \in Coid : exchange'[d].copies = exchange[d].copies
    BY <1>8 DEF Cancel, TypeOK, Order
  <2>2. Made' = Made
    BY <2>1 DEF Made
  <2> QED
    BY <1>8, <2>2 DEF Cancel, Promised
<1>9. ASSUME NEW c \in Coid, ChaseRest(c) PROVE [Once!Next]_<<Promised, Made>>
  <2>1. book[c].status = "none" /\ book'[c].status = "intent" /\ \A d \in Coid \ {c} : book'[d] = book[d]
    BY <1>9 DEF ChaseRest, Record, IsNew, Fresh, TypeOK
  <2>2. Promised' = Promised \cup {c}
    BY <2>1 DEF Promised
  <2>3. Once!Promise(c)
    BY <1>9, <2>2 DEF ChaseRest, Made, Once!Promise
  <2> QED
    BY <2>3 DEF Once!Next
<1>10. ASSUME NEW c \in Coid, Accept(c) PROVE [Once!Next]_<<Promised, Made>>
  <2>1. exchange[c].copies = 0 /\ book[c].status # "none" /\ wire[c] = 1
    BY <1>10 DEF Accept, OneCopy, TypeOK, Order
  <2>2. exchange'[c].copies = 1 /\ \A d \in Coid \ {c} : exchange'[d] = exchange[d]
    BY <1>10, <2>1 DEF Accept, TypeOK
  <2>3. Made' = [Made EXCEPT ![c] = 1]
    BY <2>2 DEF Made
  <2>4. Once!Make(c)
    BY <1>10, <2>1, <2>3 DEF Accept, Promised, Made, Once!Make
  <2> QED
    BY <2>4 DEF Once!Next
<1>11. ASSUME NEW c \in Coid, Refuse(c) PROVE [Once!Next]_<<Promised, Made>>
  BY <1>11 DEF Refuse, Promised, Made
<1>12. ASSUME NEW c \in Coid, Lose(c) PROVE [Once!Next]_<<Promised, Made>>
  BY <1>12 DEF Lose, Promised, Made
<1>13. ASSUME NEW c \in Coid, Execute(c) PROVE [Once!Next]_<<Promised, Made>>
  <2>1. \A d \in Coid : exchange'[d].copies = exchange[d].copies
    BY <1>13 DEF Execute, TypeOK, Order
  <2>2. Made' = Made
    BY <2>1 DEF Made
  <2> QED
    BY <1>13, <2>2 DEF Execute, Promised
<1>14. ASSUME NEW c \in Coid, Expire(c) PROVE [Once!Next]_<<Promised, Made>>
  <2>1. \A d \in Coid : exchange'[d].copies = exchange[d].copies
    BY <1>14 DEF Expire, TypeOK, Order
  <2>2. Made' = Made
    BY <2>1 DEF Made
  <2> QED
    BY <1>14, <2>2 DEF Expire, Promised
<1>15. ASSUME NEW c \in Coid, NEW q \in Sizes, NEW why \in {Entry, Add, Close}, Start(c, q, why)
      PROVE  [Once!Next]_<<Promised, Made>>
  <2>1. book[c].status = "none" /\ book'[c].status = "intent" /\ \A d \in Coid \ {c} : book'[d] = book[d]
    BY <1>15 DEF Start, Record, IsNew, Fresh, TypeOK
  <2>2. Promised' = Promised \cup {c}
    BY <2>1 DEF Promised
  <2>3. Once!Promise(c)
    BY <1>15, <2>2 DEF Start, Made, Once!Promise
  <2> QED
    BY <2>3 DEF Once!Next
<1>16. CASE UNCHANGED vars
  BY <1>16 DEF vars, Promised, Made
<1> QED
  BY <1>1, <1>2, <1>3, <1>4, <1>5, <1>6, <1>7, <1>8, <1>9, <1>10, <1>11, <1>12, <1>13, <1>14,
      <1>15, <1>16
  DEF Next, ClientStep, EngineStep, Environment, StartEntry, StartAdd, StartClose, Entry, Add,
      Close, StartManage, StartEntries, SendAgain, NoAnswer, ResolveMisses, Poll, WaitEnds,
      NothingToCancel, CancelFails, Halt, Crash, Restart, orderVars

(***************************************************************************)
(* The order path implements OrderOnce: an order reaches the exchange at   *)
(* most once, and only after its intent was journalled.                    *)
(***************************************************************************)
THEOREM Implements == Spec => SendsOnce
<1>1. Init => Once!Init
  BY DEF Init, Once!Init, Promised, Made, NoIntent, NoOrder
<1>2. Inv /\ [Next]_vars => [Once!Next]_<<Promised, Made>>
  BY RefineStep
<1> QED
  BY InvHolds, <1>1, <1>2, PTL DEF Spec, SendsOnce, Once!Spec
------------------------------------------------------------------------------
\* What was filled

\* The orders whose result is still to be written.
Open == IF pc \in {"down", "idle", "halt"} THEN {} ELSE {call.coid, call.first}

\* Nothing is written of them yet, and what the thread has seen of them was filled.
Seen ==
    Open # {} =>
        /\ book[call.first].filled = 0
        /\ call.seen <= exchange[call.coid].filled
        /\ call.done <= IF Chasing THEN exchange[call.first].filled ELSE 0

\* The shares in the journal are covered by the orders that are over.
Recorded == [c \in Coid |-> book[c].filled]
Settled == [c \in Coid |-> IF c \in Open THEN 0 ELSE exchange[c].filled]
Covered == SumFunctionOnSet(Recorded, Coid) <= SumFunctionOnSet(Settled, Coid)

\* All of these are quantities.
Numbers ==
    /\ call.coid \in Coid /\ call.first \in Coid /\ call.seen \in Nat /\ call.done \in Nat
    /\ \A c \in Coid : /\ book[c].filled \in Nat /\ exchange[c].filled \in Nat
                       /\ Recorded[c] = book[c].filled
                       /\ Settled[c] = IF c \in Open THEN 0 ELSE exchange[c].filled
                       /\ Recorded[c] \in Int /\ Settled[c] \in Int

LEMMA FillTypes == TypeOK => Numbers
<1>1. Qty \subseteq Nat
  BY BoundsAssumption DEF Qty
<1> SUFFICES ASSUME TypeOK PROVE Numbers
  OBVIOUS
<1>2. call.coid \in Coid /\ call.first \in Coid /\ call.seen \in Nat /\ call.done \in Nat
  BY <1>1 DEF TypeOK, Call
<1>3. ASSUME NEW c \in Coid PROVE book[c].filled \in Nat /\ exchange[c].filled \in Nat
  BY <1>1 DEF TypeOK, Intent, Order
<1>4. ASSUME NEW c \in Coid
      PROVE  /\ Recorded[c] = book[c].filled
             /\ Settled[c] = IF c \in Open THEN 0 ELSE exchange[c].filled
  BY DEF Recorded, Settled
<1> QED
  BY <1>2, <1>3, <1>4 DEF Numbers

\* Orders that fill further, or whose call is over, keep the journal covered.
LEMMA CoveredKeeps ==
  ASSUME IsFiniteSet(Coid), TypeOK, TypeOK', Covered,
         \A c \in Coid : Recorded'[c] <= Recorded[c] /\ Settled[c] <= Settled'[c]
  PROVE  Covered'
<1>1. \A c \in Coid : /\ Recorded[c] \in Int /\ Recorded'[c] \in Int
                      /\ Settled[c] \in Int /\ Settled'[c] \in Int
  <2>1. TypeOK' => Numbers'
    BY FillTypes, PTL
  <2> QED
    BY <2>1, FillTypes DEF Numbers
<1>2. /\ SumFunctionOnSet(Recorded', Coid) <= SumFunctionOnSet(Recorded, Coid)
      /\ SumFunctionOnSet(Settled, Coid) <= SumFunctionOnSet(Settled', Coid)
  BY <1>1, SumMonotone
<1>3. /\ SumFunctionOnSet(Recorded', Coid) \in Int /\ SumFunctionOnSet(Recorded, Coid) \in Int
      /\ SumFunctionOnSet(Settled, Coid) \in Int /\ SumFunctionOnSet(Settled', Coid) \in Int
  BY <1>1, SumType
<1> QED
  BY <1>2, <1>3 DEF Covered

\* A step that starts no call and writes no result.
LEMMA FillsKeep ==
  ASSUME IsFiniteSet(Coid), TypeOK, TypeOK', Seen, Covered,
         \A c \in Coid : book'[c].filled = book[c].filled /\ exchange[c].filled <= exchange'[c].filled,
         Open' \subseteq Open,
         Open' # {} => /\ call'.coid = call.coid /\ call'.first = call.first
                       /\ call'.done = call.done /\ call'.seen <= exchange'[call.coid].filled
  PROVE  Seen' /\ Covered'
<1>1. Numbers /\ Numbers'
  <2>1. TypeOK' => Numbers'
    BY FillTypes, PTL
  <2> QED
    BY <2>1, FillTypes
<1>2. \A c \in Coid : Recorded'[c] <= Recorded[c] /\ Settled[c] <= Settled'[c]
  BY <1>1 DEF Numbers
<1>3. Covered'
  BY <1>2, CoveredKeeps
<1>4. Seen'
  <2>1. CASE Open' = {}
    BY <2>1 DEF Seen
  <2>2. CASE Open' # {}
    <3>1. Open # {}
      BY <2>2
    <3>2. book'[call.first].filled = 0 /\ exchange[call.first].filled <= exchange'[call.first].filled
      BY <1>1, <3>1 DEF Numbers, Seen
    <3>3. call.done <= IF Chasing THEN exchange'[call.first].filled ELSE 0
      BY <1>1, <3>1, <3>2 DEF Numbers, Seen
    <3> QED
      BY <2>2, <3>2, <3>3 DEF Seen, Chasing
  <2> QED
    BY <2>1, <2>2
<1> QED
  BY <1>3, <1>4

\* An order that begins has nothing filled, nor anything written of it.
LEMMA FillsBegin ==
  ASSUME IsFiniteSet(Coid), Inv, TypeOK', Seen, Covered, NEW c \in Coid, IsNew(c),
         NEW q, NEW why, Record(c, q, why), exchange' = exchange,
         Open' = Open \cup {c}, call'.coid = c, call'.seen = 0,
         call'.first = c => call'.done = 0,
         call'.first # c => /\ Open # {} /\ call'.first = call.first
                            /\ call'.done <= exchange[call.first].filled
  PROVE  Seen' /\ Covered'
<1>1. Numbers /\ Numbers'
  <2>1. TypeOK' => Numbers'
    BY FillTypes, PTL
  <2> QED
    BY <2>1, FillTypes DEF Inv
<1>2. exchange[c].filled = 0
  BY DEF IsNew, Fresh, Inv, OneCopy
<1>3. book'[c].filled = 0 /\ \A d \in Coid \ {c} : book'[d].filled = book[d].filled
  BY DEF Record, Inv, TypeOK
<1>4. \A d \in Coid : Recorded'[d] <= Recorded[d] /\ Settled[d] <= Settled'[d]
  BY <1>1, <1>2, <1>3 DEF Numbers
<1>5. Covered'
  BY <1>4, CoveredKeeps DEF Inv
<1>6. Seen'
  BY <1>1, <1>2, <1>3 DEF Numbers, Seen, Chasing
<1> QED
  BY <1>5, <1>6

\* The result is what the two orders of a call were seen to fill.
LEMMA FillsEnd ==
  ASSUME IsFiniteSet(Coid), TypeOK, TypeOK', Seen, Covered, Finish
  PROVE  Seen' /\ Covered'
<1> DEFINE total == call.done + call.seen
<1>1. Numbers /\ Numbers'
  <2>1. TypeOK' => Numbers'
    BY FillTypes, PTL
  <2> QED
    BY <2>1, FillTypes
<1>2. Open = {call.coid, call.first} /\ Open' = {} /\ exchange' = exchange
  BY DEF Finish, Return, Open
<1>3. Seen'
  BY <1>2 DEF Seen
<1>4. total \in Int /\ total = 0 + total
  BY <1>1 DEF Numbers
<1>5. Recorded'[call.first] = Recorded[call.first] + total
  <2>1. book'[call.first].filled = total
    BY <1>1 DEF Finish, TypeOK, Numbers
  <2>2. book[call.first].filled = 0
    BY <1>2 DEF Seen
  <2> HIDE DEF total
  <2> QED
    BY <1>1, <1>4, <2>1, <2>2 DEF Numbers
<1>6. \A c \in Coid \ {call.first} : Recorded'[c] = Recorded[c]
  <2>1. \A c \in Coid \ {call.first} : book'[c] = book[c]
    BY <1>1 DEF Finish, TypeOK, Numbers
  <2> QED
    BY <1>1, <2>1 DEF Numbers
<1>7. SumFunctionOnSet(Recorded', Coid) = SumFunctionOnSet(Recorded, Coid) + total
  <2> HIDE DEF total
  <2> QED
    BY <1>1, <1>4, <1>5, <1>6, SumRaise DEF Numbers
\* What is settled grows by what both orders filled.
<1> DEFINE first == exchange[call.first].filled
           chased == IF Chasing THEN exchange[call.coid].filled ELSE 0
           between == [Settled EXCEPT ![call.first] = first]
<1>8. first \in Int /\ chased \in Int /\ total <= first + chased
  BY <1>1, <1>2 DEF Numbers, Seen, Chasing
<1>9. SumFunctionOnSet(between, Coid) = SumFunctionOnSet(Settled, Coid) + first
  <2>1. Settled[call.first] = 0 /\ between[call.first] = first
        /\ \A c \in Coid \ {call.first} : between[c] = Settled[c]
    BY <1>1, <1>2 DEF Numbers, Settled
  <2>2. between[call.first] = Settled[call.first] + first
    BY <1>8, <2>1
  <2>3. call.first \in Coid /\ first \in Int
    BY <1>1, <1>8 DEF Numbers
  <2>4. \A c \in Coid : Settled[c] \in Int
    BY <1>1 DEF Numbers
  <2>5. \A c \in Coid \ {call.first} : between[c] = Settled[c]
    BY <2>1
  <2> HIDE DEF between, first, total, chased
  <2> QED
    BY <2>2, <2>3, <2>4, <2>5, SumRaise
<1>10. SumFunctionOnSet(Settled', Coid) = SumFunctionOnSet(between, Coid) + chased
  <2>1. \A c \in Coid : between[c] \in Int
    BY <1>1, <1>8 DEF Numbers, Settled
  <2>2. \A c \in Coid \ {call.coid} : Settled'[c] = between[c]
    BY <1>1, <1>2 DEF Numbers, Settled
  <2>3. Settled'[call.coid] = between[call.coid] + chased
    BY <1>1, <1>2 DEF Numbers, Settled, Chasing
  <2>4. call.coid \in Coid
    BY <1>1 DEF Numbers
  <2> HIDE DEF between, chased
  <2> QED
    BY <1>8, <2>1, <2>2, <2>3, <2>4, SumRaise
<1>11. SumFunctionOnSet(Recorded, Coid) \in Int /\ SumFunctionOnSet(Settled, Coid) \in Int
  BY <1>1, SumType DEF Numbers
<1>12. Covered'
  <2> HIDE DEF total, first, chased, between
  <2> QED
    BY <1>4, <1>7, <1>8, <1>9, <1>10, <1>11 DEF Covered
<1> QED
  BY <1>3, <1>12

\* Every step keeps the journal covered.
LEMMA FillsStep ==
  ASSUME IsFiniteSet(Coid), Inv, TypeOK', Seen, Covered, [Next]_vars
  PROVE  Seen' /\ Covered'
<1>1. Numbers /\ TypeOK
  BY FillTypes DEF Inv
\* The journal and the exchange as they were, and no more of the call.
<1>2. ASSUME UNCHANGED <<book, exchange>>, Open' \subseteq Open,
             Open' # {} => /\ call'.coid = call.coid /\ call'.first = call.first
                           /\ call'.done = call.done /\ call'.seen = call.seen
      PROVE  Seen' /\ Covered'
  <2>1. Open' # {} => call'.seen <= exchange'[call.coid].filled
    BY <1>2 DEF Seen
  <2>2. \A c \in Coid : book'[c].filled = book[c].filled /\ exchange[c].filled <= exchange'[c].filled
    BY <1>1, <1>2 DEF Numbers
  <2> QED
    BY <1>1, <1>2, <2>1, <2>2, FillsKeep
\* A row of the journal with another status.
<1>3. ASSUME NEW status, NEW error, Mark(call.coid, status, error), exchange' = exchange,
             Open' \subseteq Open, Open' # {} => call' = call
      PROVE  Seen' /\ Covered'
  <2>1. Open' # {} => call'.seen <= exchange'[call.coid].filled
    BY <1>3 DEF Seen
  <2>2. \A c \in Coid : book'[c].filled = book[c].filled /\ exchange[c].filled <= exchange'[c].filled
    BY <1>1, <1>3 DEF Numbers, Mark, TypeOK, Intent
  <2> QED
    BY <1>1, <1>3, <2>1, <2>2, FillsKeep
\* An order at the exchange goes on.
<1>4. ASSUME UNCHANGED book, Open' = Open, call' = call,
             \A c \in Coid : exchange[c].filled <= exchange'[c].filled
      PROVE  Seen' /\ Covered'
  <2>1. Open' # {} => call'.seen <= exchange'[call.coid].filled
    <3>1. Numbers'
      BY FillTypes, PTL
    <3> QED
      BY <1>1, <1>4, <3>1 DEF Seen, Numbers
  <2>2. \A c \in Coid : book'[c].filled = book[c].filled /\ exchange[c].filled <= exchange'[c].filled
    BY <1>1, <1>4 DEF Numbers
  <2> QED
    BY <1>1, <1>4, <2>1, <2>2, FillsKeep
<1>5. CASE SendAgain
  BY <1>1, <1>2, <1>5 DEF SendAgain, Open, TypeOK, Call
<1>6. CASE ResolveMisses
  BY <1>1, <1>2, <1>6 DEF ResolveMisses, orderVars, Open, TypeOK, Call
<1>7. CASE Poll
  <2>1. /\ call'.seen = exchange[call.coid].filled /\ call'.coid = call.coid
        /\ call'.first = call.first /\ call'.done = call.done
        /\ Open' = Open /\ UNCHANGED <<book, exchange>>
    BY <1>1, <1>7 DEF Poll, orderVars, Open, TypeOK, Call, Cur
  <2>2. /\ \A c \in Coid : book'[c].filled = book[c].filled /\ exchange[c].filled <= exchange'[c].filled
        /\ call'.seen <= exchange'[call.coid].filled
    BY <1>1, <2>1 DEF Numbers
  <2> QED
    BY <1>1, <2>1, <2>2, FillsKeep
<1>8. CASE Accepted
  BY <1>3, <1>8 DEF Accepted, Open, Cur
<1>9. CASE Failed
  BY <1>3, <1>9 DEF Failed, SendFails, Return, Open, Cur
<1>10. CASE ResolveFinds
  BY <1>3, <1>10 DEF ResolveFinds, Open, Cur
<1>11. CASE ResolveGivesUp
  BY <1>3, <1>11 DEF ResolveGivesUp, SendFails, Return, Open, Cur
<1>12. CASE Cancel
  <2>1. \A c \in Coid : exchange[c].filled <= exchange'[c].filled
    BY <1>1, <1>12 DEF Cancel, Numbers, TypeOK, Order
  <2> QED
    BY <1>4, <1>12, <2>1 DEF Cancel, AfterCancel, Open
<1>13. ASSUME NEW c \in Coid, Accept(c) PROVE Seen' /\ Covered'
  <2>1. \A d \in Coid : exchange[d].filled <= exchange'[d].filled
    BY <1>1, <1>13 DEF Accept, Numbers, TypeOK, Order
  <2> QED
    BY <1>4, <1>13, <2>1 DEF Accept, Open
<1>14. ASSUME NEW c \in Coid, Execute(c) PROVE Seen' /\ Covered'
  <2>1. PICK n \in (exchange[c].filled + 1) .. book[c].qty :
           exchange' = [exchange EXCEPT ![c] = [copies |-> @.copies,
                          status |-> IF n = book[c].qty THEN "filled" ELSE "open", filled |-> n]]
    BY <1>14 DEF Execute
  <2>2. \A d \in Coid : exchange[d].filled <= exchange'[d].filled
    BY <1>1, <2>1 DEF Numbers, TypeOK
  <2> QED
    BY <1>4, <1>14, <2>2 DEF Execute, Open
<1>15. ASSUME NEW c \in Coid, Expire(c) PROVE Seen' /\ Covered'
  <2>1. \A d \in Coid : exchange[d].filled <= exchange'[d].filled
    BY <1>1, <1>15 DEF Expire, Numbers, TypeOK, Order
  <2> QED
    BY <1>4, <1>15, <2>1 DEF Expire, Open
<1>16. ASSUME NEW c \in Coid, NEW q \in Sizes, NEW why \in {Entry, Add, Close}, Start(c, q, why)
       PROVE  Seen' /\ Covered'
  <2>1. /\ Open' = Open \cup {c} /\ call'.coid = c /\ call'.first = c
        /\ call'.seen = 0 /\ call'.done = 0
    BY <1>16 DEF Start, Locals, Open
  <2> QED
    BY <1>16, <2>1, FillsBegin DEF Start
<1>17. ASSUME NEW c \in Coid, ChaseRest(c) PROVE Seen' /\ Covered'
  <2>1. /\ call'.coid = c /\ call'.first = call.first
        /\ call'.seen = 0 /\ call'.done = call.seen
        /\ Open = {call.coid, call.first} /\ Open' = {c, call.first}
    BY <1>17 DEF ChaseRest, Locals, Open
  <2>2. call.coid = call.first /\ call.seen <= exchange[call.first].filled
    BY <1>17, <2>1 DEF ChaseRest, Inv, Quantities, Chasing, Seen
  <2>3. call.first # c
    BY <1>1, <1>17, <2>2 DEF ChaseRest, IsNew, Fresh, Inv, OneCopy, Placed, Cur, Numbers
  <2> QED
    BY <1>17, <2>1, <2>2, <2>3, FillsBegin DEF ChaseRest
<1>18. CASE Finish
  BY <1>1, <1>18, FillsEnd
<1>19. CASE Post \/ NoAnswer \/ WaitEnds \/ NothingToCancel \/ CancelFails
  BY <1>2, <1>19
  DEF Post, NoAnswer, WaitEnds, NothingToCancel, CancelFails, AfterCancel, orderVars, Open
<1>20. CASE Halt \/ Crash \/ Restart \/ StartManage \/ StartEntries \/ UNCHANGED vars
  BY <1>2, <1>20 DEF Halt, Crash, Restart, StartManage, StartEntries, vars, orderVars, Open
<1>21. ASSUME NEW c \in Coid, Refuse(c) \/ Lose(c) PROVE Seen' /\ Covered'
  BY <1>2, <1>21 DEF Refuse, Lose, Open
<1> QED
  BY <1>5, <1>6, <1>7, <1>8, <1>9, <1>10, <1>11, <1>12, <1>13, <1>14, <1>15, <1>16, <1>17, <1>18,
     <1>19, <1>20, <1>21
  DEF Next, ClientStep, EngineStep, Environment, StartEntry, StartAdd, StartClose, Entry, Add, Close

(***************************************************************************)
(* buy, sell and _wait_fill: over all orders the journal shows no more     *)
(* shares than were executed, whatever crashes, is chased or fills late.   *)
(***************************************************************************)
THEOREM FillsCorrect == ASSUME IsFiniteSet(Coid) PROVE Spec => []BookNeverOverstates
<1>1. Init => Seen /\ Covered
  <2> SUFFICES ASSUME Init PROVE Seen /\ Covered
    OBVIOUS
  <2>1. Open = {} /\ Recorded = Settled
    BY DEF Init, Open, Recorded, Settled, NoIntent, NoOrder
  <2>2. SumFunctionOnSet(Settled, Coid) \in Int
    BY InitInv, FillTypes, SumType DEF Inv, Numbers
  <2> QED
    BY <2>1, <2>2 DEF Seen, Covered
<1>2. Inv /\ TypeOK' /\ Seen /\ Covered /\ [Next]_vars => Seen' /\ Covered'
  BY FillsStep
<1>3. TypeOK /\ Covered => BookNeverOverstates
  <2> SUFFICES ASSUME TypeOK, Covered PROVE BookNeverOverstates
    OBVIOUS
  <2> DEFINE executed == [c \in Coid |-> exchange[c].filled]
  <2>1. Numbers
    BY FillTypes
  <2>2. \A c \in Coid : /\ Settled[c] \in Int /\ Recorded[c] \in Int /\ executed[c] \in Int
                        /\ Settled[c] <= executed[c]
    BY <2>1 DEF Numbers
  <2>3. SumFunction(Recorded) = SumFunctionOnSet(Recorded, Coid)
    BY DEF SumFunction, Recorded
  <2>4. SumFunction(executed) = SumFunctionOnSet(executed, Coid)
    BY DEF SumFunction
  <2>5. BookNeverOverstates <=> SumFunction(Recorded) <= SumFunction(executed)
    BY DEF BookNeverOverstates, Recorded
  <2> HIDE DEF executed
  <2>6. SumFunctionOnSet(Settled, Coid) <= SumFunctionOnSet(executed, Coid)
    BY <2>2, SumMonotone
  <2>7. /\ SumFunctionOnSet(Settled, Coid) \in Int /\ SumFunctionOnSet(Recorded, Coid) \in Int
        /\ SumFunctionOnSet(executed, Coid) \in Int
    BY <2>2, SumType
  <2> QED
    BY <2>3, <2>4, <2>5, <2>6, <2>7 DEF Covered
<1> QED
  BY <1>1, <1>2, <1>3, InvHolds, TypeCorrect, PTL DEF Spec
==============================================================================
