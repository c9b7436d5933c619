------------------------------ MODULE OrderOnce ------------------------------
(***************************************************************************)
(* What the order journal of daytrader/orders.py promises, seen from       *)
(* outside: an order reaches the exchange only after its intent has been   *)
(* written down, and each intent reaches it at most once.  How the client  *)
(* gets there (timeouts, queries, retries of refused requests, crashes)    *)
(* is the business of LiveOrders, which implements this specification.     *)
(***************************************************************************)
EXTENDS Naturals

CONSTANT Coid          \* client order identifiers (uuid4 in the code)

VARIABLES promised,    \* the intents written to the journal
          made         \* how many orders the exchange took for each intent

Init ==
    /\ promised = {}
    /\ made = [c \in Coid |-> 0]

Promise(c) ==
    /\ promised' = promised \cup {c}
    /\ UNCHANGED made

Make(c) ==
    /\ c \in promised
    /\ made[c] = 0
    /\ made' = [made EXCEPT ![c] = 1]
    /\ UNCHANGED promised

Next == \E c \in Coid : Promise(c) \/ Make(c)

Spec == Init /\ [][Next]_<<promised, made>>
==============================================================================
