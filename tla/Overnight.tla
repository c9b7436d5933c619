------------------------------ MODULE Overnight ------------------------------
(***************************************************************************)
(* The close of the day and the night: which positions the live engine     *)
(* sells after the close, which it carries to the next day (at most one    *)
(* night), and what becomes of their stop orders (OCO), which the server   *)
(* forgets at midnight.  From daytrader/engine.py: run, _settle_overnight, *)
(* _try_carry_overnight, _retry_close_pending, _rollover_if_new_day,       *)
(* _rearm_carried_oco; the phases are those of session.py.                 *)
(*                                                                         *)
(* A close (_close_position) is one step here; Holdings has its inside.    *)
(***************************************************************************)
EXTENDS Integers, FiniteSets

CONSTANTS
    Symbol,
    LastDay,   \* bound: the days of a behaviour
    Closed,    \* the days without a session: weekends and holidays
    MaxCrash   \* bound: how often the process dies

ASSUME CalendarAssumption ==
    /\ LastDay \in Nat \ {0}
    /\ Closed \subseteq 2 .. LastDay
    /\ MaxCrash \in Nat

Day == 1 .. LastDay
Never == 0
None == 0
OcoId == {1, 2}    \* a new order gets the number the one before it did not have

VARIABLES
    day, phase,  \* the clock, and session.phase: "night" is after 21:00
    raise,       \* exit.overnight_breakeven_stop and use_conditional_oco
    pc,          \* what run() does next
    todo,        \* the positions of the loop it is in
    pos,         \* state.positions
    saved,       \* the positions in daily_state.json
    server,      \* per symbol, the newest conditional order at the server
    session,     \* _session_date
    settled,     \* _overnight_settled_date
    deadline,    \* _force_close_deadline
    told,        \* the journal or an alert asks the user to look at the symbol
    left,        \* history: symbols whose OCO was left alone since midnight
    crashes

clock == <<day, phase>>
memory == <<session, settled, deadline>>
vars == <<clock, raise, pc, todo, pos, saved, server, memory, told, left,
          crashes>>

Position == [held : BOOLEAN, carry : Day \cup {Never}, oco : OcoId \cup {None}]
Order == [id : OcoId, status : {"none", "open", "sold"}]

TypeOK ==
    /\ day \in Day
    /\ phase \in {"dawn", "day", "after", "night", "closed"}
    /\ raise \in BOOLEAN
    /\ pc \in {"loop", "settle", "retry", "rearm", "ended", "down"}
    /\ todo \subseteq Symbol
    /\ pos \in [Symbol -> Position] /\ saved \in [Symbol -> Position]
    /\ server \in [Symbol -> Order]
    /\ session \in Day
    /\ settled \in Day \cup {Never}
    /\ deadline \in {"none", "set", "past"}
    /\ told \subseteq Symbol /\ left \subseteq Symbol
    /\ crashes \in 0 .. MaxCrash

------------------------------------------------------------------------------
\* Helpers

Flat == [held |-> FALSE, carry |-> Never, oco |-> None]

Held == {s \in Symbol : pos[s].held}
Carried == {s \in Held : pos[s].carry # Never}
Pending == Held \ Carried

Live == phase \in {"day", "after"}
Closing == phase \in {"after", "night"}

\* The order p names is still at the server.
Names(p, order) == p.oco = order.id

\* place_oco: the server holds a new order and p names it.
Placed(p, order) ==
    LET new == 3 - order.id
    IN [p     |-> [p EXCEPT !.oco = new],
        order |-> [id |-> new, status |-> "open"]]

\* place_oco returned None.
NotPlaced(p, order) == [p |-> [p EXCEPT !.oco = None], order |-> order]

Gone(order) == IF order.status = "open" THEN [order EXCEPT !.status = "none"] ELSE order

\* cancel_oco returns True.
CanCancel(p, order) == Names(p, order) /\ order.status = "open"

(* What _close_position may come to.  save: it reached its state.save().
   tell: it wrote "청산 실패" to the journal. *)
Outcome(p, order, save, tell) == [p |-> p, order |-> order, save |-> save, tell |-> tell]

\* The OCO is out of the way and sell() filled all, nothing, or a part.
SellOutcomes(p, order) ==
    {Outcome(Flat, order, TRUE, FALSE), Outcome(p, order, FALSE, TRUE)}
      \cup {Outcome(o.p, o.order, TRUE, FALSE) :
               o \in {Placed(p, order), NotPlaced(p, order)}}

\* cancel_oco is False: oco_is_open says True (or could not ask), or says False,
\* which is booked as a sale by the server.
StuckOutcomes(p, order) ==
    {Outcome(p, o, FALSE, FALSE) : o \in {order, Gone(order)}}
      \cup (IF CanCancel(p, order)
            THEN {Outcome(Flat, Gone(order), TRUE, FALSE)}
            ELSE {Outcome(Flat, order, TRUE, FALSE)})

CloseOutcomes(p, order) ==
    IF p.oco = None THEN SellOutcomes(p, order)
    ELSE StuckOutcomes(p, order)
           \cup (IF CanCancel(p, order) THEN SellOutcomes(p, Gone(order)) ELSE {})

(* _try_carry_overnight is False: the OCO was not cancelled, or it was and the
   new one was not placed. *)
CarryFailures(p, order) ==
    (IF p.oco = None THEN {} ELSE {[p |-> p, order |-> order]})
      \cup (IF p.oco = None \/ CanCancel(p, order)
            THEN {NotPlaced(p, Gone(order))} ELSE {})

\* _settle_overnight sells: the position was carried before, the switch is off,
\* a break follows, the profit is too small - or carrying it failed.
SettleOutcomes(p, order) ==
    CloseOutcomes(p, order)
      \cup (IF raise /\ p.carry = Never
            THEN UNION {CloseOutcomes(f.p, f.order) : f \in CarryFailures(p, order)}
            ELSE {})

\* _close_position ends with outcome o for symbol s.
Close(s, o) ==
    /\ pos' = [pos EXCEPT ![s] = o.p]
    /\ server' = [server EXCEPT ![s] = o.order]
    /\ saved' = IF o.save THEN pos' ELSE saved
    /\ told' = IF ~o.p.held THEN told \ {s} ELSE IF o.tell THEN told \cup {s} ELSE told

Init ==
    /\ day = 1 /\ phase = "day"
    /\ raise \in BOOLEAN
    /\ pc = "loop" /\ todo = {}
    /\ pos = [s \in Symbol |-> Flat] /\ saved = pos
    /\ server = [s \in Symbol |-> [id |-> 1, status |-> "none"]]
    /\ session = 1 /\ settled = Never /\ deadline = "none"
    /\ told = {} /\ left = {}
    /\ crashes = 0

------------------------------------------------------------------------------
\* After the close

\* run(): the first time it sees the phase "after" with positions.
BeginSettle ==
    /\ pc = "loop" /\ session = day
    /\ Closing
    /\ Held # {}
    /\ settled # day
    /\ pc' = "settle" /\ todo' = Held
    /\ UNCHANGED <<clock, raise, pos, saved, server, memory, told, left, crashes>>

\* Mutated Carry: a position that was carried before is carried again.
CarryAgain(s) ==
    /\ pc = "settle"
    /\ s \in todo
    /\ pos' = [pos EXCEPT ![s].carry = day]
    /\ todo' = todo \ {s}
    /\ UNCHANGED <<clock, raise, pc, saved, server, memory, told, left, crashes>>

\* The position is carried: its stop goes up to the price paid, in a new order.
Carry(s) ==
    /\ pc = "settle"
    /\ s \in todo
    /\ pos[s].carry = Never
    /\ LET carried == [pos[s] EXCEPT !.carry = day] IN
         \/ /\ ~raise
            /\ pos' = [pos EXCEPT ![s] = carried]
            /\ UNCHANGED server
         \/ /\ raise
            /\ pos[s].oco = None \/ CanCancel(pos[s], server[s])
            /\ LET new == Placed(carried, server[s]) IN
                 /\ pos' = [pos EXCEPT ![s] = new.p]
                 /\ server' = [server EXCEPT ![s] = new.order]
    /\ todo' = todo \ {s}
    /\ UNCHANGED <<clock, raise, pc, saved, memory, told, left, crashes>>

\* ... or sold.
Settle(s) ==
    /\ pc = "settle"
    /\ s \in todo
    /\ \E o \in SettleOutcomes(pos[s], server[s]) : Close(s, o)
    /\ todo' = todo \ {s}
    /\ UNCHANGED <<clock, raise, pc, memory, left, crashes>>

\* Mutated EndSettle: only a close saves the positions.
EndSettleUnsaved ==
    /\ pc = "settle"
    /\ todo = {}
    /\ settled' = day
    /\ pc' = "loop"
    /\ UNCHANGED <<clock, raise, todo, pos, saved, server, session, deadline, told, left,
                   crashes>>

EndSettle ==
    /\ pc = "settle"
    /\ todo = {}
    /\ saved' = pos
    /\ settled' = day
    /\ pc' = "loop"
    /\ UNCHANGED <<clock, raise, todo, pos, server, session, deadline, told, left, crashes>>

\* Positions that should have been sold are left.
Unsold ==
    /\ pc = "loop" /\ session = day
    /\ Closing
    /\ settled = day
    /\ Pending # {}

\* Mutated BeginRetry: every loop grants the whole time again.
BeginRetryAnew ==
    /\ Unsold
    /\ deadline' = "set"
    /\ pc' = "retry" /\ todo' = Pending
    /\ UNCHANGED <<clock, raise, pos, saved, server, session, settled, told, left, crashes>>

\* _retry_close_pending, until the deadline.
BeginRetry ==
    /\ Unsold
    /\ deadline # "past"
    /\ deadline' = "set"
    /\ pc' = "retry" /\ todo' = Pending
    /\ UNCHANGED <<clock, raise, pos, saved, server, session, settled, told, left, crashes>>

Retry(s) ==
    /\ pc = "retry"
    /\ s \in todo
    /\ \E o \in CloseOutcomes(pos[s], server[s]) : Close(s, o)
    /\ todo' = todo \ {s}
    /\ UNCHANGED <<clock, raise, pc, memory, left, crashes>>

EndRetry ==
    /\ pc = "retry"
    /\ todo = {}
    /\ pc' = "loop"
    /\ UNCHANGED <<clock, raise, todo, pos, saved, server, memory, told, left, crashes>>

\* force_close_deadline_min have passed.
DeadlinePasses ==
    /\ deadline = "set"
    /\ pc \notin {"ended", "down"}
    /\ deadline' = "past"
    /\ UNCHANGED <<clock, raise, pc, todo, pos, saved, server, session, settled, told,
                   left, crashes>>

\* _halt names the positions, and run() ends.
GiveUp ==
    /\ Unsold
    /\ deadline = "past"
    /\ told' = told \cup Pending
    /\ pc' = "ended"
    /\ UNCHANGED <<clock, raise, todo, pos, saved, server, memory, left, crashes>>

------------------------------------------------------------------------------
\* Midnight

\* _rollover_if_new_day.
Rollover ==
    /\ pc = "loop"
    /\ session # day
    /\ session' = day
    /\ settled' = Never /\ deadline' = "none"
    /\ pc' = "rearm" /\ todo' = Carried
    /\ told' = {}
    /\ UNCHANGED <<clock, raise, pos, saved, server, left, crashes>>

\* Mutated Rearm: it does not say that the order could not be placed.
RearmQuietly(s) ==
    /\ pc = "rearm"
    /\ s \in todo
    /\ \E new \in {Placed(pos[s], server[s]), NotPlaced(pos[s], Gone(server[s]))} :
         /\ pos' = [pos EXCEPT ![s] = new.p]
         /\ server' = [server EXCEPT ![s] = new.order]
    /\ todo' = todo \ {s}
    /\ UNCHANGED <<clock, raise, pc, saved, memory, told, left, crashes>>

\* _rearm_carried_oco: the order expired at midnight and a new one is placed.
Rearm(s) ==
    /\ pc = "rearm"
    /\ s \in todo
    /\ \E new \in {Placed(pos[s], server[s]), NotPlaced(pos[s], Gone(server[s]))} :
         /\ pos' = [pos EXCEPT ![s] = new.p]
         /\ server' = [server EXCEPT ![s] = new.order]
         /\ told' = IF new.p.oco = None THEN told \cup {s} ELSE told
    /\ todo' = todo \ {s}
    /\ UNCHANGED <<clock, raise, pc, saved, memory, left, crashes>>

\* cancel_oco is False and oco_is_open cannot ask, which counts as open: it is
\* left as it is.
SkipRearm(s) ==
    /\ pc = "rearm"
    /\ s \in todo
    /\ pos[s].oco # None
    /\ left' = left \cup {s}
    /\ todo' = todo \ {s}
    /\ UNCHANGED <<clock, raise, pc, pos, saved, server, memory, told, crashes>>

EndRearm ==
    /\ pc = "rearm"
    /\ todo = {}
    /\ saved' = pos
    /\ pc' = "loop"
    /\ UNCHANGED <<clock, raise, todo, pos, server, memory, told, left, crashes>>

------------------------------------------------------------------------------
\* The session: run() goes on to manage_positions unless positions are unsold.

Manages ==
    /\ pc = "loop" /\ session = day
    /\ Live
    /\ Closing /\ Held # {} => settled = day /\ Pending = {}

\* try_entries, in the phase "scan" only; the OCO is placed or not.
Open(s) ==
    /\ Manages
    /\ phase = "day"
    /\ s \notin Held
    /\ LET bought == [Flat EXCEPT !.held = TRUE] IN
         \E new \in {Placed(bought, server[s]), NotPlaced(bought, server[s])} :
           /\ pos' = [pos EXCEPT ![s] = new.p]
           /\ server' = [server EXCEPT ![s] = new.order]
    /\ saved' = pos'
    /\ UNCHANGED <<clock, raise, pc, todo, memory, told, left, crashes>>

\* A rule of the playbook sells.
Exit(s) ==
    /\ Manages
    /\ s \in Held
    /\ \E o \in CloseOutcomes(pos[s], server[s]) : Close(s, o)
    /\ UNCHANGED <<clock, raise, pc, todo, memory, left, crashes>>

\* _poll_server_oco, or reconcile, finds the position sold.
Found(s) ==
    /\ Manages
    /\ s \in Held
    /\ server[s].status = "sold"
    /\ Close(s, Outcome(Flat, server[s], TRUE, FALSE))
    /\ UNCHANGED <<clock, raise, pc, todo, memory, left, crashes>>

------------------------------------------------------------------------------
\* Around the engine

ServerSells(s) ==
    /\ Live
    /\ server[s].status = "open"
    /\ server' = [server EXCEPT ![s].status = "sold"]
    /\ UNCHANGED <<clock, raise, pc, todo, pos, saved, memory, told, left, crashes>>

\* A phase lasts longer than the engine has work in it: the deadline is at most
\* 20 minutes (config.validate) and a loop takes a minute.
Idle ==
    \/ pc \in {"ended", "down"}
    \/ /\ pc = "loop" /\ session = day
       /\ Closing => Pending = {} /\ (Held = {} \/ settled = day)

NextPhase ==
    /\ Idle
    /\ \/ phase = "dawn" /\ phase' = "day"
       \/ phase = "day" /\ phase' = "after"
       \/ phase = "after" /\ phase' = "night"
    /\ UNCHANGED <<day, raise, pc, todo, pos, saved, server, memory, told, left, crashes>>

\* The orders were for the day (expire_date) and go with it.
Midnight ==
    /\ Idle
    /\ phase \in {"night", "closed"}
    /\ day < LastDay
    /\ day' = day + 1
    /\ phase' = IF day' \in Closed THEN "closed" ELSE "dawn"
    /\ server' = [s \in Symbol |-> Gone(server[s])]
    /\ left' = {}
    /\ UNCHANGED <<raise, pc, todo, pos, saved, memory, told, crashes>>

\* The file is all that is left.
Crash ==
    /\ pc # "down"
    /\ crashes < MaxCrash
    /\ crashes' = crashes + 1
    /\ pc' = "down" /\ todo' = {}
    /\ pos' = saved
    /\ settled' = Never /\ deadline' = "none"
    /\ told' = {} /\ left' = {}
    /\ UNCHANGED <<clock, raise, saved, server, session>>

(* A new Engine loads the file; run() forgets what it settled.  An order the
   file does not name keeps preflight from passing until the user cancels it;
   resume() drops what the account no longer has, if reconcile succeeds. *)
Restart ==
    /\ pc \in {"ended", "down"}
    /\ pc' = "loop" /\ todo' = {}
    /\ session' = day /\ settled' = Never /\ deadline' = "none"
    /\ server' = [s \in Symbol |->
                    IF saved[s].held /\ Names(saved[s], server[s]) THEN server[s]
                    ELSE Gone(server[s])]
    /\ \E sold \in SUBSET {s \in Symbol : server[s].status = "sold"} :
         pos' = [s \in Symbol |-> IF s \in sold THEN Flat ELSE saved[s]]
    /\ saved' = pos'
    /\ told' = {s \in told : pos'[s].held}
    /\ left' = left \cup {s \in Symbol : pos'[s].carry # Never}
    /\ UNCHANGED <<clock, raise, crashes>>

EngineStep ==
    \/ BeginSettle \/ EndSettle \/ BeginRetry \/ EndRetry \/ GiveUp
    \/ Rollover \/ EndRearm
    \/ \E s \in Symbol : Carry(s) \/ Settle(s) \/ Retry(s) \/ Rearm(s) \/ SkipRearm(s)

Manage == \E s \in Symbol : Open(s) \/ Exit(s) \/ Found(s)

Next ==
    \/ EngineStep \/ Manage \/ DeadlinePasses
    \/ NextPhase \/ Midnight \/ Crash \/ Restart
    \/ \E s \in Symbol : ServerSells(s)

Spec == Init /\ [][Next]_vars

\* The engine thread goes on, and so does the clock.
Fairness == WF_vars(EngineStep) /\ WF_vars(DeadlinePasses)

FairSpec == Spec /\ Fairness

------------------------------------------------------------------------------
\* Properties

(* A position is carried over one night: while the program runs, no close grants
   it another one, whatever its orders and its sales came to before
   (exit.overnight_max_days, _settle_overnight). *)
CarriedOnce ==
    [][\A s \in Symbol :
          pc \notin {"down", "ended"} /\ pc' # "down" /\ s \in Carried /\ pos'[s].held
            => pos'[s].carry = pos[s].carry]_vars

(* A program that ran through midnight does not begin the day with a carried
   position that has no order at the server without a word: the order was
   placed again, or the user was told, or the old one could not be looked up
   (_rearm_carried_oco). *)
CoveredOrTold ==
    pc = "loop" /\ session = day /\ phase = "dawn"
      => \A s \in Carried :
           \/ Names(pos[s], server[s]) /\ server[s].status # "none"
           \/ s \in told \cup left

(* Whenever the engine is back in its loop, the file has the positions of
   memory, their carry dates and their orders: a restart forgets none of them
   (the state.save() calls of the close, the settlement and the rollover). *)
FileAgrees == pc = "loop" => saved = pos

(* Positions that must be sold after the close are sold, or the run ends and
   says which are left: it does not go on trying ("무한 재시도 금지", run). *)
ClosingEnds ==
    Closing /\ Pending # {} /\ pc \in {"settle", "retry"}
      ~> Pending = {} \/ pc \in {"ended", "down"}
==============================================================================
