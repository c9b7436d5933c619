-------------------------- MODULE Overnight_proofs --------------------------
(***************************************************************************)
(* Proofs about Overnight, for any number of symbols, days and crashes.    *)
(***************************************************************************)
EXTENDS Overnight, TLAPS

Covered(s) == Names(pos[s], server[s]) /\ server[s].status # "none"

\* In the loop and between the retries every position is saved.
Saved == pc \in {"loop", "retry"} => saved = pos

\* Positions are settled and retried in the evening they are due.
Evening == pc \in {"settle", "retry"} => Closing

\* The rollover has dealt with each carried position, or has yet to.
Morning ==
    phase = "dawn" /\ session = day /\ pc \in {"loop", "rearm"}
      => \A s \in Carried : \/ pc = "rearm" /\ s \in todo
                            \/ Covered(s)
                            \/ s \in told \cup left

Inv == TypeOK /\ session <= day /\ Saved /\ Evening /\ Morning

------------------------------------------------------------------------------
\* What the operators return

LEMMA PositionData ==
  ASSUME NEW p \in Position
  PROVE  /\ Flat \in Position /\ Flat.held = FALSE /\ Flat.carry = Never
         /\ p.held \in BOOLEAN /\ p.carry \in Day \cup {Never} /\ p.oco \in OcoId \cup {None}
         /\ \A d \in Day : [p EXCEPT !.carry = d] \in Position
         /\ \A i \in OcoId \cup {None} :
               /\ [p EXCEPT !.oco = i] \in Position
               /\ [p EXCEPT !.oco = i].held = p.held
               /\ [p EXCEPT !.oco = i].carry = p.carry
               /\ [p EXCEPT !.oco = i].oco = i
BY DEF Position, Flat, Never, None, Day

LEMMA OrderData ==
  ASSUME NEW o \in Order
  PROVE  /\ Gone(o) \in Order /\ o.id \in OcoId
         /\ [o EXCEPT !.status = "sold"] \in Order
         /\ [id |-> 3 - o.id, status |-> "open"] \in Order
         /\ 3 - o.id \in OcoId
BY DEF Order, Gone, OcoId

\* A new order is the one its position names, and changes nothing else of it.
LEMMA PlacedData ==
  ASSUME NEW p \in Position, NEW o \in Order
  PROVE  /\ Placed(p, o).p \in Position /\ Placed(p, o).order \in Order
         /\ Placed(p, o).p.held = p.held /\ Placed(p, o).p.carry = p.carry
         /\ Placed(p, o).p.oco = Placed(p, o).order.id
         /\ Placed(p, o).order.status = "open"
<1> DEFINE n == 3 - o.id
<1>1. n \in OcoId /\ [id |-> n, status |-> "open"] \in Order
  BY OrderData
<1>2. /\ [p EXCEPT !.oco = n] \in Position /\ [p EXCEPT !.oco = n].oco = n
      /\ [p EXCEPT !.oco = n].held = p.held /\ [p EXCEPT !.oco = n].carry = p.carry
  BY <1>1, PositionData
<1>3. /\ Placed(p, o).p = [p EXCEPT !.oco = n]
      /\ Placed(p, o).order = [id |-> n, status |-> "open"]
  BY DEF Placed
<1>4. [id |-> n, status |-> "open"].id = n /\ [id |-> n, status |-> "open"].status = "open"
  OBVIOUS
<1> QED
  BY <1>1, <1>2, <1>3, <1>4

LEMMA NotPlacedData ==
  ASSUME NEW p \in Position, NEW o \in Order
  PROVE  /\ NotPlaced(p, o).p \in Position
         /\ NotPlaced(p, o).order \in Order /\ NotPlaced(p, o).order = o
         /\ NotPlaced(p, o).p.held = p.held /\ NotPlaced(p, o).p.carry = p.carry
         /\ NotPlaced(p, o).p.oco = None
<1>1. None \in OcoId \cup {None}
  OBVIOUS
<1>2. /\ [p EXCEPT !.oco = None] \in Position /\ [p EXCEPT !.oco = None].oco = None
      /\ [p EXCEPT !.oco = None].held = p.held /\ [p EXCEPT !.oco = None].carry = p.carry
  BY <1>1, PositionData
<1>3. NotPlaced(p, o).p = [p EXCEPT !.oco = None] /\ NotPlaced(p, o).order = o
  BY DEF NotPlaced
<1> QED
  BY <1>2, <1>3

(* What becomes of position p: it is sold, or keeps its carry date; and it is
   saved, or is what it was. *)
Kept(o, p) ==
    /\ o.p \in Position /\ o.order \in Order
    /\ o.save \in BOOLEAN /\ o.tell \in BOOLEAN
    /\ o.p.held => o.p.carry = p.carry
    /\ o.save \/ o.p = p

LEMMA OutcomeKept ==
  ASSUME NEW p \in Position, NEW q \in Position, NEW o \in Order,
         NEW save \in BOOLEAN, NEW tell \in BOOLEAN,
         q.held => q.carry = p.carry, save \/ q = p
  PROVE  Kept(Outcome(q, o, save, tell), p)
BY DEF Kept, Outcome

LEMMA SellKept ==
  ASSUME NEW p \in Position, NEW order \in Order, NEW o \in SellOutcomes(p, order)
  PROVE  Kept(o, p)
<1>1. CASE o = Outcome(Flat, order, TRUE, FALSE)
  BY <1>1, PositionData, OutcomeKept
<1>2. CASE o = Outcome(p, order, FALSE, TRUE)
  BY <1>2, OutcomeKept
<1>3. CASE o = Outcome(Placed(p, order).p, Placed(p, order).order, TRUE, FALSE)
  BY <1>3, PlacedData, OutcomeKept
<1>4. CASE o = Outcome(NotPlaced(p, order).p, NotPlaced(p, order).order, TRUE, FALSE)
  BY <1>4, NotPlacedData, OutcomeKept
<1> QED
  BY <1>1, <1>2, <1>3, <1>4 DEF SellOutcomes

LEMMA StuckKept ==
  ASSUME NEW p \in Position, NEW order \in Order, NEW o \in StuckOutcomes(p, order)
  PROVE  Kept(o, p)
<1>0. Gone(order) \in Order /\ Flat \in Position /\ Flat.held = FALSE
  BY OrderData, PositionData
<1>1. CASE \E r \in {order, Gone(order)} : o = Outcome(p, r, FALSE, FALSE)
  BY <1>0, <1>1, OutcomeKept
<1>2. CASE \E r \in {order, Gone(order)} : o = Outcome(Flat, r, TRUE, FALSE)
  BY <1>0, <1>2, OutcomeKept
<1> QED
  BY <1>1, <1>2 DEF StuckOutcomes

LEMMA CloseKept ==
  ASSUME NEW p \in Position, NEW order \in Order, NEW o \in CloseOutcomes(p, order)
  PROVE  Kept(o, p)
<1>1. Gone(order) \in Order
  BY OrderData
<1>2. \/ o \in SellOutcomes(p, order) \/ o \in StuckOutcomes(p, order)
      \/ o \in SellOutcomes(p, Gone(order))
  BY DEF CloseOutcomes
<1> QED
  BY <1>1, <1>2, SellKept, StuckKept

\* After a failure to carry it, a position may be unsaved, but its date is kept.
SettleKept(o, p) ==
    /\ o.p \in Position /\ o.order \in Order
    /\ o.p.held => o.p.carry = p.carry

LEMMA SettleOutcomesKept ==
  ASSUME NEW p \in Position, NEW order \in Order, NEW o \in SettleOutcomes(p, order)
  PROVE  SettleKept(o, p)
<1>1. CASE o \in CloseOutcomes(p, order)
  BY <1>1, CloseKept DEF Kept, SettleKept
<1>2. ASSUME NEW f \in CarryFailures(p, order), o \in CloseOutcomes(f.p, f.order)
      PROVE  SettleKept(o, p)
  <2>1. f = [p |-> p, order |-> order] \/ f = NotPlaced(p, Gone(order))
    BY <1>2 DEF CarryFailures
  <2>2. f.p \in Position /\ f.order \in Order /\ f.p.carry = p.carry
    <3>1. CASE f = [p |-> p, order |-> order]
      BY <3>1
    <3>2. CASE f = NotPlaced(p, Gone(order))
      <4>1. Gone(order) \in Order
        BY OrderData
      <4> QED
        BY <3>2, <4>1, NotPlacedData
    <3> QED
      BY <2>1, <3>1, <3>2
  <2> QED
    BY <1>2, <2>2, CloseKept DEF Kept, SettleKept
<1> QED
  BY <1>1, <1>2 DEF SettleOutcomes

------------------------------------------------------------------------------
\* Inv is inductive

\* One position and its order change, and nothing else that has a type.
LEMMA OneKeeps ==
  ASSUME TypeOK, NEW s \in Symbol, NEW p \in Position, NEW o \in Order,
         pos' = [pos EXCEPT ![s] = p], server' = [server EXCEPT ![s] = o]
  PROVE  /\ pos' \in [Symbol -> Position] /\ server' \in [Symbol -> Order]
         /\ pos'[s] = p /\ server'[s] = o
         /\ \A t \in Symbol \ {s} : pos'[t] = pos[t] /\ server'[t] = server[t]
BY DEF TypeOK

\* A close, by whichever handler, keeps the types.
LEMMA CloseType ==
  ASSUME TypeOK, NEW s \in Symbol, NEW o, o.p \in Position, o.order \in Order, Close(s, o)
  PROVE  /\ pos' \in [Symbol -> Position] /\ saved' \in [Symbol -> Position]
         /\ server' \in [Symbol -> Order] /\ told' \subseteq Symbol
<1>1. pos' = [pos EXCEPT ![s] = o.p] /\ server' = [server EXCEPT ![s] = o.order]
  BY DEF Close
<1>2. pos' \in [Symbol -> Position] /\ server' \in [Symbol -> Order]
  BY <1>1, OneKeeps
<1> QED
  BY <1>2 DEF Close, TypeOK

\* A close that is saved, or changes nothing, leaves the positions saved.
LEMMA CloseSaves ==
  ASSUME TypeOK, NEW s \in Symbol, NEW o, Kept(o, pos[s]), Close(s, o), saved = pos
  PROVE  saved' = pos'
<1>1. CASE o.save
  BY <1>1 DEF Close
<1>2. CASE ~ o.save
  <2>1. o.p = pos[s] /\ pos \in [Symbol -> Position]
    BY <1>2 DEF Kept, TypeOK
  <2>2. pos' = pos
    BY <2>1 DEF Close
  <2> QED
    BY <1>2, <2>2 DEF Close
<1> QED
  BY <1>1, <1>2

LEMMA InitInv == Init => Inv
<1> SUFFICES ASSUME Init PROVE Inv
  OBVIOUS
<1>1. 1 \in Day /\ LastDay \in Nat /\ MaxCrash \in Nat
  BY CalendarAssumption DEF Day
<1>2. Flat \in Position /\ [id |-> 1, status |-> "none"] \in Order
  BY DEF Flat, Position, Order, OcoId
<1>3. pos \in [Symbol -> Position] /\ server \in [Symbol -> Order]
  BY <1>2 DEF Init
<1>4. \A s \in Symbol : ~ pos[s].held
  BY DEF Init, Flat
<1>5. TypeOK
  BY <1>1, <1>3 DEF Init, TypeOK
<1> QED
  BY <1>1, <1>5 DEF Init, Inv, Saved, Evening, Morning

\* The engine's steps after the close.
LEMMA EveningKeeps ==
  ASSUME Inv, \/ BeginSettle \/ EndSettle \/ BeginRetry \/ EndRetry \/ GiveUp
              \/ \E s \in Symbol : Carry(s) \/ Settle(s) \/ Retry(s)
  PROVE  Inv'
<1>0. /\ TypeOK /\ session <= day /\ Saved /\ Evening
      /\ day \in Day /\ pos \in [Symbol -> Position] /\ server \in [Symbol -> Order]
  BY DEF Inv, TypeOK
<1>1. CASE BeginSettle
  BY <1>0, <1>1 DEF BeginSettle, Inv, TypeOK, Held, clock, memory, Saved, Evening, Morning, Closing
<1>2. CASE EndSettle
  BY <1>0, <1>2 DEF EndSettle, Inv, TypeOK, clock, Saved, Evening, Morning, Closing
<1>3. CASE BeginRetry
  BY <1>0, <1>3 DEF BeginRetry, Unsold, Inv, TypeOK, Pending, Carried, Held, clock, Saved,
                    Evening, Morning, Closing
<1>4. CASE EndRetry
  BY <1>0, <1>4 DEF EndRetry, Inv, TypeOK, clock, memory, Saved, Evening, Morning, Closing
<1>5. CASE GiveUp
  BY <1>0, <1>5 DEF GiveUp, Inv, TypeOK, Pending, Carried, Held, clock, memory, Saved,
                    Evening, Morning
<1>6. ASSUME NEW s \in Symbol, Carry(s) PROVE Inv'
  <2>1. /\ pc = "settle" /\ pc' = pc /\ todo' = todo \ {s}
        /\ UNCHANGED <<clock, raise, saved, memory, told, left, crashes>>
    BY <1>6 DEF Carry
  <2>2. pos' \in [Symbol -> Position] /\ server' \in [Symbol -> Order]
    <3> DEFINE c == [pos[s] EXCEPT !.carry = day]
    <3>1. c \in Position
      BY <1>0, PositionData
    <3>2. Placed(c, server[s]).p \in Position /\ Placed(c, server[s]).order \in Order
      BY <1>0, <3>1, PlacedData
    <3>3. \/ pos' = [pos EXCEPT ![s] = c] /\ server' = server
          \/ /\ pos' = [pos EXCEPT ![s] = Placed(c, server[s]).p]
             /\ server' = [server EXCEPT ![s] = Placed(c, server[s]).order]
      BY <1>6 DEF Carry
    <3> HIDE DEF c
    <3> QED
      BY <1>0, <3>1, <3>2, <3>3
  <2>3. TypeOK'
    BY <1>0, <2>1, <2>2 DEF TypeOK, clock, memory
  <2> QED
    BY <1>0, <2>1, <2>3 DEF Inv, clock, memory, Saved, Evening, Morning, Closing
<1>7. ASSUME NEW s \in Symbol, Settle(s) PROVE Inv'
  <2>1. PICK o \in SettleOutcomes(pos[s], server[s]) : Close(s, o)
    BY <1>7 DEF Settle
  <2>2. /\ pc = "settle" /\ pc' = pc /\ todo' = todo \ {s}
        /\ UNCHANGED <<clock, raise, memory, left, crashes>>
    BY <1>7 DEF Settle
  <2>3. SettleKept(o, pos[s])
    BY <1>0, <2>1, SettleOutcomesKept
  <2>4. TypeOK'
    BY <1>0, <2>1, <2>2, <2>3, CloseType DEF TypeOK, clock, memory, SettleKept
  <2> QED
    BY <1>0, <2>2, <2>4 DEF Inv, clock, memory, Saved, Evening, Morning, Closing
<1>8. ASSUME NEW s \in Symbol, Retry(s) PROVE Inv'
  <2>1. PICK o \in CloseOutcomes(pos[s], server[s]) : Close(s, o)
    BY <1>8 DEF Retry
  <2>2. /\ pc = "retry" /\ pc' = pc /\ todo' = todo \ {s}
        /\ UNCHANGED <<clock, raise, memory, left, crashes>>
    BY <1>8 DEF Retry
  <2>3. Kept(o, pos[s])
    BY <1>0, <2>1, CloseKept
  <2>4. TypeOK'
    BY <1>0, <2>1, <2>2, <2>3, CloseType DEF TypeOK, clock, memory, Kept
  <2>5. saved' = pos'
    BY <1>0, <2>1, <2>2, <2>3, CloseSaves DEF Saved
  <2> QED
    BY <1>0, <2>2, <2>4, <2>5 DEF Inv, clock, memory, Saved, Evening, Morning, Closing
<1> QED
  BY <1>1, <1>2, <1>3, <1>4, <1>5, <1>6, <1>7, <1>8

\* Its steps at midnight.
LEMMA MorningKeeps ==
  ASSUME Inv, Rollover \/ EndRearm \/ \E s \in Symbol : Rearm(s) \/ SkipRearm(s)
  PROVE  Inv'
<1>0. /\ TypeOK /\ session <= day /\ Saved /\ Evening /\ Morning
      /\ day \in Day /\ pos \in [Symbol -> Position] /\ server \in [Symbol -> Order]
  BY DEF Inv, TypeOK
<1>1. CASE Rollover
  <2>1. TypeOK' /\ session' <= day'
    BY <1>0, <1>1 DEF Rollover, TypeOK, Carried, Held, clock, Day
  <2> QED
    BY <1>0, <1>1, <2>1 DEF Rollover, Inv, clock, Saved, Evening, Morning, Carried, Held
<1>2. CASE EndRearm
  <2>1. TypeOK'
    BY <1>0, <1>2 DEF EndRearm, TypeOK, clock, memory
  <2> QED
    BY <1>0, <1>2, <2>1 DEF EndRearm, Inv, clock, memory, Saved, Evening, Morning, Carried,
                            Held, Covered
<1>3. ASSUME NEW s \in Symbol, Rearm(s) PROVE Inv'
  <2>1. PICK new \in {Placed(pos[s], server[s]), NotPlaced(pos[s], Gone(server[s]))} :
            /\ pos' = [pos EXCEPT ![s] = new.p]
            /\ server' = [server EXCEPT ![s] = new.order]
            /\ told' = IF new.p.oco = None THEN told \cup {s} ELSE told
    BY <1>3 DEF Rearm
  <2>2. /\ pc = "rearm" /\ pc' = pc /\ todo' = todo \ {s}
        /\ UNCHANGED <<clock, raise, saved, memory, left, crashes>>
    BY <1>3 DEF Rearm
  <2>3. /\ new.p \in Position /\ new.order \in Order
        /\ new.p.oco = None \/ (new.p.oco = new.order.id /\ new.order.status = "open")
    <3>1. pos[s] \in Position /\ server[s] \in Order /\ Gone(server[s]) \in Order
      BY <1>0, OrderData
    <3>2. CASE new = Placed(pos[s], server[s])
      BY <3>1, <3>2, PlacedData
    <3>3. CASE new = NotPlaced(pos[s], Gone(server[s]))
      BY <3>1, <3>3, NotPlacedData
    <3> QED
      BY <2>1, <3>2, <3>3
  <2>4. /\ pos' \in [Symbol -> Position] /\ server' \in [Symbol -> Order]
        /\ pos'[s] = new.p /\ server'[s] = new.order
        /\ \A t \in Symbol \ {s} : pos'[t] = pos[t] /\ server'[t] = server[t]
    BY <1>0, <2>1, <2>3, OneKeeps
  <2>5. told \subseteq told' /\ told' \subseteq Symbol
    BY <1>0, <2>1 DEF TypeOK
  <2>6. TypeOK'
    BY <1>0, <2>2, <2>4, <2>5 DEF TypeOK, clock, memory
  <2>7. Covered(s)' \/ s \in told'
    BY <2>1, <2>3, <2>4 DEF Covered, Names
  <2>8. Morning'
    <3> SUFFICES ASSUME phase = "dawn", session = day, NEW t \in Carried'
                 PROVE  t \in todo' \/ Covered(t)' \/ t \in told' \cup left'
      BY <2>2 DEF Morning, clock, memory
    <3>1. CASE t = s
      BY <2>7, <3>1
    <3>2. CASE t # s
      <4>1. t \in Symbol /\ pos'[t] = pos[t] /\ server'[t] = server[t]
        BY <2>4, <3>2 DEF Carried, Held
      <4>2. t \in Carried
        BY <4>1 DEF Carried, Held
      <4>3. t \in todo \/ Covered(t) \/ t \in told \cup left
        BY <1>0, <2>2, <4>2 DEF Morning
      <4> QED
        BY <2>2, <2>5, <3>2, <4>1, <4>3 DEF Covered
    <3> QED
      BY <3>1, <3>2
  <2> QED
    BY <1>0, <2>2, <2>6, <2>8 DEF Inv, clock, memory, Saved, Evening
<1>4. ASSUME NEW s \in Symbol, SkipRearm(s) PROVE Inv'
  <2>1. TypeOK'
    BY <1>0, <1>4 DEF SkipRearm, TypeOK, clock, memory
  <2> QED
    BY <1>0, <1>4, <2>1 DEF SkipRearm, Inv, clock, memory, Saved, Evening, Morning, Carried,
                            Held, Covered
<1> QED
  BY <1>1, <1>2, <1>3, <1>4

\* The trading day.
LEMMA ManageKeeps ==
  ASSUME Inv, Manage
  PROVE  Inv'
<1>0. /\ TypeOK /\ session <= day /\ Saved
      /\ pos \in [Symbol -> Position] /\ server \in [Symbol -> Order]
  BY DEF Inv, TypeOK
<1>1. PICK s \in Symbol : Open(s) \/ Exit(s) \/ Found(s)
  BY DEF Manage
<1>2. /\ pc = "loop" /\ pc' = pc /\ phase # "dawn"
      /\ UNCHANGED <<clock, raise, todo, memory, left, crashes>>
  BY <1>1 DEF Open, Exit, Found, Manages, Live
<1>3. /\ pos' \in [Symbol -> Position] /\ saved' \in [Symbol -> Position]
      /\ server' \in [Symbol -> Order] /\ told' \subseteq Symbol /\ saved' = pos'
  <2>1. CASE Open(s)
    <3> DEFINE bought == [Flat EXCEPT !.held = TRUE]
    <3>1. bought \in Position
      BY DEF Flat, Position
    <3> HIDE DEF bought
    <3>2. PICK new \in {Placed(bought, server[s]), NotPlaced(bought, server[s])} :
             /\ pos' = [pos EXCEPT ![s] = new.p]
             /\ server' = [server EXCEPT ![s] = new.order]
      BY <2>1 DEF Open, bought
    <3>3. new.p \in Position /\ new.order \in Order
      BY <1>0, <3>1, <3>2, PlacedData, NotPlacedData
    <3> QED
      BY <1>0, <2>1, <3>2, <3>3 DEF Open, TypeOK
  <2>2. CASE Exit(s)
    <3>1. PICK o \in CloseOutcomes(pos[s], server[s]) : Close(s, o)
      BY <2>2 DEF Exit
    <3>2. Kept(o, pos[s])
      BY <1>0, <3>1, CloseKept
    <3>3. saved' = pos'
      BY <1>0, <1>2, <3>1, <3>2, CloseSaves DEF Saved
    <3> QED
      BY <1>0, <3>1, <3>2, <3>3, CloseType DEF Kept
  <2>3. CASE Found(s)
    <3> DEFINE o == Outcome(Flat, server[s], TRUE, FALSE)
    <3>1. Kept(o, pos[s])
      BY <1>0, PositionData, OutcomeKept
    <3>2. Close(s, o)
      BY <2>3 DEF Found
    <3> HIDE DEF o
    <3>3. saved' = pos'
      BY <1>0, <1>2, <3>1, <3>2, CloseSaves DEF Saved
    <3> QED
      BY <1>0, <3>1, <3>2, <3>3, CloseType DEF Kept
  <2> QED
    BY <1>1, <2>1, <2>2, <2>3
<1>4. TypeOK'
  BY <1>0, <1>2, <1>3 DEF TypeOK, clock, memory
<1> QED
  BY <1>0, <1>2, <1>3, <1>4 DEF Inv, clock, memory, Saved, Evening, Morning

\* The surroundings.
LEMMA AroundKeeps ==
  ASSUME Inv, \/ DeadlinePasses \/ NextPhase \/ Midnight \/ Crash \/ Restart
              \/ \E s \in Symbol : ServerSells(s)
  PROVE  Inv'
<1>0. /\ TypeOK /\ session <= day /\ Saved /\ Evening /\ Morning /\ LastDay \in Nat
      /\ day \in Day /\ session \in Day
      /\ pos \in [Symbol -> Position] /\ saved \in [Symbol -> Position]
      /\ server \in [Symbol -> Order]
  BY CalendarAssumption DEF Inv, TypeOK
<1>1. CASE DeadlinePasses
  BY <1>0, <1>1 DEF DeadlinePasses, Inv, TypeOK, clock, Saved, Evening, Morning, Closing,
                    Carried, Held, Covered
<1>2. CASE NextPhase
  <2>1. TypeOK' /\ phase' # "dawn" /\ pc \notin {"settle", "retry"}
    BY <1>0, <1>2 DEF NextPhase, Idle, TypeOK, memory
  <2> QED
    BY <1>0, <1>2, <2>1 DEF NextPhase, Inv, memory, Saved, Evening, Morning
<1>3. CASE Midnight
  <2>1. server' \in [Symbol -> Order]
    BY <1>0, <1>3, OrderData DEF Midnight
  <2>2. day' \in Day /\ session' = session /\ session' <= day' /\ session' # day'
    BY <1>0, <1>3 DEF Midnight, memory, Day
  <2>3. TypeOK' /\ pc \notin {"settle", "retry"}
    BY <1>0, <1>3, <2>1, <2>2 DEF Midnight, Idle, TypeOK, memory
  <2> QED
    BY <1>0, <1>3, <2>2, <2>3 DEF Midnight, Inv, Saved, Evening, Morning
<1>4. CASE Crash
  <2>1. crashes' \in 0 .. MaxCrash
    BY <1>0, <1>4, CalendarAssumption DEF Crash, TypeOK
  <2>2. TypeOK'
    BY <1>0, <1>4, <2>1 DEF Crash, TypeOK, clock
  <2> QED
    BY <1>0, <1>4, <2>2 DEF Crash, Inv, clock, Saved, Evening, Morning
<1>5. CASE Restart
  <2>1. server' \in [Symbol -> Order]
    BY <1>0, <1>5, OrderData DEF Restart
  <2>2. PICK sold \in SUBSET Symbol :
           pos' = [s \in Symbol |-> IF s \in sold THEN Flat ELSE saved[s]]
    BY <1>5 DEF Restart
  <2>3. Flat \in Position
    BY DEF Flat, Position
  <2>4. pos' \in [Symbol -> Position] /\ saved' = pos'
    BY <1>0, <1>5, <2>2, <2>3 DEF Restart
  <2>5. /\ told' \subseteq Symbol /\ left' \subseteq Symbol
        /\ \A s \in Symbol : pos'[s].carry # Never => s \in left'
    BY <1>0, <1>5 DEF Restart, TypeOK
  <2>6. TypeOK' /\ session' <= day'
    BY <1>0, <1>5, <2>1, <2>4, <2>5 DEF Restart, TypeOK, clock, Day
  <2>7. Morning'
    BY <2>5 DEF Morning, Carried, Held
  <2> QED
    BY <1>5, <2>4, <2>6, <2>7 DEF Restart, Inv, Saved, Evening
<1>6. ASSUME NEW s \in Symbol, ServerSells(s) PROVE Inv'
  <2>1. [server[s] EXCEPT !.status = "sold"] \in Order
    BY <1>0, OrderData
  <2>2. server' \in [Symbol -> Order]
    BY <1>0, <1>6, <2>1 DEF ServerSells
  <2>3. TypeOK' /\ phase' # "dawn"
    BY <1>0, <1>6, <2>2 DEF ServerSells, TypeOK, clock, memory, Live
  <2> QED
    BY <1>0, <1>6, <2>3 DEF ServerSells, Inv, clock, memory, Saved, Evening, Morning, Closing
<1> QED
  BY <1>1, <1>2, <1>3, <1>4, <1>5, <1>6

LEMMA NextInv == Inv /\ [Next]_vars => Inv'
<1> SUFFICES ASSUME Inv, [Next]_vars PROVE Inv'
  OBVIOUS
<1>1. CASE EngineStep
  BY <1>1, EveningKeeps, MorningKeeps DEF EngineStep
<1>2. CASE UNCHANGED vars
  BY <1>2 DEF vars, clock, memory, Inv, TypeOK, Saved, Evening, Morning, Closing, Carried,
              Held, Covered
<1> QED
  BY <1>1, <1>2, ManageKeeps, AroundKeeps DEF Next

------------------------------------------------------------------------------
\* The theorems

(* Inv holds of every state of the program. *)
THEOREM SpecInv == Spec => []Inv
BY InitInv, NextInv, PTL DEF Spec

(* The variables keep their types. *)
THEOREM SpecTypeOK == Spec => []TypeOK
<1>1. Inv => TypeOK
  BY DEF Inv
<1> QED
  BY <1>1, SpecInv, PTL

(* The file has the positions of memory whenever the engine is in its loop, however
   the settlement, its failures and its retries went (the calls of state.save). *)
THEOREM SpecFileAgrees == Spec => []FileAgrees
<1>1. Inv => FileAgrees
  BY DEF Inv, Saved, FileAgrees
<1> QED
  BY <1>1, SpecInv, PTL

(* No carried position meets the morning without a stop order and without a word
   (_rearm_carried_oco). *)
THEOREM SpecCoveredOrTold == Spec => []CoveredOrTold
<1>1. Inv => CoveredOrTold
  BY DEF Inv, Morning, CoveredOrTold, Covered
<1> QED
  BY <1>1, SpecInv, PTL

\* What a step of the running program leaves of the carry dates.
DateKept(s) == s \in Carried /\ pos'[s].held => pos'[s].carry = pos[s].carry

\* No step of the running program changes the date a position was carried on.
LEMMA NextDate ==
  ASSUME Inv, Next, pc \notin {"down", "ended"}, pc' # "down", NEW s \in Symbol
  PROVE  DateKept(s)
<1>0. /\ pos \in [Symbol -> Position] /\ server \in [Symbol -> Order]
      /\ \A t \in Symbol : pos[t] \in Position /\ server[t] \in Order
      /\ TypeOK
  BY DEF Inv, TypeOK
<1>1. ASSUME NEW t \in Symbol, NEW o, SettleKept(o, pos[t]), Close(t, o) PROVE DateKept(s)
  <2>1. pos'[s] = IF s = t THEN o.p ELSE pos[s]
    BY <1>0, <1>1 DEF Close
  <2> QED
    BY <1>1, <2>1 DEF DateKept, SettleKept
<1>2. ASSUME pos' = pos PROVE DateKept(s)
  BY <1>2 DEF DateKept
<1>3. ASSUME NEW t \in Symbol, Settle(t) PROVE DateKept(s)
  BY <1>0, <1>1, <1>3, SettleOutcomesKept DEF Settle
<1>4. ASSUME NEW t \in Symbol, Retry(t) \/ Exit(t) PROVE DateKept(s)
  BY <1>0, <1>1, <1>4, CloseKept DEF Retry, Exit, Kept, SettleKept
<1>5. ASSUME NEW t \in Symbol, Found(t) PROVE DateKept(s)
  <2>1. Kept(Outcome(Flat, server[t], TRUE, FALSE), pos[t])
    BY <1>0, PositionData, OutcomeKept
  <2> QED
    BY <1>1, <1>5, <2>1 DEF Found, Kept, SettleKept
<1>6. ASSUME NEW t \in Symbol, Carry(t) PROVE DateKept(s)
  <2>1. pos[t].carry = Never /\ \A u \in Symbol \ {t} : pos'[u] = pos[u]
    BY <1>0, <1>6 DEF Carry
  <2> QED
    BY <2>1 DEF DateKept, Carried
<1>7. ASSUME NEW t \in Symbol, Rearm(t) PROVE DateKept(s)
  <2>1. PICK new \in {Placed(pos[t], server[t]), NotPlaced(pos[t], Gone(server[t]))} :
           pos' = [pos EXCEPT ![t] = new.p]
    BY <1>7 DEF Rearm
  <2>2. new.p.carry = pos[t].carry
    <3>1. Gone(server[t]) \in Order
      BY <1>0, OrderData
    <3> QED
      BY <1>0, <2>1, <3>1, PlacedData, NotPlacedData
  <2>3. pos'[s] = IF s = t THEN new.p ELSE pos[s]
    BY <1>0, <2>1
  <2> QED
    BY <2>2, <2>3 DEF DateKept
<1>8. ASSUME NEW t \in Symbol, Open(t) PROVE DateKept(s)
  <2>1. t \notin Held /\ \A u \in Symbol \ {t} : pos'[u] = pos[u]
    BY <1>0, <1>8 DEF Open
  <2> QED
    BY <2>1 DEF DateKept, Carried
<1>9. CASE \/ BeginSettle \/ EndSettle \/ BeginRetry \/ EndRetry \/ GiveUp \/ Rollover
           \/ EndRearm \/ DeadlinePasses \/ NextPhase \/ Midnight
           \/ \E t \in Symbol : SkipRearm(t) \/ ServerSells(t)
  BY <1>2, <1>9 DEF BeginSettle, EndSettle, BeginRetry, EndRetry, GiveUp, Rollover, EndRearm,
                    DeadlinePasses, NextPhase, Midnight, SkipRearm, ServerSells
<1>10. ~ Crash /\ ~ Restart
  BY DEF Crash, Restart
<1> QED
  BY <1>3, <1>4, <1>5, <1>6, <1>7, <1>8, <1>9, <1>10 DEF Next, EngineStep, Manage

(* While the program runs, a position that was carried keeps its date until it is
   sold: no close grants it a second night (_settle_overnight). *)
THEOREM SpecCarriedOnce == Spec => CarriedOnce
<1> DEFINE Dates == \A s \in Symbol :
       pc \notin {"down", "ended"} /\ pc' # "down" /\ s \in Carried /\ pos'[s].held
         => pos'[s].carry = pos[s].carry
<1>1. Inv /\ [Next]_vars => [Dates]_vars
  BY NextDate DEF DateKept
<1>2. Spec => [][Dates]_vars
  BY <1>1, SpecInv, PTL DEF Spec
<1> QED
  BY <1>2 DEF CarriedOnce
=============================================================================
