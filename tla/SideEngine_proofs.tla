-------------------------- MODULE SideEngine_proofs --------------------------
(***************************************************************************)
(* Proofs about SideEngine, for any symbols, limits, failures and crashes, *)
(* and about Reselection, the lists that the same engines watch and the    *)
(* back-tests of these.  Deals says what the two threads' orders in        *)
(* progress may be, BookKept what they have made of the book and the       *)
(* account so far, Saved what will have reached the file when nobody is    *)
(* about to write it again; SaverHolds, of Reselection, that what a        *)
(* back-test is about to save is what the file holds, and ListsInv that a  *)
(* market counts as running just while its back-test is in progress.       *)
(***************************************************************************)
EXTENDS SideEngine, Reselection, TLAPS


Label == {"none", "off", "wait", "manage", "scan", "enter", "save", "replace",
          "idle", "liquidate"}
Visits == {"manage", "scan", "enter"}
Resting == {"wait", "off", "idle"}

Active(t) == deal[t] # NoDeal

\* The orders in progress.
Deals ==
    /\ pc \in [Thread -> Label]
    /\ Active("engine") => pc["engine"] \in Visits
    /\ Active("server") => /\ pc["server"] = "liquidate"
                           /\ deal["server"].side = "sell" /\ deal["server"].sent
                           /\ deal["server"].n = deal["server"].held
    /\ Active("engine") =>
         LET d == deal["engine"] IN
           /\ d.side = "sell" => d.sent /\ d.n <= d.held
           /\ d.side # "sell" => d.n = 1
           /\ d.side = "add" => book[d.s] < MaxLot
           /\ d.side = "buy" => book[d.s] = 0 /\ d.s \notin hot
    /\ hot \subseteq cool

Sent(t, s) == Active(t) /\ deal[t].s = s /\ deal[t].sent

\* What an order the exchange took has made of the account.
Agreed(s) ==
    /\ ~ Sent("engine", s) /\ ~ Sent("server", s) => book[s] = net[s]
    /\ ~ (Sent("engine", s) /\ Sent("server", s))
    /\ \A t \in Thread : Sent(t, s) =>
         IF deal[t].side = "sell"
         THEN deal[t].held = book[s] /\ net[s] = book[s] - deal[t].n
         ELSE net[s] = book[s] + deal[t].n /\ (deal[t].side = "add" => book[s] > 0)

BookKept == \A s \in Symbol \ doubt : Agreed(s)

\* Nobody will write the file again of himself, and what is written is in the .tmp
\* file or in the file.
Saved ==
    (\A t \in Thread : pc[t] \in Resting \cup {"replace"}) /\ ~ cut =>
        IF (\E t \in Thread : pc[t] = "replace") /\ tmp # NoFile
        THEN tmp = Contents ELSE file = Contents

Inv == TypeOK /\ Deals /\ BookKept /\ Saved

------------------------------------------------------------------------------
\* The data

LEMMA Threads == "engine" \in Thread /\ "server" \in Thread /\ \A t \in Thread : t \in {"engine", "server"}
BY DEF Thread

LEMMA LotData == MaxLot \in Nat /\ 0 \in Lot /\ \A n \in Lot : n \in Nat /\ n <= MaxLot
BY SideAssumption DEF Lot

LEMMA DealData ==
  ASSUME NEW d \in Deal
  PROVE  /\ d # NoDeal /\ d.s \in Symbol /\ d.n \in Lot /\ d.held \in Lot /\ d.sent \in BOOLEAN
         /\ d.side \in {"buy", "add", "sell"}
         /\ [d EXCEPT !.sent = TRUE] \in Deal
         /\ [d EXCEPT !.sent = TRUE].sent /\ [d EXCEPT !.sent = TRUE].s = d.s
         /\ [d EXCEPT !.sent = TRUE].n = d.n /\ [d EXCEPT !.sent = TRUE].held = d.held
         /\ [d EXCEPT !.sent = TRUE].side = d.side
<1>1. d # NoDeal /\ d.s \in Symbol /\ d.n \in Lot /\ d.held \in Lot /\ d.side \in {"buy", "add", "sell"}
  BY DEF Deal, NoDeal
<1>2. d.sent \in BOOLEAN
  BY DEF Deal
<1>3. [d EXCEPT !.sent = TRUE] \in Deal
  BY DEF Deal
<1>4. [d EXCEPT !.sent = TRUE].sent = TRUE
  BY DEF Deal
<1>5. /\ [d EXCEPT !.sent = TRUE].s = d.s
      /\ [d EXCEPT !.sent = TRUE].n = d.n /\ [d EXCEPT !.sent = TRUE].held = d.held
      /\ [d EXCEPT !.sent = TRUE].side = d.side
  BY DEF Deal
<1> QED
  BY <1>1, <1>2, <1>3, <1>4, <1>5

\* The contents of a file are never those of no file.
LEMMA ContentNotNone ==
  ASSUME NEW c \in Content
  PROVE  c # NoFile
<1>1. DOMAIN c.book = Symbol /\ Symbol # {} /\ DOMAIN <<>> = {}
  BY SideAssumption DEF Content
<1>2. NoFile.book = <<>>
  BY DEF NoFile
<1> QED
  BY <1>1, <1>2

LEMMA ContentsData ==
  ASSUME TypeOK
  PROVE  Contents \in Content /\ Contents # NoFile
<1>1. Contents \in Content
  BY DEF TypeOK, Contents, Content
<1> QED
  BY <1>1, ContentNotNone

------------------------------------------------------------------------------
\* What the parts of the invariant rest on

\* The threads move on without an order.
LEMMA MovesKeep ==
  ASSUME TypeOK, Deals, BookKept, UNCHANGED <<book, cool, net, deal, hot, doubt>>,
         pc' \in [Thread -> Label],
         Active("engine") => pc'["engine"] \in Visits,
         Active("server") => pc'["server"] = "liquidate"
  PROVE  Deals' /\ BookKept'
BY DEF Deals, BookKept, Agreed, Sent, Active

\* Somebody still has to save.
LEMMA BusyKeeps ==
  ASSUME NEW t \in Thread, pc'[t] \notin Resting \cup {"replace"} \/ cut'
  PROVE  Saved'
BY DEF Saved

\* No part of it changes.
LEMMA StillSaved ==
  ASSUME Saved, UNCHANGED <<book, cool, disk, cut>>,
         \A t \in Thread : pc'[t] = pc[t]
  PROVE  Saved'
BY DEF Saved, Contents, disk

\* A thread that has nothing more to do with an order s gives it up.
LEMMA GivenUp ==
  ASSUME TypeOK, Deals, BookKept, NEW t \in Thread,
         deal' = [deal EXCEPT ![t] = NoDeal],
         Active(t) => ~ deal[t].sent,
         pc' \in [Thread -> Label],
         \A u \in Thread \ {t} : pc'[u] = pc[u],
         UNCHANGED <<book, cool, hot>>,
         doubt \subseteq doubt', \A s \in Symbol \ doubt' : net'[s] = net[s]
  PROVE  Deals' /\ BookKept'
<1>1. deal \in [Thread -> Deal \cup {NoDeal}]
  BY DEF TypeOK
<1>2. /\ deal'[t] = NoDeal
      /\ \A u \in Thread \ {t} : deal'[u] = deal[u]
  BY <1>1
<1>3. \A u \in Thread, s \in Symbol : Sent(u, s)' <=> Sent(u, s)
  BY <1>2 DEF Sent, Active
<1>4. \A u \in Thread, s \in Symbol : Sent(u, s) => deal'[u] = deal[u]
  BY <1>2, <1>3 DEF Sent, Active
<1>5. Deals'
  BY <1>2, Threads DEF Deals, Active
<1>6. BookKept'
  <2> SUFFICES ASSUME NEW s \in Symbol \ doubt' PROVE Agreed(s)'
    BY DEF BookKept
  <2>1. Agreed(s) /\ net'[s] = net[s] /\ book'[s] = book[s]
    BY DEF BookKept
  <2> QED
    BY <1>3, <1>4, <2>1, Threads DEF Agreed
<1> QED
  BY <1>5, <1>6

\* The type of what Thrown leaves.
LEMMA ThrownType ==
  ASSUME TypeOK, Deals, NEW t \in Thread, NEW s, Thrown(t, s)
  PROVE  /\ deal' = [deal EXCEPT ![t] = NoDeal]
         /\ deal' \in [Thread -> Deal \cup {NoDeal}]
         /\ todo' \in [Thread -> SUBSET Symbol]
         /\ cut' \in BOOLEAN
         /\ pc' \in [Thread -> Label]
         /\ \A u \in Thread \ {t} : pc'[u] = pc[u]
         /\ t = "engine" => pc' = pc /\ cut' = cut
         /\ t = "server" => cut' /\ pc'["server"] = "idle"
<1>1. /\ pc \in [Thread -> Label] /\ todo \in [Thread -> SUBSET Symbol]
      /\ deal \in [Thread -> Deal \cup {NoDeal}] /\ cut \in BOOLEAN
  BY DEF TypeOK, Deals
<1>2. deal' = [deal EXCEPT ![t] = NoDeal] /\ deal' \in [Thread -> Deal \cup {NoDeal}]
  BY <1>1 DEF Thrown
<1>3. CASE t = "engine"
  <2>1. todo' \in [Thread -> SUBSET Symbol]
    BY <1>1, <1>3 DEF Thrown, Done
  <2> QED
    BY <1>1, <1>2, <1>3, <2>1 DEF Thrown
<1>4. CASE t = "server"
  <2>1. todo' \in [Thread -> SUBSET Symbol]
    BY <1>1, <1>4 DEF Thrown
  <2>2. pc' = [pc EXCEPT !["server"] = "idle"]
    BY <1>4 DEF Thrown, Go
  <2>3. pc' \in [Thread -> Label]
    BY <1>1, <2>2 DEF Label
  <2>4. cut'
    BY <1>4 DEF Thrown
  <2> QED
    BY <1>1, <1>2, <1>4, <2>1, <2>2, <2>3, <2>4
<1> QED
  BY <1>3, <1>4, Threads

(* An order goes out: the thread's deal is d, which is not sent yet, or which it
   makes up now. *)
LEMMA SendKeeps ==
  ASSUME Inv, NEW t \in Thread, NEW d \in Deal, Send(t, d), ~ d.sent,
         Free(t) \/ (t = "engine" /\ deal[t] = d),
         IF t = "engine"
         THEN /\ pc[t] \in Visits
              /\ d.side = "sell" => d.held = book[d.s] /\ d.n <= d.held
              /\ d.side # "sell" => d.n = 1
              /\ d.side = "add" => book[d.s] > 0 /\ book[d.s] < MaxLot
              /\ d.side = "buy" => book[d.s] = 0 /\ d.s \notin hot
         ELSE /\ pc[t] = "liquidate" /\ d.side = "sell"
              /\ d.held = book[d.s] /\ d.n = d.held,
         UNCHANGED <<kind, book, cool, disk, stop, full, hot, crashes, closes>>
  PROVE  Inv'
<1>0. /\ TypeOK /\ Deals /\ BookKept /\ Saved
      /\ deal \in [Thread -> Deal \cup {NoDeal}] /\ net \in [Symbol -> Int]
      /\ pc \in [Thread -> Label] /\ fails \in 0 .. MaxFail /\ MaxFail \in Nat
      /\ doubt \subseteq Symbol /\ halted \in BOOLEAN /\ book \in [Symbol -> Lot]
  BY SideAssumption DEF Inv, TypeOK, Deals
<1>1. d.s \in Symbol /\ d.n \in Int /\ d.held \in Int /\ d.side \in {"buy", "add", "sell"}
  <2>1. d.s \in Symbol /\ d.n \in Lot /\ d.held \in Lot /\ d.side \in {"buy", "add", "sell"}
    BY DealData
  <2> QED
    BY <2>1, LotData
<1>2. Active(t) => ~ deal[t].sent
  BY DEF Active, Free
<1>3. CASE Refused(t, d) \/ Failed(t, d)
  <2>1. Thrown(t, d.s)
    BY <1>3 DEF Refused, Failed
  <2>2. /\ deal' = [deal EXCEPT ![t] = NoDeal]
        /\ deal' \in [Thread -> Deal \cup {NoDeal}]
        /\ todo' \in [Thread -> SUBSET Symbol] /\ cut' \in BOOLEAN
        /\ pc' \in [Thread -> Label]
        /\ \A u \in Thread \ {t} : pc'[u] = pc[u]
        /\ t = "engine" => pc' = pc /\ cut' = cut
        /\ t = "server" => cut' /\ pc'["server"] = "idle"
    BY <1>0, <2>1, ThrownType
  <2>3. /\ net' \in [Symbol -> Int] /\ doubt' \subseteq Symbol /\ doubt \subseteq doubt'
        /\ \A s \in Symbol \ doubt' : net'[s] = net[s]
    <3>1. CASE UNCHANGED <<net, doubt>>
      BY <1>0, <3>1
    <3>2. CASE /\ net' = [net EXCEPT ![d.s] = IF d.side = "sell" THEN net[d.s] - d.n ELSE net[d.s] + d.n]
               /\ doubt' = doubt \cup {d.s}
      BY <1>0, <1>1, <3>2
    <3> QED
      BY <1>3, <3>1, <3>2 DEF Refused, Failed
  <2>4. halted' \in BOOLEAN
    BY <1>0, <1>3 DEF Refused, Failed
  <2>5. fails' \in 0 .. MaxFail
    <3>1. CASE Refused(t, d)
      BY <1>0, <3>1 DEF Refused
    <3>2. CASE Failed(t, d)
      <4>1. fails < MaxFail /\ fails' = fails + 1
        BY <3>2 DEF Failed
      <4> QED
        BY <1>0, <4>1
    <3> QED
      BY <1>3, <3>1, <3>2
  <2>6. /\ pc'["engine"] = pc["engine"]
        /\ pc'["server"] \in {pc["server"], "idle"}
    BY <2>2, Threads
  <2>7. TypeOK'
    BY <1>0, <2>2, <2>3, <2>4, <2>5, <2>6 DEF TypeOK, disk
  <2>8. Deals' /\ BookKept'
    BY <1>0, <1>2, <2>2, <2>3, GivenUp
  <2>9. Saved'
    <3>1. CASE t = "engine"
      <4>1. pc'["engine"] \notin Resting \cup {"replace"}
        BY <2>6, <3>1 DEF Resting, Visits
      <4> QED
        BY <4>1, BusyKeeps, Threads
    <3>2. CASE t = "server"
      BY <2>2, <3>2, BusyKeeps
    <3> QED
      BY <3>1, <3>2, Threads
  <2> QED
    BY <2>7, <2>8, <2>9 DEF Inv
<1>4. CASE Answered(t, d)
  <2> DEFINE e == [d EXCEPT !.sent = TRUE]
  <2>1. /\ e \in Deal /\ e.sent /\ e.s = d.s /\ e.n = d.n /\ e.held = d.held /\ e.side = d.side
        /\ e # NoDeal
    BY DealData
  <2>2. /\ deal' = [deal EXCEPT ![t] = e]
        /\ UNCHANGED <<halted, pc, todo, cut, fails>>
        /\ net' = [net EXCEPT ![d.s] = IF d.side = "sell" THEN net[d.s] - d.n ELSE net[d.s] + d.n]
        /\ doubt' = IF \E u \in Thread \ {t} : deal[u] # NoDeal /\ deal[u].s = d.s
                    THEN doubt \cup {d.s} ELSE doubt
    BY <1>4 DEF Answered
  <2> HIDE DEF e
  <2>3. /\ deal' \in [Thread -> Deal \cup {NoDeal}] /\ deal'[t] = e
        /\ \A u \in Thread \ {t} : deal'[u] = deal[u]
    BY <1>0, <2>1, <2>2
  <2>4. /\ net' \in [Symbol -> Int]
        /\ net'[d.s] = IF d.side = "sell" THEN net[d.s] - d.n ELSE net[d.s] + d.n
        /\ \A s \in Symbol \ {d.s} : net'[s] = net[s]
    BY <1>0, <1>1, <2>2
  <2>5. doubt \subseteq doubt' /\ doubt' \subseteq Symbol
    BY <1>0, <1>1, <2>2
  <2>6. TypeOK'
    BY <1>0, <2>2, <2>3, <2>4, <2>5 DEF TypeOK, disk
  <2>7. Deals'
    <3>1. CASE t = "engine"
      <4>1. deal'["engine"] = e /\ deal'["server"] = deal["server"]
        BY <2>3, <3>1, Threads
      <4> QED
        BY <1>0, <2>1, <2>2, <3>1, <4>1 DEF Deals, Active
    <3>2. CASE t = "server"
      <4>1. deal'["server"] = e /\ deal'["engine"] = deal["engine"]
        BY <2>3, <3>2, Threads
      <4> QED
        BY <1>0, <2>1, <2>2, <3>2, <4>1 DEF Deals, Active
    <3> QED
      BY <3>1, <3>2, Threads
  <2>8. BookKept'
    <3> SUFFICES ASSUME NEW s \in Symbol \ doubt' PROVE Agreed(s)'
      BY DEF BookKept
    <3>1. Agreed(s) /\ book'[s] = book[s]
      BY <1>0, <2>5 DEF BookKept
    <3>2. CASE s # d.s
      <4>1. \A u \in Thread : Sent(u, s)' <=> Sent(u, s)
        BY <1>2, <2>1, <2>3, <3>2 DEF Sent, Active, Free
      <4>2. \A u \in Thread : Sent(u, s) => deal'[u] = deal[u]
        BY <1>2, <2>3 DEF Sent
      <4> QED
        BY <2>4, <3>1, <3>2, <4>1, <4>2, Threads DEF Agreed
    <3>3. CASE s = d.s
      <4>1. \A u \in Thread \ {t} : deal[u] = NoDeal \/ deal[u].s # s
        BY <2>2, <3>3
      <4>2. \A u \in Thread : ~ Sent(u, s)
        BY <1>2, <4>1 DEF Sent, Active
      <4>3. book[s] = net[s]
        BY <3>1, <4>2, Threads DEF Agreed
      <4>4. \A u \in Thread \ {t} : ~ Sent(u, s)'
        BY <2>3, <4>1 DEF Sent, Active
      <4>5. book[s] \in Int /\ net[s] \in Int
        BY <1>0, LotData
      <4>6. IF d.side = "sell"
            THEN d.held = book[s] /\ net'[s] = book[s] - d.n
            ELSE net'[s] = book[s] + d.n /\ (d.side = "add" => book[s] > 0)
        BY <2>4, <3>3, <4>3, Threads
      <4>7. Sent(t, s)'
        BY <2>1, <2>3, <3>3 DEF Sent, Active
      <4> QED
        BY <2>1, <2>3, <3>1, <4>4, <4>6, <4>7, Threads DEF Agreed
    <3> QED
      BY <3>2, <3>3
  <2>9. Saved'
    BY <1>0, <2>2, StillSaved
  <2> QED
    BY <2>6, <2>7, <2>8, <2>9 DEF Inv
<1> QED
  BY <1>3, <1>4 DEF Send

------------------------------------------------------------------------------
\* The book

\* An order is booked, and the book changes for its symbol only.
LEMMA BookingKeeps ==
  ASSUME Inv, NEW t \in Thread, Active(t), deal[t].sent,
         deal' = [deal EXCEPT ![t] = NoDeal],
         NEW n \in Lot, book' = [book EXCEPT ![deal[t].s] = n],
         UNCHANGED <<net, pc, doubt>>,
         cool \subseteq cool', hot' \subseteq cool',
         t = "server" => hot' = hot /\ n = 0,
         deal[t].s \notin doubt => n = net[deal[t].s]
  PROVE  Deals' /\ BookKept' /\ Saved'
<1>0. /\ TypeOK /\ Deals /\ BookKept /\ deal \in [Thread -> Deal \cup {NoDeal}]
      /\ book \in [Symbol -> Lot]
  BY DEF Inv, TypeOK
<1>1. deal[t] \in Deal /\ deal[t].s \in Symbol
  <2>1. deal[t] \in Deal
    BY <1>0 DEF Active
  <2> QED
    BY <2>1, DealData
<1>2. /\ deal'[t] = NoDeal /\ \A u \in Thread \ {t} : deal'[u] = deal[u]
      /\ book'[deal[t].s] = n /\ \A s \in Symbol \ {deal[t].s} : book'[s] = book[s]
  BY <1>0, <1>1
<1>3. Deals'
  <2>1. CASE t = "engine"
    BY <1>0, <1>2, <2>1, Threads DEF Deals, Active
  <2>2. CASE t = "server"
    <3>1. 0 < MaxLot
      BY SideAssumption
    <3>2. deal'["engine"] = deal["engine"] /\ deal'["server"] = NoDeal
      BY <1>2, <2>2, Threads
    <3>3. Active("engine") => deal["engine"].s \in Symbol
      <4>1. Active("engine") => deal["engine"] \in Deal
        BY <1>0, Threads DEF Active
      <4> QED
        BY <4>1, DealData
    <3>4. \A s \in Symbol : book'[s] = book[s] \/ book'[s] = 0
      BY <1>2, <2>2
    <3>5. Active("engine")' <=> Active("engine")
      BY <3>2 DEF Active
    <3>6. ~ Active("server")'
      BY <3>2 DEF Active
    <3>7. Active("engine") =>
             /\ deal["engine"].side = "add" => book'[deal["engine"].s] < MaxLot
             /\ deal["engine"].side = "buy" => book'[deal["engine"].s] = 0
      BY <1>0, <3>1, <3>3, <3>4 DEF Deals
    <3> QED
      BY <1>0, <2>2, <3>2, <3>5, <3>6, <3>7 DEF Deals
  <2> QED
    BY <2>1, <2>2, Threads
<1>4. BookKept'
  <2> SUFFICES ASSUME NEW s \in Symbol \ doubt PROVE Agreed(s)'
    BY DEF BookKept
  <2>1. Agreed(s) /\ net'[s] = net[s]
    BY <1>0 DEF BookKept
  <2>2. ~ Sent(t, s)' /\ \A u \in Thread \ {t} : /\ Sent(u, s)' <=> Sent(u, s)
                                                 /\ deal'[u] = deal[u]
    BY <1>2 DEF Sent, Active
  <2>3. CASE s = deal[t].s
    <3>1. Sent(t, s)
      BY <2>3 DEF Sent
    <3>2. \A u \in Thread \ {t} : ~ Sent(u, s)
      BY <2>1, <3>1, Threads DEF Agreed
    <3>3. book'[s] = net[s]
      BY <1>2, <2>3
    <3> QED
      BY <2>1, <2>2, <3>2, <3>3, Threads DEF Agreed
  <2>4. CASE s # deal[t].s
    <3>1. ~ Sent(t, s) /\ book'[s] = book[s]
      BY <1>2, <2>4 DEF Sent
    <3> QED
      BY <2>1, <2>2, <3>1, Threads DEF Agreed
  <2> QED
    BY <2>3, <2>4
<1>5. Saved'
  <2>1. pc'[t] \notin Resting \cup {"replace"}
    BY <1>0, Threads DEF Deals, Resting, Visits
  <2> QED
    BY <2>1, BusyKeeps
<1> QED
  BY <1>3, <1>4, <1>5

LEMMA EndSaleKeeps ==
  ASSUME Inv, NEW t \in Thread, EndSale(t)
  PROVE  Inv'
<1>0. /\ TypeOK /\ Deals /\ BookKept /\ deal \in [Thread -> Deal \cup {NoDeal}]
      /\ book \in [Symbol -> Lot] /\ todo \in [Thread -> SUBSET Symbol]
      /\ cool \subseteq Symbol /\ hot \subseteq Symbol /\ hot \subseteq cool
  BY DEF Inv, TypeOK, Deals
<1> DEFINE d == deal[t]
           n == IF d.n = d.held \/ book[d.s] = 0 THEN 0 ELSE d.held - d.n
<1>1. d.side = "sell" /\ d.sent
  BY DEF EndSale
<1>2. Active(t) /\ d \in Deal
  BY <1>0, <1>1 DEF Active, NoDeal
<1>3. d.s \in Symbol /\ d.n \in Lot /\ d.held \in Lot
  BY <1>2, DealData
<1>4. d.n <= d.held
  BY <1>0, <1>1, <1>2, <1>3, LotData, Threads DEF Deals
<1>5. n \in Lot
  BY <1>3, <1>4, LotData DEF Lot
<1>6. book' = [book EXCEPT ![d.s] = n]
  BY <1>0 DEF EndSale, Booked
<1>7. t = "server" => d.n = d.held
  BY <1>0, <1>2 DEF Deals
<1>8. /\ deal' = [deal EXCEPT ![t] = NoDeal]
      /\ todo' = [todo EXCEPT ![t] = todo[t] \ {d.s}]
      /\ UNCHANGED <<kind, halted, disk, net, stop, pc, full, doubt, cut, bounds>>
  BY DEF EndSale, Done
<1>9. PICK cools : /\ cool' = IF cools THEN cool \cup {d.s} ELSE cool
                   /\ hot' = IF cools /\ t = "engine" THEN hot \cup {d.s} ELSE hot
  BY DEF EndSale
<1>10. /\ cool \subseteq cool' /\ hot' \subseteq cool' /\ cool' \subseteq Symbol
       /\ t = "server" => hot' = hot
  BY <1>0, <1>3, <1>9
<1>11. d.s \notin doubt => n = net[d.s]
  <2> SUFFICES ASSUME d.s \notin doubt PROVE n = net[d.s]
    OBVIOUS
  <2>1. Agreed(d.s) /\ Sent(t, d.s)
    BY <1>0, <1>1, <1>2, <1>3 DEF BookKept, Sent
  <2>2. d.held = book[d.s] /\ net[d.s] = book[d.s] - d.n
    BY <1>1, <2>1 DEF Agreed
  <2> QED
    BY <1>3, <1>4, <2>2, LotData
<1>12. TypeOK'
  <2>1. book' \in [Symbol -> Lot]
    BY <1>0, <1>5, <1>6
  <2>2. /\ deal' \in [Thread -> Deal \cup {NoDeal}] /\ todo' \in [Thread -> SUBSET Symbol]
    BY <1>0, <1>8
  <2>3. hot' \subseteq Symbol
    BY <1>10
  <2> QED
    BY <1>0, <1>8, <1>10, <2>1, <2>2, <2>3 DEF TypeOK, disk, bounds
<1> HIDE DEF n
<1>13. Deals' /\ BookKept' /\ Saved'
  <2>1. t = "server" => n = 0
    BY <1>7 DEF n
  <2> QED
    BY <1>1, <1>2, <1>5, <1>6, <1>8, <1>10, <1>11, <2>1, BookingKeeps
<1> QED
  BY <1>12, <1>13 DEF Inv

LEMMA EndBuyKeeps ==
  ASSUME Inv, EndBuy
  PROVE  Inv'
<1>0. /\ TypeOK /\ Deals /\ BookKept /\ deal \in [Thread -> Deal \cup {NoDeal}]
      /\ book \in [Symbol -> Lot] /\ todo \in [Thread -> SUBSET Symbol]
      /\ hot \subseteq cool /\ "engine" \in Thread
  BY Threads DEF Inv, TypeOK, Deals
<1> DEFINE d == deal["engine"]
           n == IF d.side = "buy" THEN d.n ELSE IF book[d.s] = 0 THEN 0 ELSE book[d.s] + d.n
<1>1. d.side \in {"buy", "add"} /\ d.sent
  BY DEF EndBuy
<1>2. Active("engine") /\ d \in Deal
  BY <1>0, <1>1 DEF Active, NoDeal
<1>3. d.s \in Symbol /\ d.n \in Lot /\ book[d.s] \in Lot
  BY <1>0, <1>2, DealData
<1>4. /\ d.n = 1 /\ (d.side = "add" => book[d.s] < MaxLot)
      /\ d.side = "buy" => book[d.s] = 0
  BY <1>0, <1>1, <1>2 DEF Deals
<1>5. n \in Lot
  BY <1>1, <1>3, <1>4, LotData DEF Lot
<1>6. /\ book' = [book EXCEPT ![d.s] = n]
      /\ deal' = [deal EXCEPT !["engine"] = NoDeal]
      /\ todo' = [todo EXCEPT !["engine"] = todo["engine"] \ {d.s}]
      /\ UNCHANGED <<kind, cool, halted, disk, net, stop, pc, full, history, bounds>>
  BY <1>0 DEF EndBuy, Done
<1>7. d.s \notin doubt => n = net[d.s]
  <2> SUFFICES ASSUME d.s \notin doubt PROVE n = net[d.s]
    OBVIOUS
  <2>1. Agreed(d.s) /\ Sent("engine", d.s)
    BY <1>0, <1>1, <1>2, <1>3 DEF BookKept, Sent
  <2>2. net[d.s] = book[d.s] + d.n /\ (d.side = "add" => book[d.s] > 0)
    BY <1>0, <1>1, <2>1 DEF Agreed
  <2> QED
    BY <1>1, <1>3, <1>4, <2>2, LotData
<1>8. TypeOK'
  <2>1. /\ book' \in [Symbol -> Lot] /\ deal' \in [Thread -> Deal \cup {NoDeal}]
        /\ todo' \in [Thread -> SUBSET Symbol]
    BY <1>0, <1>5, <1>6
  <2> QED
    BY <1>0, <1>6, <2>1 DEF TypeOK, disk, bounds, history
<1> HIDE DEF n
<1>9. Deals' /\ BookKept' /\ Saved'
  BY <1>0, <1>1, <1>2, <1>5, <1>6, <1>7, BookingKeeps DEF history
<1> QED
  BY <1>8, <1>9 DEF Inv

------------------------------------------------------------------------------
\* The engine's thread

\* A purchase is decided.
LEMMA DecidedKeeps ==
  ASSUME Inv, NEW s \in Symbol, NEW side \in {"buy", "add"}, Decided(side, s), Visiting(s),
         side = "add" => book[s] < MaxLot,
         side = "buy" => book[s] = 0 /\ s \notin cool
  PROVE  Inv'
<1>0. /\ TypeOK /\ Deals /\ BookKept /\ Saved /\ deal \in [Thread -> Deal \cup {NoDeal}]
      /\ book \in [Symbol -> Lot] /\ "engine" \in Thread /\ hot \subseteq cool
  BY Threads DEF Inv, TypeOK, Deals
<1> DEFINE d == [side |-> side, s |-> s, n |-> 1, held |-> book[s], sent |-> FALSE]
<1>1. 1 \in Lot /\ book[s] \in Lot
  BY <1>0, SideAssumption DEF Lot
<1>2. d \in Deal /\ d # NoDeal
  BY <1>1 DEF Deal, NoDeal
<1>3. d.side = side /\ d.s = s /\ d.n = 1 /\ ~ d.sent
  OBVIOUS
<1>4. /\ deal' = [deal EXCEPT !["engine"] = d]
      /\ UNCHANGED <<kind, memory, disk, net, stop, pc, todo, full, history, bounds>>
  BY DEF Decided
<1> HIDE DEF d
<1>5. deal'["engine"] = d /\ deal'["server"] = deal["server"]
      /\ deal' \in [Thread -> Deal \cup {NoDeal}]
  BY <1>0, <1>2, <1>4, Threads
<1>6. TypeOK'
  BY <1>0, <1>4, <1>5 DEF TypeOK, memory, disk, bounds, history
<1>7. ~ Active("engine") /\ pc["engine"] \in Visits
  BY DEF Visiting, Active, Free, Visits
<1>8. Deals'
  BY <1>0, <1>2, <1>3, <1>4, <1>5, <1>7 DEF Deals, Active, memory, history
<1>9. \A t \in Thread, r \in Symbol : /\ Sent(t, r)' <=> Sent(t, r)
                                      /\ Sent(t, r) => deal'[t] = deal[t]
  BY <1>3, <1>5, <1>7, Threads DEF Sent, Active
<1>10. BookKept'
  BY <1>0, <1>4, <1>9, Threads DEF BookKept, Agreed, memory, history
<1>11. Saved'
  BY <1>0, <1>4, StillSaved DEF memory, history
<1> QED
  BY <1>6, <1>8, <1>10, <1>11 DEF Inv

LEMMA BuyKeeps ==
  ASSUME Inv, Buy
  PROVE  Inv'
<1>0. /\ TypeOK /\ Deals /\ BookKept /\ deal \in [Thread -> Deal \cup {NoDeal}]
      /\ "engine" \in Thread /\ book \in [Symbol -> Lot]
  BY Threads DEF Inv, TypeOK
<1> DEFINE d == deal["engine"]
<1>1. d.side \in {"buy", "add"} /\ ~ d.sent
      /\ UNCHANGED <<kind, book, cool, disk, stop, full, hot, crashes, closes>>
  BY DEF Buy
<1>2. Active("engine") /\ d \in Deal
  BY <1>0, <1>1 DEF Active, NoDeal
<1>3. d.s \in Symbol /\ book[d.s] \in Nat
  BY <1>0, <1>2, DealData, LotData
<1>4. /\ pc["engine"] \in Visits /\ d.n = 1
      /\ d.side = "add" => book[d.s] < MaxLot
      /\ d.side = "buy" => book[d.s] = 0 /\ d.s \notin hot
  BY <1>0, <1>1, <1>2 DEF Deals
<1>5. CASE d.side = "add" /\ book[d.s] = 0
  <2>1. Thrown("engine", d.s) /\ UNCHANGED <<net, halted, doubt, fails>>
    BY <1>5 DEF Buy
  <2>2. /\ deal' = [deal EXCEPT !["engine"] = NoDeal]
        /\ deal' \in [Thread -> Deal \cup {NoDeal}]
        /\ todo' \in [Thread -> SUBSET Symbol] /\ pc' = pc /\ cut' = cut
        /\ pc \in [Thread -> Label]
    BY <1>0, <2>1, ThrownType DEF Deals
  <2>3. TypeOK'
    BY <1>0, <1>1, <2>1, <2>2 DEF TypeOK, disk
  <2>4. Deals' /\ BookKept'
    BY <1>0, <1>1, <2>1, <2>2, GivenUp
  <2>5. Saved'
    BY <1>1, <2>2, StillSaved DEF Inv
  <2> QED
    BY <2>3, <2>4, <2>5 DEF Inv
<1>6. CASE ~ (d.side = "add" /\ book[d.s] = 0)
  <2>1. Send("engine", d)
    BY <1>6 DEF Buy
  <2> QED
    BY <1>0, <1>1, <1>2, <1>3, <1>4, <1>6, <2>1, SendKeeps
<1> QED
  BY <1>5, <1>6

LEMMA ExitKeeps ==
  ASSUME Inv, NEW s \in Symbol, Exit(s)
  PROVE  Inv'
<1>1. PICK n \in 1 .. book[s] :
         Send("engine", [side |-> "sell", s |-> s, n |-> n, held |-> book[s], sent |-> FALSE])
  BY DEF Exit
<1> DEFINE d == [side |-> "sell", s |-> s, n |-> n, held |-> book[s], sent |-> FALSE]
<1>2. book[s] \in Lot
  BY DEF Inv, TypeOK
<1>3. n \in Lot /\ n <= book[s]
  BY <1>1, <1>2, LotData DEF Lot
<1>4. d \in Deal
  BY <1>2, <1>3 DEF Deal
<1>5. d.side = "sell" /\ d.s = s /\ d.n = n /\ d.held = book[s] /\ ~ d.sent /\ Send("engine", d)
  BY <1>1
<1>6. /\ Free("engine") /\ pc["engine"] \in Visits
      /\ UNCHANGED <<kind, book, cool, disk, stop, full, hot, crashes, closes>>
  BY DEF Exit, Visiting, Visits
<1> HIDE DEF d
<1> QED
  BY <1>3, <1>4, <1>5, <1>6, Threads, SendKeeps

LEMMA CloseKeeps ==
  ASSUME Inv, NEW s \in Symbol, Close(s)
  PROVE  Inv'
<1> DEFINE d == [side |-> "sell", s |-> s, n |-> book[s], held |-> book[s], sent |-> FALSE]
<1>1. book[s] \in Lot
  BY DEF Inv, TypeOK
<1>2. d \in Deal
  BY <1>1 DEF Deal
<1>3. d.side = "sell" /\ d.s = s /\ d.n = d.held /\ d.held = book[s] /\ ~ d.sent
  OBVIOUS
<1>4. /\ Send("server", d) /\ Free("server") /\ pc["server"] = "liquidate"
      /\ UNCHANGED <<kind, book, cool, disk, stop, full, hot, crashes, closes>>
  BY DEF Close, Closing
<1> HIDE DEF d
<1> QED
  BY <1>2, <1>3, <1>4, Threads, SendKeeps

(* A thread moves on: the engine from rest or between its loops, the server from a
   request to its loop and from that to the file. *)
LEMMA StepsKeep ==
  ASSUME Inv, UNCHANGED <<kind, memory, disk, net, deal, history, fails, crashes>>,
         NEW t \in Thread, NEW l \in Label, Free(t), pc' = [pc EXCEPT ![t] = l],
         l \notin Resting \cup {"replace"} \/ (t = "engine" /\ pc[t] = "wait" /\ l = "off"),
         IF t = "engine"
         THEN l \in {"off", "manage", "scan", "enter", "save"} ELSE l \in {"liquidate", "save"},
         stop' \in BOOLEAN, full' \in BOOLEAN, todo' \in [Thread -> SUBSET Symbol],
         closes' \in 0 .. MaxClose
  PROVE  Inv'
<1>0. TypeOK /\ Deals /\ BookKept /\ Saved /\ pc \in [Thread -> Label]
  BY DEF Inv, Deals
<1>1. /\ pc' \in [Thread -> Label] /\ pc'[t] = l
      /\ \A u \in Thread \ {t} : pc'[u] = pc[u]
  BY <1>0
<1>2. TypeOK'
  <2>1. /\ pc'["engine"] \in {"none", "off", "wait", "manage", "scan", "enter", "save", "replace"}
        /\ pc'["server"] \in {"idle", "liquidate", "save", "replace"}
    BY <1>0, <1>1, Threads DEF TypeOK
  <2> QED
    BY <1>0, <2>1 DEF TypeOK, memory, disk, history
<1>3. Deals' /\ BookKept'
  <2>1. Active("engine") => pc'["engine"] \in Visits
    BY <1>0, <1>1, Threads DEF Deals, Active, Free
  <2>2. Active("server") => pc'["server"] = "liquidate"
    BY <1>0, <1>1, Threads DEF Deals, Active, Free
  <2> QED
    BY <1>0, <1>1, <2>1, <2>2, MovesKeep DEF memory, history
<1>4. Saved'
  <2>1. CASE l \notin Resting \cup {"replace"}
    BY <1>1, <2>1, BusyKeeps
  <2>2. CASE t = "engine" /\ pc[t] = "wait" /\ l = "off"
    <3>1. \A u \in Thread : /\ pc'[u] \in Resting \cup {"replace"} <=> pc[u] \in Resting \cup {"replace"}
                            /\ pc'[u] = "replace" <=> pc[u] = "replace"
      BY <1>1, <2>2 DEF Resting
    <3> QED
      BY <1>0, <3>1 DEF Saved, Contents, memory, disk, history
  <2> QED
    BY <2>1, <2>2
<1> QED
  BY <1>2, <1>3, <1>4 DEF Inv

LEMMA MovesInv ==
  ASSUME Inv, \/ BeginOverseas \/ BeginCrypto \/ Leave \/ BeginEntries \/ EndPass
              \/ BeginClose \/ EndClose
  PROVE  Inv'
<1>0. /\ TypeOK /\ Deals /\ todo \in [Thread -> SUBSET Symbol] /\ stop \in BOOLEAN
      /\ full \in BOOLEAN /\ closes \in 0 .. MaxClose /\ MaxClose \in Nat
      /\ Held \subseteq Symbol /\ "engine" \in Thread /\ "server" \in Thread
  BY SideAssumption, Threads DEF Inv, TypeOK, Held
<1>1. pc["engine"] \notin Visits => Free("engine")
  BY <1>0 DEF Deals, Active, Free
<1>2. pc["server"] # "liquidate" => Free("server")
  BY <1>0 DEF Deals, Active, Free
<1>3. CASE BeginOverseas
  <2>1. full' \in BOOLEAN /\ pc["engine"] = "wait" /\ pc' = [pc EXCEPT !["engine"] = "manage"]
    BY <1>3 DEF BeginOverseas, Go
  <2>2. /\ todo' \in [Thread -> SUBSET Symbol] /\ stop' \in BOOLEAN /\ closes' \in 0 .. MaxClose
    BY <1>0, <1>3 DEF BeginOverseas, bounds
  <2>3. Free("engine")
    BY <1>1, <2>1 DEF Visits
  <2>4. "manage" \in Label /\ "manage" \notin Resting \cup {"replace"}
    BY DEF Label, Resting
  <2> QED
    BY <1>0, <1>3, <2>1, <2>2, <2>3, <2>4, StepsKeep DEF BeginOverseas, bounds
<1>4. CASE BeginCrypto
  <2>1. full' \in BOOLEAN
    BY <1>4 DEF BeginCrypto
  <2>2. /\ pc["engine"] = "wait" /\ pc' = [pc EXCEPT !["engine"] = "scan"]
        /\ todo' \in [Thread -> SUBSET Symbol] /\ stop' \in BOOLEAN /\ closes' \in 0 .. MaxClose
    BY <1>0, <1>4 DEF BeginCrypto, Go, bounds
  <2>3. Free("engine")
    BY <1>1, <2>2 DEF Visits
  <2>4. "scan" \in Label /\ "scan" \notin Resting \cup {"replace"}
    BY DEF Label, Resting
  <2> QED
    BY <1>0, <1>4, <2>1, <2>2, <2>3, <2>4, StepsKeep DEF BeginCrypto, bounds
<1>5. CASE Leave
  <2>1. /\ pc["engine"] = "wait" /\ pc' = [pc EXCEPT !["engine"] = "off"]
        /\ UNCHANGED <<kind, memory, disk, net, stop, todo, deal, full, history, bounds>>
    BY <1>5 DEF Leave, Go
  <2>2. Free("engine") /\ "off" \in Label
    BY <1>1, <2>1 DEF Visits, Label
  <2> QED
    BY <1>0, <2>1, <2>2, StepsKeep DEF bounds
<1>6. CASE BeginEntries
  <2>1. /\ Free("engine") /\ pc' = [pc EXCEPT !["engine"] = "enter"]
        /\ todo' \in [Thread -> SUBSET Symbol]
        /\ UNCHANGED <<kind, memory, disk, net, stop, deal, full, history, bounds>>
    BY <1>0, <1>6 DEF BeginEntries, Go
  <2>2. "enter" \in Label /\ "enter" \notin Resting \cup {"replace"}
    BY DEF Label, Resting
  <2> QED
    BY <1>0, <2>1, <2>2, StepsKeep DEF bounds
<1>7. CASE EndPass
  <2>1. full' \in BOOLEAN
    BY <1>7 DEF EndPass
  <2>2. /\ Free("engine") /\ pc' = [pc EXCEPT !["engine"] = "save"]
        /\ UNCHANGED <<kind, memory, disk, net, stop, todo, deal, history, bounds>>
    BY <1>7 DEF EndPass, Go
  <2>3. "save" \in Label /\ "save" \notin Resting \cup {"replace"}
    BY DEF Label, Resting
  <2> QED
    BY <1>0, <2>1, <2>2, <2>3, StepsKeep DEF bounds
<1>8. CASE BeginClose
  <2>1. /\ pc["server"] = "idle" /\ pc' = [pc EXCEPT !["server"] = "liquidate"]
        /\ todo' \in [Thread -> SUBSET Symbol]
        /\ UNCHANGED <<kind, memory, disk, net, stop, deal, full, history, fails, crashes>>
    BY <1>0, <1>8 DEF BeginClose, Go
  <2>2. closes' \in 0 .. MaxClose
    BY <1>0, <1>8 DEF BeginClose
  <2>3. Free("server") /\ "liquidate" \in Label /\ "liquidate" \notin Resting \cup {"replace"}
    BY <1>2, <2>1 DEF Label, Resting
  <2> QED
    BY <1>0, <2>1, <2>2, <2>3, StepsKeep
<1>9. CASE EndClose
  <2>1. /\ Free("server") /\ pc' = [pc EXCEPT !["server"] = "save"]
        /\ UNCHANGED <<kind, memory, disk, net, stop, todo, deal, full, history, bounds>>
    BY <1>9 DEF EndClose, Go
  <2>2. "save" \in Label /\ "save" \notin Resting \cup {"replace"}
    BY DEF Label, Resting
  <2> QED
    BY <1>0, <2>1, <2>2, StepsKeep DEF bounds
<1> QED
  BY <1>3, <1>4, <1>5, <1>6, <1>7, <1>8, <1>9

\* A symbol is passed over, or the engine is told to stop.
LEMMA IdleKeeps ==
  ASSUME Inv, \/ Stop \/ \E s \in Symbol : Pass(s) \/ CloseNot(s)
  PROVE  Inv'
<1>0. /\ TypeOK /\ Deals /\ BookKept /\ Saved /\ todo \in [Thread -> SUBSET Symbol]
  BY DEF Inv, TypeOK
<1>1. /\ UNCHANGED <<kind, memory, disk, net, pc, deal, full, history, bounds>>
  BY DEF Stop, Pass, CloseNot
<1>2. todo' \in [Thread -> SUBSET Symbol]
  BY <1>0 DEF Stop, Pass, CloseNot, Done
<1>3. stop' \in BOOLEAN
  <2>1. CASE Stop
    BY <2>1 DEF Stop
  <2>2. CASE ~ Stop
    BY <1>0, <2>2 DEF Pass, CloseNot, TypeOK
  <2> QED
    BY <2>1, <2>2
<1>4. TypeOK'
  BY <1>0, <1>1, <1>2, <1>3 DEF TypeOK, memory, disk, history, bounds
<1>5. Deals' /\ BookKept'
  BY <1>0, <1>1, MovesKeep DEF Deals, memory, history
<1>6. Saved'
  BY <1>0, <1>1, StillSaved DEF memory, history
<1> QED
  BY <1>4, <1>5, <1>6 DEF Inv

------------------------------------------------------------------------------
\* The file

LEMMA WriteKeeps ==
  ASSUME Inv, NEW t \in Thread, Write(t)
  PROVE  Inv'
<1>0. /\ TypeOK /\ Deals /\ BookKept /\ pc \in [Thread -> Label]
  BY DEF Inv, Deals
<1>1. /\ pc[t] = "save" /\ tmp' = Contents /\ cut' = FALSE
      /\ pc' = [pc EXCEPT ![t] = "replace"]
      /\ UNCHANGED <<kind, memory, file, net, stop, todo, deal, full, hot, doubt, bounds>>
  BY DEF Write, Go
<1>2. Contents \in Content /\ Contents # NoFile
  BY <1>0, ContentsData
<1>3. /\ pc'[t] = "replace" /\ \A u \in Thread \ {t} : pc'[u] = pc[u]
      /\ pc' \in [Thread -> Label]
  BY <1>0, <1>1 DEF Label
<1>4. cut' \in BOOLEAN
  BY <1>1
<1>5. TypeOK'
  <2>1. /\ pc'["engine"] \in {"none", "off", "wait", "manage", "scan", "enter", "save", "replace"}
        /\ pc'["server"] \in {"idle", "liquidate", "save", "replace"}
    BY <1>0, <1>3, Threads DEF TypeOK
  <2> QED
    BY <1>0, <1>1, <1>2, <1>4, <2>1 DEF TypeOK, memory, bounds
<1>6. Deals' /\ BookKept'
  <2>1. Active("engine") => pc'["engine"] \in Visits
    BY <1>0, <1>1, <1>3, Threads DEF Deals, Visits
  <2>2. Active("server") => pc'["server"] = "liquidate"
    BY <1>0, <1>1, <1>3, Threads DEF Deals
  <2> QED
    BY <1>0, <1>1, <1>3, <2>1, <2>2, MovesKeep DEF memory
<1>7. Saved'
  <2>1. \E u \in Thread : pc'[u] = "replace"
    BY <1>3
  <2>2. Contents' = Contents
    BY <1>1 DEF Contents, memory
  <2>3. tmp' # NoFile /\ tmp' = Contents'
    BY <1>1, <1>2, <2>2
  <2> QED
    BY <2>1, <2>3 DEF Saved
<1> QED
  BY <1>5, <1>6, <1>7 DEF Inv

LEMMA ReplaceKeeps ==
  ASSUME Inv, NEW t \in Thread, Replace(t)
  PROVE  Inv'
<1>0. /\ TypeOK /\ Deals /\ BookKept /\ Saved /\ pc \in [Thread -> Label]
      /\ file \in Content /\ tmp \in Content \cup {NoFile}
  BY DEF Inv, Deals, TypeOK
<1> DEFINE l == IF t = "engine" THEN "wait" ELSE "idle"
<1>1. /\ pc[t] = "replace"
      /\ IF tmp = NoFile THEN UNCHANGED disk ELSE file' = tmp /\ tmp' = NoFile
      /\ pc' = [pc EXCEPT ![t] = l]
      /\ UNCHANGED <<kind, memory, net, todo, deal, full, history, bounds>>
  BY DEF Replace, Go
<1>2. stop' \in BOOLEAN
  BY DEF Replace
<1>3. l \in Label /\ l \in Resting
  BY DEF Label, Resting
<1>4. /\ pc'[t] = l /\ \A u \in Thread \ {t} : pc'[u] = pc[u]
      /\ pc' \in [Thread -> Label]
  BY <1>0, <1>1, <1>3
<1>5. file' \in Content /\ tmp' \in Content \cup {NoFile}
  BY <1>0, <1>1 DEF disk
<1>6. TypeOK'
  <2>1. /\ pc'["engine"] \in {"none", "off", "wait", "manage", "scan", "enter", "save", "replace"}
        /\ pc'["server"] \in {"idle", "liquidate", "save", "replace"}
    BY <1>0, <1>4, Threads DEF TypeOK
  <2> QED
    BY <1>0, <1>1, <1>2, <1>5, <2>1 DEF TypeOK, memory, history, bounds
<1>7. Deals' /\ BookKept'
  <2>1. Active("engine") => pc'["engine"] \in Visits
    BY <1>0, <1>1, <1>4, Threads DEF Deals, Visits
  <2>2. Active("server") => pc'["server"] = "liquidate"
    BY <1>0, <1>1, <1>4, Threads DEF Deals
  <2> QED
    BY <1>0, <1>1, <1>4, <2>1, <2>2, MovesKeep DEF memory, history
<1>8. Saved'
  <2> SUFFICES ASSUME \A u \in Thread : pc'[u] \in Resting \cup {"replace"}, ~ cut'
               PROVE  IF (\E u \in Thread : pc'[u] = "replace") /\ tmp' # NoFile
                      THEN tmp' = Contents' ELSE file' = Contents'
    BY DEF Saved
  <2>1. \A u \in Thread : pc[u] \in Resting \cup {"replace"}
    BY <1>1, <1>4
  <2>2. ~ cut /\ Contents' = Contents
    BY <1>1 DEF history, memory, Contents
  <2>3. IF tmp # NoFile THEN tmp = Contents ELSE file = Contents
    BY <1>0, <1>1, <2>1, <2>2 DEF Saved
  <2> QED
    BY <1>1, <2>2, <2>3 DEF disk
<1> QED
  BY <1>6, <1>7, <1>8 DEF Inv

------------------------------------------------------------------------------
\* The server and the surroundings

LEMMA StartKeeps ==
  ASSUME Inv, Start
  PROVE  Inv'
<1>0. /\ TypeOK /\ Deals /\ BookKept /\ pc \in [Thread -> Label]
      /\ file \in Content /\ tmp \in Content \cup {NoFile}
      /\ doubt \subseteq Symbol
  BY DEF Inv, Deals, TypeOK
<1>1. PICK gone \in {{}, Ghosts} :
        /\ book' = [s \in Symbol |-> IF s \in gone THEN 0 ELSE file.book[s]]
        /\ \E loss \in SUBSET gone : cool' = file.cool \cup loss
        /\ IF gone = {} THEN UNCHANGED disk
           ELSE file' = [book |-> book', cool |-> cool'] /\ tmp' = NoFile
        /\ doubt' = (doubt \cup {s \in Symbol : file.book[s] # book[s]})
                     \ {s \in gone : net[s] = 0}
  BY DEF Start
<1>2. /\ pc["engine"] \in {"none", "off"} /\ pc["server"] = "idle"
      /\ pc' = [pc EXCEPT !["engine"] = "wait"] /\ hot' = {}
      /\ UNCHANGED <<kind, net, todo, deal, full, bounds>>
  BY DEF Start, Go
<1>3. halted' \in BOOLEAN /\ stop' \in BOOLEAN /\ cut' \in BOOLEAN
  BY DEF Start
<1>4. gone \subseteq Symbol
  BY DEF Ghosts
<1>5. file.book \in [Symbol -> Lot] /\ file.cool \subseteq Symbol
  BY <1>0 DEF Content
<1>6. book' \in [Symbol -> Lot] /\ cool' \subseteq Symbol
  BY <1>1, <1>4, <1>5, LotData
<1>7. /\ pc'["engine"] = "wait" /\ pc'["server"] = "idle" /\ pc' \in [Thread -> Label]
  BY <1>0, <1>2, Threads DEF Label
<1>8. file' \in Content /\ tmp' \in Content \cup {NoFile} /\ file' = Contents'
  <2>1. CASE gone = {}
    <3>1. book' = file.book /\ cool' = file.cool
      BY <1>1, <1>5, <2>1
    <3>2. file = [book |-> file.book, cool |-> file.cool]
      BY <1>0 DEF Content
    <3> QED
      BY <1>0, <1>1, <2>1, <3>1, <3>2 DEF disk, Contents
  <2>2. CASE gone # {}
    BY <1>0, <1>1, <1>6, <2>2 DEF Content, Contents
  <2> QED
    BY <2>1, <2>2
<1>9. doubt' \subseteq Symbol
  BY <1>0, <1>1
<1>10. TypeOK'
  BY <1>0, <1>2, <1>3, <1>6, <1>7, <1>8, <1>9 DEF TypeOK, bounds
<1>11. ~ Active("engine") /\ ~ Active("server")
  BY <1>0, <1>2 DEF Deals, Visits
<1>12. Deals'
  BY <1>2, <1>7, <1>11 DEF Deals, Active
<1>13. BookKept'
  <2> SUFFICES ASSUME NEW s \in Symbol \ doubt' PROVE Agreed(s)'
    BY DEF BookKept
  <2>1. \A t \in Thread : ~ Sent(t, s) /\ ~ Sent(t, s)'
    BY <1>2, <1>11, Threads DEF Sent, Active
  <2>2. book'[s] = net'[s]
    <3>1. CASE s \in gone /\ net[s] = 0
      BY <1>1, <1>2, <3>1
    <3>2. CASE ~ (s \in gone /\ net[s] = 0)
      <4>1. s \notin doubt /\ file.book[s] = book[s]
        BY <1>1, <3>2
      <4>2. book[s] = net[s]
        BY <1>0, <2>1, <4>1, Threads DEF BookKept, Agreed
      <4>3. s \notin gone
        <5> SUFFICES ASSUME s \in gone PROVE FALSE
          OBVIOUS
        <5>1. file.book[s] > 0 /\ net[s] + UserShares = 0
          BY DEF Ghosts
        <5>2. file.book[s] \in Nat /\ UserShares \in Nat
          BY <1>5, LotData, SideAssumption
        <5> QED
          BY <4>1, <4>2, <5>1, <5>2
      <4> QED
        BY <1>1, <1>2, <4>1, <4>2, <4>3
    <3> QED
      BY <3>1, <3>2
  <2> QED
    BY <2>1, <2>2, Threads DEF Agreed
<1>14. Saved'
  BY <1>7, <1>8, Threads DEF Saved, Resting
<1> QED
  BY <1>10, <1>12, <1>13, <1>14 DEF Inv

LEMMA CoolEndsKeeps ==
  ASSUME Inv, NEW s \in Symbol, CoolEnds(s)
  PROVE  Inv'
<1>0. /\ TypeOK /\ Deals /\ BookKept /\ Saved
      /\ file \in Content /\ tmp \in Content \cup {NoFile}
  BY DEF Inv, TypeOK
<1>1. /\ cool' = cool \ {s} /\ hot' = hot \ {s}
      /\ file' = [file EXCEPT !.cool = @ \ {s}]
      /\ tmp' = [tmp EXCEPT !.cool = @ \ {s}]
      /\ UNCHANGED <<kind, book, halted, net, stop, pc, todo, deal, full, doubt, cut, bounds>>
  BY DEF CoolEnds
<1>2. file' \in Content
  BY <1>0, <1>1 DEF Content
<1>3. tmp = NoFile => tmp' = NoFile
  <2>1. {} \ {s} = {}
    OBVIOUS
  <2>2. \A b, c : [[book |-> b, cool |-> c] EXCEPT !.cool = {}] = [book |-> b, cool |-> {}]
    OBVIOUS
  <2>3. [NoFile EXCEPT !.cool = {}] = NoFile
    BY <2>2 DEF NoFile
  <2>4. NoFile.cool = {}
    BY DEF NoFile
  <2> QED
    BY <1>1, <2>1, <2>3, <2>4
<1>4. tmp # NoFile => tmp' \in Content
  BY <1>0, <1>1 DEF Content
<1>5. tmp = Contents => tmp' = Contents'
  BY <1>1 DEF Contents
<1>6. file = Contents => file' = Contents'
  BY <1>1 DEF Contents
<1>7. TypeOK'
  BY <1>0, <1>1, <1>2, <1>3, <1>4 DEF TypeOK, bounds
<1>8. Deals'
  BY <1>0, <1>1 DEF Deals, Active
<1>9. BookKept'
  BY <1>0, <1>1 DEF BookKept, Agreed, Sent, Active
<1>10. Saved'
  <2>1. tmp # NoFile /\ tmp = Contents => tmp' # NoFile /\ tmp' = Contents'
    <3>1. Contents' \in Content
      BY <1>7 DEF TypeOK, Contents, Content
    <3> QED
      BY <1>5, <3>1, ContentNotNone
  <2> QED
    BY <1>0, <1>1, <1>3, <1>6, <2>1 DEF Saved
<1> QED
  BY <1>7, <1>8, <1>9, <1>10 DEF Inv

LEMMA CrashKeeps ==
  ASSUME Inv, Crash
  PROVE  Inv'
<1>0. /\ TypeOK /\ BookKept /\ file \in Content /\ doubt \subseteq Symbol
      /\ crashes \in 0 .. MaxCrash /\ MaxCrash \in Nat
  BY SideAssumption DEF Inv, TypeOK
<1>1. /\ book' = file.book /\ cool' = file.cool /\ crashes < MaxCrash /\ crashes' = crashes + 1
      /\ doubt' = doubt \cup {s \in Symbol : file.book[s] # book[s] \/ Dealt(s)}
      /\ pc' = [t \in Thread |-> IF t = "engine" THEN "none" ELSE "idle"]
      /\ todo' = [t \in Thread |-> {}] /\ deal' = [t \in Thread |-> NoDeal] /\ hot' = {}
      /\ UNCHANGED <<kind, disk, net, fails, closes>>
  BY DEF Crash
<1>2. halted' \in BOOLEAN /\ stop' \in BOOLEAN /\ full' \in BOOLEAN /\ cut' \in BOOLEAN
  BY DEF Crash
<1>3. book' \in [Symbol -> Lot] /\ cool' \subseteq Symbol
  BY <1>0, <1>1 DEF Content
<1>4. crashes' \in 0 .. MaxCrash
  BY <1>0, <1>1
<1>5. /\ pc'["engine"] = "none" /\ pc'["server"] = "idle" /\ pc' \in [Thread -> Label]
  BY <1>1, Threads DEF Label
<1>6. \A t \in Thread : deal'[t] = NoDeal
  BY <1>1
<1>7. deal' \in [Thread -> Deal \cup {NoDeal}] /\ todo' \in [Thread -> SUBSET Symbol]
  BY <1>1
<1>8. doubt' \subseteq Symbol
  BY <1>0, <1>1
<1>9. TypeOK'
  BY <1>0, <1>1, <1>2, <1>3, <1>4, <1>5, <1>7, <1>8 DEF TypeOK, disk
<1>10. Deals'
  BY <1>1, <1>5, <1>6, Threads DEF Deals, Active
<1>11. BookKept'
  <2> SUFFICES ASSUME NEW s \in Symbol \ doubt' PROVE Agreed(s)'
    BY DEF BookKept
  <2>1. s \notin doubt /\ file.book[s] = book[s] /\ ~ Dealt(s)
    BY <1>1
  <2>2. \A t \in Thread : ~ Sent(t, s) /\ ~ Sent(t, s)'
    BY <1>6, <2>1 DEF Dealt, Sent, Active
  <2>3. book[s] = net[s]
    BY <1>0, <2>1, <2>2, Threads DEF BookKept, Agreed
  <2> QED
    BY <1>1, <2>1, <2>2, <2>3, Threads DEF Agreed
<1>12. Saved'
  <2>1. pc'["engine"] \notin Resting \cup {"replace"}
    BY <1>5 DEF Resting
  <2> QED
    BY <2>1, BusyKeeps, Threads
<1> QED
  BY <1>9, <1>10, <1>11, <1>12 DEF Inv

LEMMA InitInv == Init => Inv
<1> SUFFICES ASSUME Init PROVE Inv
  OBVIOUS
<1>1. /\ kind \in Engines /\ book = Flat /\ cool = {} /\ file = Contents /\ tmp = NoFile
      /\ net = Flat /\ hot = {} /\ doubt = {}
      /\ pc = [t \in Thread |-> IF t = "engine" THEN "none" ELSE "idle"]
      /\ todo = [t \in Thread |-> {}] /\ deal = [t \in Thread |-> NoDeal]
      /\ fails = 0 /\ crashes = 0 /\ closes = 0
  BY DEF Init
<1>2. halted \in BOOLEAN /\ stop \in BOOLEAN /\ full \in BOOLEAN /\ cut \in BOOLEAN
  BY DEF Init
<1>3. Flat \in [Symbol -> Lot] /\ Flat \in [Symbol -> Int]
  BY LotData DEF Flat
<1>4. file \in Content
  BY <1>1, <1>3 DEF Contents, Content
<1>5. fails \in 0 .. MaxFail /\ crashes \in 0 .. MaxCrash /\ closes \in 0 .. MaxClose
  BY <1>1, SideAssumption
<1>6. pc["engine"] = "none" /\ pc["server"] = "idle" /\ pc \in [Thread -> Label]
  BY <1>1, Threads DEF Label
<1>7. deal \in [Thread -> Deal \cup {NoDeal}] /\ todo \in [Thread -> SUBSET Symbol]
  BY <1>1
<1>8. TypeOK
  BY <1>1, <1>2, <1>3, <1>4, <1>5, <1>6, <1>7 DEF TypeOK
<1>9. ~ Active("engine") /\ ~ Active("server")
  BY <1>1, Threads DEF Active
<1>10. Deals
  BY <1>1, <1>6, <1>9 DEF Deals
<1>11. BookKept
  BY <1>1, <1>9, Threads DEF BookKept, Agreed, Sent
<1>12. Saved
  BY <1>6, Threads DEF Saved, Resting
<1> QED
  BY <1>8, <1>10, <1>11, <1>12 DEF Inv

\* A symbol of the engine's loop.
LEMMA VisitKeeps ==
  ASSUME Inv, NEW s \in Symbol,
         Pass(s) \/ Exit(s) \/ Add(s) \/ EnterOverseas(s) \/ EnterCrypto(s)
  PROVE  Inv'
<1>1. CASE Pass(s)
  BY <1>1, IdleKeeps
<1>2. CASE Exit(s)
  BY <1>2, ExitKeeps
<1>3. CASE Add(s)
  <2>1. Visiting(s) /\ Decided("add", s) /\ book[s] \in 1 .. MaxLot - 1
    BY <1>3 DEF Add
  <2>2. book[s] < MaxLot
    BY <2>1, LotData
  <2> QED
    BY <2>1, <2>2, DecidedKeeps
<1>4. CASE EnterOverseas(s) \/ EnterCrypto(s)
  <2>1. Visiting(s) /\ Decided("buy", s) /\ book[s] = 0 /\ s \notin cool
    BY <1>4 DEF EnterOverseas, EnterCrypto
  <2> QED
    BY <2>1, DecidedKeeps
<1> QED
  BY <1>1, <1>2, <1>3, <1>4

LEMMA ThreadKeeps ==
  ASSUME Inv, NEW t \in Thread, Steps(t)
  PROVE  Inv'
<1>1. CASE EndSale(t)
  BY <1>1, EndSaleKeeps
<1>2. CASE Write(t) \/ Replace(t)
  BY <1>2, WriteKeeps, ReplaceKeeps
<1>3. CASE BeginOverseas \/ BeginCrypto \/ Leave \/ BeginEntries \/ EndPass \/ EndClose
  BY <1>3, MovesInv
<1>4. CASE Buy \/ EndBuy
  BY <1>4, BuyKeeps, EndBuyKeeps
<1>5. CASE \E s \in Symbol : Pass(s) \/ Exit(s) \/ Add(s) \/ EnterOverseas(s) \/ EnterCrypto(s)
  BY <1>5, VisitKeeps
<1>6. CASE \E s \in Symbol : CloseNot(s) \/ Close(s)
  BY <1>6, IdleKeeps, CloseKeeps
<1> QED
  BY <1>1, <1>2, <1>3, <1>4, <1>5, <1>6 DEF Steps

LEMMA NextInv == Inv /\ [Next]_vars => Inv'
<1> SUFFICES ASSUME Inv, [Next]_vars PROVE Inv'
  OBVIOUS
<1>1. CASE \E t \in Thread : Steps(t)
  BY <1>1, ThreadKeeps
<1>2. CASE Start \/ Stop \/ BeginClose
  BY <1>2, StartKeeps, IdleKeeps, MovesInv
<1>3. CASE \E s \in Symbol : CoolEnds(s)
  BY <1>3, CoolEndsKeeps
<1>4. CASE Crash
  BY <1>4, CrashKeeps
<1>5. CASE UNCHANGED vars
  <2>1. UNCHANGED <<kind, book, cool, halted, file, tmp, net, stop, pc, todo, deal, full,
                    hot, doubt, cut, fails, crashes, closes>>
    BY <1>5 DEF vars, memory, disk, history, bounds
  <2> QED
    BY <2>1 DEF Inv, TypeOK, Deals, BookKept, Agreed, Sent, Active, Saved, Contents
<1> QED
  BY <1>1, <1>2, <1>3, <1>4, <1>5 DEF Next

------------------------------------------------------------------------------
\* The theorems about the live engines

\* The strengthening is an invariant of the engines.
THEOREM SpecInv == Spec => []Inv
BY InitInv, NextInv, PTL DEF Spec

\* The state of the engines keeps its type.
THEOREM SpecTypeOK == Spec => []TypeOK
<1>1. Inv => TypeOK
  BY DEF Inv
<1> QED
  BY SpecInv, <1>1, PTL

\* However the two threads interleave, crash and fail, the book is the account for
\* every symbol about which no error, race or loss left a doubt.
THEOREM SpecBookIsAccount == Spec => []BookIsAccount
<1>1. Inv => BookIsAccount
  <2> SUFFICES ASSUME Inv, NEW s \in Symbol \ doubt, ~ Dealt(s) PROVE book[s] = net[s]
    BY DEF BookIsAccount
  <2>1. \A t \in Thread : ~ Sent(t, s)
    BY DEF Dealt, Sent, Active
  <2> QED
    BY <2>1, Threads DEF Inv, BookKept, Agreed
<1> QED
  BY SpecInv, <1>1, PTL

\* However the two threads' saves race, the file has what memory has once both rest.
THEOREM SpecFileCatchesUp == Spec => []FileCatchesUp
<1>1. Inv => FileCatchesUp
  <2> SUFFICES ASSUME Saved, pc["engine"] \in {"wait", "off"}, pc["server"] = "idle", ~ cut
               PROVE  file = Contents
    BY DEF FileCatchesUp, Inv
  <2>1. \A t \in Thread : pc[t] \in Resting \cup {"replace"} /\ pc[t] # "replace"
    BY Threads DEF Resting
  <2> QED
    BY <2>1 DEF Saved
<1> QED
  BY SpecInv, <1>1, PTL

\* No step of either thread puts back into the book what its engine sold and lets cool.
THEOREM SpecNoRebuyWhileCooling == Spec => NoRebuyWhileCooling
<1> DEFINE Cold == \A s \in hot \cap hot' : book[s] = 0 => book'[s] = 0
<1>1. Inv /\ [Next]_vars => [Cold]_vars
  <2> SUFFICES ASSUME Inv, Next, NEW s \in hot \cap hot', book[s] = 0 PROVE book'[s] = 0
    OBVIOUS
  <2>0. /\ Deals /\ book \in [Symbol -> Lot] /\ s \in Symbol
    BY DEF Inv, TypeOK
  <2>1. CASE \E t \in Thread : EndSale(t)
    <3>1. PICK t \in Thread : EndSale(t)
      BY <2>1
    <3>2. book' = Booked(deal[t])
      BY <3>1 DEF EndSale
    <3> QED
      BY <2>0, <3>2 DEF Booked
  <2>2. CASE EndBuy
    <3> DEFINE d == deal["engine"]
    <3>1. d.side \in {"buy", "add"}
      BY <2>2 DEF EndBuy
    <3>2. Active("engine")
      BY <3>1 DEF Active, NoDeal
    <3>3. d.side = "buy" => d.s # s
      BY <2>0, <3>2 DEF Deals
    <3>4. book' = [book EXCEPT ![d.s] = IF d.side = "buy" THEN d.n
                                        ELSE IF book[d.s] = 0 THEN 0 ELSE book[d.s] + d.n]
      BY <2>0, <2>2 DEF EndBuy
    <3> QED
      BY <2>0, <3>1, <3>3, <3>4
  <2>3. CASE Start \/ Crash
    BY <2>3 DEF Start, Crash
  <2>4. CASE \/ Stop \/ BeginClose \/ (\E r \in Symbol : CoolEnds(r))
    BY <2>4 DEF Stop, BeginClose, CoolEnds, memory
  <2>5. CASE \E t \in Thread : Steps(t) /\ ~ EndSale(t) /\ ~ EndBuy
    <3>1. UNCHANGED book
      BY <2>5 DEF Steps, Write, Replace, BeginOverseas, BeginCrypto, Leave, BeginEntries,
         EndPass, Buy, Pass, Exit, Add, EnterOverseas, EnterCrypto, Decided, EndClose,
         CloseNot, Close, memory
    <3> QED
      BY <3>1
  <2> QED
    BY <2>1, <2>2, <2>3, <2>4, <2>5 DEF Next
<1> QED
  BY SpecInv, <1>1, PTL DEF Spec, NoRebuyWhileCooling

------------------------------------------------------------------------------
\* The lists and the back-tests

\* Whoever writes the preferences read them while nobody else may write.
SaverHolds ==
    /\ prefs = [m \in Market |-> prefs[m]] /\ job = [w \in Worker |-> job[w]]
    /\ \A w \in Worker : job[w].stage = "save" =>
          /\ holder = w /\ job[w].data = [m \in Market |-> job[w].data[m]]
          /\ \A m \in Market \ {job[w].market} : job[w].data[m] = prefs[m]

\* No worker but w changes what it is doing, nor is anything written.
LEMMA OneWorks ==
  ASSUME SaverHolds, NEW w \in Worker, NEW r, job' = [job EXCEPT ![w] = r],
         r.stage # "save", UNCHANGED <<holder, prefs>>
  PROVE  SaverHolds'
<1>1. job' = [v \in Worker |-> job'[v]] /\ job'[w] = r
  BY DEF SaverHolds
<1>2. \A v \in Worker : v # w => job'[v] = job[v]
  BY DEF SaverHolds
<1> QED
  BY <1>1, <1>2 DEF SaverHolds

LEMMA ClaimHolds ==
  ASSUME SaverHolds, NEW c \in Caller, Claim(c)
  PROVE  SaverHolds'
<1>1. MarketOf(c) \in Worker
  BY DEF MarketOf, Caller, Worker, Market
<1>2. CASE MarketOf(c) \in running
  BY <1>2 DEF Claim, SaverHolds
<1>3. CASE MarketOf(c) \notin running
  <2> DEFINE r == [stage |-> "replay", market |-> MarketOf(c), list |-> asked[c]]
  <2>1. job' = [job EXCEPT ![MarketOf(c)] = r] /\ UNCHANGED <<holder, prefs>>
    BY <1>3 DEF Claim
  <2>2. r.stage # "save"
    OBVIOUS
  <2> HIDE DEF r
  <2> QED
    BY <1>1, <2>1, <2>2, OneWorks
<1> QED
  BY <1>2, <1>3

LEMMA PageHolds ==
  ASSUME SaverHolds, RunFromPage
  PROVE  SaverHolds'
<1>1. PICK r : job' = [job EXCEPT !["page"] = r] /\ r.stage # "save"
  <2>1. PICK m, list :
           job' = [job EXCEPT !["page"] = [stage |-> "replay", market |-> m, list |-> list]]
    BY DEF RunFromPage
  <2> DEFINE r == [stage |-> "replay", market |-> m, list |-> list]
  <2>2. job' = [job EXCEPT !["page"] = r] /\ r.stage # "save"
    BY <2>1
  <2> HIDE DEF r
  <2> QED
    BY <2>2
<1>2. "page" \in Worker /\ UNCHANGED <<holder, prefs>>
  BY DEF RunFromPage, Worker
<1> QED
  BY <1>1, <1>2, OneWorks

LEMMA ReplayHolds ==
  ASSUME SaverHolds, NEW w \in Worker, Replay(w) \/ GiveUp(w)
  PROVE  SaverHolds'
<1>1. UNCHANGED <<holder, prefs>>
  BY DEF Replay, GiveUp
<1>2. CASE Replay(w)
  <2>1. PICK k, x : job' = [job EXCEPT ![w] = [stage |-> "tested", market |-> k, result |-> x]]
    BY <1>2 DEF Replay
  <2> DEFINE r == [stage |-> "tested", market |-> k, result |-> x]
  <2>2. job' = [job EXCEPT ![w] = r] /\ r.stage # "save"
    BY <2>1
  <2> HIDE DEF r
  <2> QED
    BY <1>1, <2>2, OneWorks
<1>3. CASE GiveUp(w)
  <2>1. job' = [job EXCEPT ![w] = NoJob] /\ NoJob.stage # "save"
    BY <1>3 DEF GiveUp, NoJob
  <2> QED
    BY <1>1, <2>1, OneWorks
<1> QED
  BY <1>2, <1>3

LEMMA LoadHolds ==
  ASSUME SaverHolds, NEW w \in Worker, Load(w)
  PROVE  SaverHolds'
<1>1. /\ holder = Nobody /\ holder' = w /\ prefs' = prefs
      /\ job' = [job EXCEPT ![w] = [stage |-> "save", market |-> job[w].market,
                                    data |-> [prefs EXCEPT ![job[w].market] = job[w].result]]]
  BY DEF Load
<1>2. \A v \in Worker : job[v].stage # "save"
  BY <1>1 DEF SaverHolds, Nobody, Worker, Market
<1>3. /\ job' = [v \in Worker |-> job'[v]]
      /\ job'[w].market = job[w].market
      /\ job'[w].data = [prefs EXCEPT ![job[w].market] = job[w].result]
      /\ \A v \in Worker : v # w => job'[v] = job[v]
  BY <1>1 DEF SaverHolds
<1>4. /\ job'[w].data = [m \in Market |-> job'[w].data[m]]
      /\ \A m \in Market \ {job[w].market} : job'[w].data[m] = prefs[m]
  BY <1>3 DEF SaverHolds
<1> QED
  BY <1>1, <1>2, <1>3, <1>4 DEF SaverHolds

LEMMA SaveHolds ==
  ASSUME SaverHolds, NEW w \in Worker, Save(w)
  PROVE  SaverHolds'
<1>1. /\ job[w].stage = "save" /\ prefs' = job[w].data /\ job' = [job EXCEPT ![w] = NoJob]
  BY DEF Save
<1>2. \A v \in Worker : v # w => job[v].stage # "save"
  BY <1>1 DEF SaverHolds
<1>3. /\ job' = [v \in Worker |-> job'[v]] /\ job'[w] = NoJob
      /\ \A v \in Worker : v # w => job'[v] = job[v]
  BY <1>1 DEF SaverHolds
<1>4. NoJob.stage # "save"
  BY DEF NoJob
<1>5. prefs' = [m \in Market |-> prefs'[m]]
  BY <1>1 DEF SaverHolds
<1> QED
  BY <1>2, <1>3, <1>4, <1>5 DEF SaverHolds

LEMMA ClearHolds ==
  ASSUME SaverHolds, Clear
  PROVE  SaverHolds'
<1>1. holder = Nobody /\ UNCHANGED <<holder, job>>
  BY DEF Clear
<1>2. \A v \in Worker : job[v].stage # "save"
  BY <1>1 DEF SaverHolds, Nobody, Worker, Market
<1>3. prefs' = [m \in Market |-> prefs'[m]]
  BY DEF Clear
<1> QED
  BY <1>1, <1>2, <1>3 DEF SaverHolds

LEMMA ListsHold ==
  ASSUME SaverHolds,
         \/ RateThemes \/ AutoSelect \/ ScanStep \/ DailyEntryCycle \/ Refresh \/ Tick
         \/ \E c \in {"domestic", "web"} : Rescreened(c)
         \/ \E s \in resting : Rested(s)
  PROVE  SaverHolds'
<1>1. UNCHANGED <<job, holder, prefs>>
  BY DEF RateThemes, AutoSelect, ScanStep, BeginScan, EndScan, DailyEntryCycle, Refresh, Tick,
     Rescreened, Rested, MaybeTrigger, tests
<1> QED
  BY <1>1 DEF SaverHolds

LEMMA SaverNext ==
  ASSUME SaverHolds, [ListsNext]_listsVars
  PROVE  SaverHolds'
<1>1. CASE UNCHANGED listsVars
  BY <1>1 DEF listsVars, tests, SaverHolds
<1>2. CASE ListsNext
  BY <1>2, ClaimHolds, PageHolds, ReplayHolds, LoadHolds, SaveHolds, ClearHolds, ListsHold DEF
     ListsNext, TestStep
<1> QED
  BY <1>1, <1>2

\* A back-test changes its own market's preferences and no other's, however many end at
\* once and whatever the page clears meanwhile (technique_prefs.py: save_from_backtest reads
\* and writes the whole file under one lock).
THEOREM PreferencesKept == ListsSpec => OthersKept
<1>1. ListsInit => SaverHolds
  BY DEF ListsInit, NoJob, SaverHolds
<1>2. SaverHolds /\ [ListsNext]_listsVars => SaverHolds'
  BY SaverNext
<1>3. SaverHolds /\ [ListsNext]_listsVars =>
        [\A w \in Worker : job[w].stage = "save" /\ job'[w] = NoJob =>
            \A m \in Market \ {job[w].market} : prefs'[m] = prefs[m]]_listsVars
  <2> SUFFICES ASSUME SaverHolds, ListsNext, NEW w \in Worker,
                      job[w].stage = "save", job'[w] = NoJob,
                      NEW m \in Market, m # job[w].market
               PROVE  prefs'[m] = prefs[m]
    OBVIOUS
  <2>1. ASSUME NEW v \in Worker, Save(v) PROVE prefs'[m] = prefs[m]
    BY <2>1 DEF Save, SaverHolds
  <2>2. CASE Clear
    BY <2>2 DEF Clear, SaverHolds, Nobody, Worker, Market
  <2>3. CASE UNCHANGED prefs
    BY <2>3
  <2>4. (\E v \in Worker : Save(v)) \/ Clear \/ UNCHANGED prefs
    BY DEF ListsNext, TestStep, RateThemes, AutoSelect, ScanStep, BeginScan, EndScan,
       DailyEntryCycle, Refresh, Tick, Rescreened, Rested, MaybeTrigger, tests, Claim, RunFromPage,
       Replay, GiveUp, Load
  <2> QED
    BY <2>1, <2>2, <2>3, <2>4
<1> QED
  BY <1>1, <1>2, <1>3, PTL DEF ListsSpec, OthersKept

------------------------------------------------------------------------------
\* One replay of a market

\* A market counts as running just while a back-test of its own is in progress, which is
\* of that market.
ReplaysApart ==
    \A m \in Market :
        /\ m \in running <=> job[m] # NoJob
        /\ job[m] # NoJob => job[m].market = m

ListsInv == ListsTypeOK /\ ReplaysApart

ListsData ==
    /\ on \in Settings /\ now \in DOMAIN Moments
    /\ pickDay \in [Source -> Nat] /\ themePhase \in Traded \cup {"none"}
    /\ stale \in BOOLEAN /\ resting \subseteq Source /\ scan \in Nat
    /\ lapses \in 0..MaxLapse
TestsData ==
    /\ asked \in [Caller -> SUBSET Ticker] /\ running \subseteq Market
    /\ job \in [Worker -> Job] /\ holder \in Worker \cup {Nobody}
    /\ prefs \in [Market -> Result] /\ runs \in 0..MaxRun

LEMMA ListsParts == ListsTypeOK <=> ListsData /\ TestsData
BY DEF ListsTypeOK, ListsData, TestsData

LEMMA DayIsNat ==
  ASSUME now \in DOMAIN Moments
  PROVE  day \in Nat
<1>1. Moments[now] \in Nat
  BY ReselectionAssumption
<1>2. (Moments[now] + 9 * 60) \div (24 * 60) \in Nat
  BY <1>1
<1>3. day = Korean(Moments[now])
  BY DEF day, Dates
<1> QED
  BY <1>2, <1>3 DEF Korean, Hour, Minutes

LEMMA TriggerTypes ==
  ASSUME TestsData, NEW c \in Caller, NEW list \in SUBSET Ticker, MaybeTrigger(c, list)
  PROVE  TestsData' /\ UNCHANGED <<running, job>>
<1>1. UNCHANGED <<running, job, holder, prefs>>
  BY DEF MaybeTrigger
<1>2. asked' \in [Caller -> SUBSET Ticker]
  BY DEF MaybeTrigger, TestsData
<1>3. runs' \in 0..MaxRun
  BY ReselectionAssumption DEF MaybeTrigger, TestsData
<1> QED
  BY <1>1, <1>2, <1>3 DEF TestsData

LEMMA TestsStay ==
  ASSUME TestsData, UNCHANGED tests
  PROVE  TestsData' /\ UNCHANGED <<running, job>>
BY DEF TestsData, tests

LEMMA ListsStay ==
  ASSUME ListsData, UNCHANGED <<on, now, lists, lapses>>
  PROVE  ListsData'
BY DEF ListsData, lists

LEMMA LapseTypes ==
  ASSUME lapses \in 0..MaxLapse, lapses < MaxLapse, lapses' = lapses + 1
  PROVE  lapses' \in 0..MaxLapse
BY ReselectionAssumption

LEMMA PickedTypes ==
  ASSUME pickDay \in [Source -> Nat], NEW s \in Source, NEW d \in Nat, Picked(s, d)
  PROVE  pickDay' \in [Source -> Nat]
BY DEF Picked

LEMMA RateThemesTypes ==
  ASSUME ListsData, TestsData, RateThemes
  PROVE  ListsData' /\ TestsData' /\ UNCHANGED <<running, job>>
<1>1. phase \in Traded /\ day \in Nat /\ "themes" \in Source /\ "overseas" \in Caller
  BY DayIsNat DEF RateThemes, IsUsTradable, ListsData, Source, Caller, Market
<1>2. UNCHANGED <<on, now, scan>>
  BY DEF RateThemes
<1>3. ASSUME NEW found \in SUBSET Ticker, Picked("themes", day), themePhase' = phase,
             stale' = FALSE, UNCHANGED <<resting, lapses>>,
             IF found \cup Fixed = {} THEN UNCHANGED tests
             ELSE MaybeTrigger("overseas", found \cup Fixed)
      PROVE  ListsData' /\ TestsData' /\ UNCHANGED <<running, job>>
  <2>1. pickDay' \in [Source -> Nat]
    BY <1>1, <1>3, PickedTypes DEF ListsData
  <2>2. found \cup Fixed \in SUBSET Ticker
    BY ReselectionAssumption
  <2> QED
    BY <1>1, <1>2, <1>3, <2>1, <2>2, TriggerTypes, TestsStay DEF ListsData
<1>4. ASSUME lapses < MaxLapse, lapses' = lapses + 1, resting' = resting \cup {"themes"},
             UNCHANGED <<pickDay, themePhase, stale, tests>>
      PROVE  ListsData' /\ TestsData' /\ UNCHANGED <<running, job>>
  <2>1. lapses' \in 0..MaxLapse
    BY <1>4, LapseTypes DEF ListsData
  <2> QED
    BY <1>1, <1>2, <1>4, <2>1, TestsStay DEF ListsData
<1> QED
  BY <1>3, <1>4 DEF RateThemes

LEMMA SelectTypes ==
  ASSUME ListsData, TestsData, AutoSelect \/ DailyEntryCycle
  PROVE  ListsData' /\ TestsData' /\ UNCHANGED <<running, job>>
<1>1. day \in Nat /\ {"auto", "swing"} \subseteq Source /\ "swing" \in Caller
  BY DayIsNat DEF ListsData, Source, Caller, Market
<1>2. CASE AutoSelect
  <2>1. pickDay' \in [Source -> Nat] /\ lapses' \in 0..MaxLapse
    BY <1>1, <1>2, PickedTypes, LapseTypes DEF AutoSelect, ListsData
  <2>2. UNCHANGED <<on, now, themePhase, stale, resting, scan, tests>>
    BY <1>2 DEF AutoSelect
  <2> QED
    BY <2>1, <2>2, TestsStay DEF ListsData
<1>3. CASE DailyEntryCycle
  <2>1. pickDay' \in [Source -> Nat]
    BY <1>1, <1>3, PickedTypes DEF DailyEntryCycle, ListsData
  <2>2. UNCHANGED <<on, now, themePhase, stale, resting, scan, lapses>>
    BY <1>3 DEF DailyEntryCycle
  <2>3. TestsData' /\ UNCHANGED <<running, job>>
    BY <1>1, <1>3, TestsStay, TriggerTypes DEF DailyEntryCycle
  <2> QED
    BY <2>1, <2>2, <2>3 DEF ListsData
<1> QED
  BY <1>2, <1>3

LEMMA ScanTypes ==
  ASSUME ListsData, TestsData, ScanStep
  PROVE  ListsData' /\ TestsData' /\ UNCHANGED <<running, job>>
<1>1. day \in Nat /\ "volume" \in Source /\ "crypto" \in Caller
  BY DayIsNat DEF ListsData, Source, Caller, Market
<1>2. CASE BeginScan
  BY <1>1, <1>2, TestsStay DEF BeginScan, ListsData
<1>3. CASE EndScan
  <2>1. UNCHANGED <<on, now, themePhase, stale>> /\ scan' = 0
    BY <1>3 DEF EndScan
  <2>2. ASSUME NEW found \in SUBSET Ticker \ {{}}, Picked("volume", scan),
               MaybeTrigger("crypto", found), UNCHANGED <<resting, lapses>>
        PROVE  ListsData' /\ TestsData' /\ UNCHANGED <<running, job>>
    <3>1. pickDay' \in [Source -> Nat]
      BY <1>1, <2>2, PickedTypes DEF ListsData
    <3> QED
      BY <1>1, <2>1, <2>2, <3>1, TriggerTypes DEF ListsData
  <2>3. ASSUME lapses < MaxLapse, lapses' = lapses + 1, resting' = resting \cup {"volume"},
               UNCHANGED <<pickDay, tests>>
        PROVE  ListsData' /\ TestsData' /\ UNCHANGED <<running, job>>
    <3>1. lapses' \in 0..MaxLapse
      BY <2>3, LapseTypes DEF ListsData
    <3> QED
      BY <1>1, <2>1, <2>3, <3>1, TestsStay DEF ListsData
  <2> QED
    BY <1>3, <2>2, <2>3 DEF EndScan
<1> QED
  BY <1>2, <1>3 DEF ScanStep

LEMMA TimeTypes ==
  ASSUME ListsData, TestsData,
         \/ \E c \in {"domestic", "web"} : Rescreened(c)
         \/ \E s \in resting : Rested(s)
         \/ Refresh \/ Tick
  PROVE  ListsData' /\ TestsData' /\ UNCHANGED <<running, job>>
<1>1. ASSUME NEW c \in {"domestic", "web"}, Rescreened(c)
      PROVE  ListsData' /\ TestsData' /\ UNCHANGED <<running, job>>
  <2>1. c \in Caller
    BY DEF Caller, Market
  <2> QED
    BY <1>1, <2>1, TriggerTypes, ListsStay DEF Rescreened
<1>2. ASSUME NEW s \in resting, Rested(s)
      PROVE  ListsData' /\ TestsData' /\ UNCHANGED <<running, job>>
  BY <1>2, TestsStay DEF Rested, ListsData
<1>3. CASE Refresh
  <2>1. lapses' \in 0..MaxLapse
    BY <1>3, LapseTypes DEF Refresh, ListsData
  <2> QED
    BY <1>3, <2>1, TestsStay DEF Refresh, ListsData
<1>4. CASE Tick
  <2>1. now' \in DOMAIN Moments
    BY <1>4, ReselectionAssumption DEF Tick, ListsData
  <2> QED
    BY <1>4, <2>1, TestsStay DEF Tick, ListsData, lists
<1> QED
  BY <1>1, <1>2, <1>3, <1>4

\* What a back-test is doing, and of which market, through its stages.
LEMMA JobFields ==
  ASSUME NEW j \in Job
  PROVE  /\ j.stage = "none" <=> j = NoJob
         /\ j # NoJob => j.market \in Market
         /\ j.stage = "replay" => j.list \in SUBSET Ticker
         /\ j.stage = "tested" => j.result \in Result
         /\ j.stage = "save" => j.data \in [Market -> Result]
BY DEF Job, NoJob

LEMMA JobMakes ==
  ASSUME NEW m \in Market
  PROVE  /\ \A list \in SUBSET Ticker : [stage |-> "replay", market |-> m, list |-> list] \in Job
         /\ \A r \in Result : [stage |-> "tested", market |-> m, result |-> r] \in Job
         /\ \A d \in [Market -> Result] : [stage |-> "save", market |-> m, data |-> d] \in Job
BY DEF Job

\* A worker goes on with the same market's back-test.
LEMMA WorkerGoesOn ==
  ASSUME TestsData, ReplaysApart, NEW w \in Worker, NEW j \in Job, job[w] # NoJob,
         j # NoJob, j.market = job[w].market, job' = [job EXCEPT ![w] = j],
         UNCHANGED <<asked, running, runs>>, holder' \in Worker \cup {Nobody},
         prefs' \in [Market -> Result]
  PROVE  TestsData' /\ ReplaysApart'
<1>1. job' \in [Worker -> Job] /\ job'[w] = j /\ \A v \in Worker : v # w => job'[v] = job[v]
  BY DEF TestsData
<1>2. TestsData'
  BY <1>1 DEF TestsData
<1>3. ASSUME NEW m \in Market
      PROVE  (m \in running' <=> job'[m] # NoJob) /\ (job'[m] # NoJob => job'[m].market = m)
  <2>1. m \in Worker /\ UNCHANGED running
    BY DEF Worker
  <2>2. CASE m = w
    BY <1>1, <2>1, <2>2 DEF ReplaysApart
  <2>3. CASE m # w
    BY <1>1, <2>1, <2>3 DEF ReplaysApart
  <2> QED
    BY <2>2, <2>3
<1> QED
  BY <1>2, <1>3 DEF ReplaysApart

\* A worker is done, and its market counts as running no longer.
LEMMA WorkerEnds ==
  ASSUME TestsData, ReplaysApart, NEW w \in Worker, job' = [job EXCEPT ![w] = NoJob],
         running' = running \ {w}, UNCHANGED <<asked, runs>>,
         holder' \in Worker \cup {Nobody}, prefs' \in [Market -> Result]
  PROVE  TestsData' /\ ReplaysApart'
<1>1. /\ job' \in [Worker -> Job] /\ job'[w] = NoJob
      /\ \A v \in Worker : v # w => job'[v] = job[v]
  BY DEF TestsData, Job
<1>2. TestsData'
  BY <1>1 DEF TestsData
<1>3. ASSUME NEW m \in Market
      PROVE  (m \in running' <=> job'[m] # NoJob) /\ (job'[m] # NoJob => job'[m].market = m)
  <2>1. m \in Worker
    BY DEF Worker
  <2>2. CASE m = w
    BY <1>1, <2>2
  <2>3. CASE m # w
    BY <1>1, <2>1, <2>3 DEF ReplaysApart
  <2> QED
    BY <2>2, <2>3
<1> QED
  BY <1>2, <1>3 DEF ReplaysApart

LEMMA ClaimTypes ==
  ASSUME TestsData, ReplaysApart, NEW c \in Caller, Claim(c)
  PROVE  TestsData' /\ ReplaysApart'
<1>1. MarketOf(c) \in Market /\ MarketOf(c) \in Worker
  BY DEF MarketOf, Caller, Worker, Market
<1>2. asked' \in [Caller -> SUBSET Ticker] /\ UNCHANGED <<holder, prefs, runs>>
  BY DEF Claim, TestsData
<1>3. CASE MarketOf(c) \in running
  BY <1>2, <1>3 DEF Claim, TestsData, ReplaysApart
<1>4. CASE MarketOf(c) \notin running
  <2> DEFINE k == MarketOf(c)
             j == [stage |-> "replay", market |-> k, list |-> asked[c]]
  <2>1. running' = running \cup {k} /\ job' = [job EXCEPT ![k] = j]
    BY <1>4 DEF Claim
  <2>2. j \in Job /\ j # NoJob /\ j.market = k
    BY <1>1, JobMakes DEF TestsData, NoJob
  <2> HIDE DEF j
  <2>3. job' \in [Worker -> Job] /\ job'[k] = j /\ \A v \in Worker : v # k => job'[v] = job[v]
    BY <1>1, <2>1, <2>2 DEF TestsData
  <2>4. TestsData'
    BY <1>1, <1>2, <2>1, <2>3 DEF TestsData
  <2>5. ASSUME NEW m \in Market
        PROVE  (m \in running' <=> job'[m] # NoJob) /\ (job'[m] # NoJob => job'[m].market = m)
    <3>1. m \in Worker
      BY DEF Worker
    <3>2. CASE m = k
      BY <2>1, <2>2, <2>3, <3>2
    <3>3. CASE m # k
      BY <2>1, <2>3, <3>1, <3>3 DEF ReplaysApart
    <3> QED
      BY <3>2, <3>3
  <2> QED
    BY <2>4, <2>5 DEF ReplaysApart
<1> QED
  BY <1>3, <1>4

LEMMA PageTypes ==
  ASSUME TestsData, ReplaysApart, RunFromPage
  PROVE  TestsData' /\ ReplaysApart'
<1>1. PICK m \in Market, list \in SUBSET Ticker :
         job' = [job EXCEPT !["page"] = [stage |-> "replay", market |-> m, list |-> list]]
  BY DEF RunFromPage
<1>2. "page" \in Worker /\ "page" \notin Market
  BY DEF Worker, Market
<1>3. job' \in [Worker -> Job] /\ \A v \in Market : job'[v] = job[v]
  BY <1>1, <1>2, JobMakes DEF TestsData, Worker
<1>4. runs' \in 0..MaxRun /\ UNCHANGED <<asked, running, holder, prefs>>
  BY ReselectionAssumption DEF RunFromPage, TestsData
<1> QED
  BY <1>3, <1>4 DEF TestsData, ReplaysApart

LEMMA StepTypes ==
  ASSUME TestsData, ReplaysApart, day \in Nat, NEW w \in Worker, TestStep(w)
  PROVE  TestsData' /\ ReplaysApart'
<1>1. job[w] \in Job
  BY DEF TestsData
<1>2. CASE Replay(w)
  <2>1. PICK got \in SUBSET job[w].list :
           job' = [job EXCEPT ![w] = [stage |-> "tested", market |-> job[w].market,
                                      result |-> [day |-> day, sig |-> got]]]
    BY <1>2 DEF Replay
  <2>2. job[w].stage = "replay" /\ job[w] # NoJob /\ job[w].market \in Market
    BY <1>1, <1>2, JobFields DEF Replay, NoJob
  <2>3. [day |-> day, sig |-> got] \in Result
    BY <1>1, <2>2, JobFields DEF Result
  <2> DEFINE j == [stage |-> "tested", market |-> job[w].market,
                   result |-> [day |-> day, sig |-> got]]
  <2>4. j \in Job /\ j # NoJob /\ j.market = job[w].market
    BY <2>2, <2>3, JobMakes DEF NoJob
  <2>5. /\ job' = [job EXCEPT ![w] = j] /\ UNCHANGED <<asked, running, runs, holder, prefs>>
    BY <1>2, <2>1 DEF Replay
  <2> HIDE DEF j
  <2> QED
    BY <2>2, <2>4, <2>5, WorkerGoesOn DEF TestsData
<1>3. CASE GiveUp(w)
  BY <1>3, WorkerEnds DEF GiveUp, TestsData
<1>4. CASE Load(w)
  <2> DEFINE d == [prefs EXCEPT ![job[w].market] = job[w].result]
             j == [stage |-> "save", market |-> job[w].market, data |-> d]
  <2>1. job[w].stage = "tested" /\ job[w] # NoJob /\ job[w].market \in Market
    BY <1>1, <1>4, JobFields DEF Load, NoJob
  <2>2. d \in [Market -> Result]
    BY <1>1, <2>1, JobFields DEF TestsData
  <2>3. job' = [job EXCEPT ![w] = j]
    BY <1>4 DEF Load
  <2> HIDE DEF d
  <2>4. j \in Job /\ j # NoJob /\ j.market = job[w].market
    BY <2>1, <2>2, JobMakes DEF NoJob
  <2> HIDE DEF j
  <2>5. holder' = w /\ UNCHANGED <<asked, running, runs, prefs>>
    BY <1>4 DEF Load
  <2> QED
    BY <2>1, <2>3, <2>4, <2>5, WorkerGoesOn DEF TestsData
<1>5. CASE Save(w)
  <2>1. prefs' \in [Market -> Result]
    BY <1>1, <1>5, JobFields DEF Save
  <2> QED
    BY <1>5, <2>1, WorkerEnds DEF Save
<1> QED
  BY <1>2, <1>3, <1>4, <1>5 DEF TestStep

LEMMA ClearTypes ==
  ASSUME TestsData, ReplaysApart, Clear
  PROVE  TestsData' /\ ReplaysApart'
<1>1. NoPrefs \in Result
  BY DEF NoPrefs, Result
<1>2. prefs' \in [Market -> Result]
  BY <1>1 DEF Clear, TestsData
<1>3. runs' \in 0..MaxRun
  BY ReselectionAssumption DEF Clear, TestsData
<1>4. UNCHANGED <<asked, running, job, holder>>
  BY DEF Clear
<1> QED
  BY <1>2, <1>3, <1>4 DEF TestsData, ReplaysApart

LEMMA ListsInitInv == ListsInit => ListsInv
<1> SUFFICES ASSUME ListsInit
             PROVE  ListsInv
  OBVIOUS
<1>1. ListsData
  <2>1. Len(Moments) \in Nat \ {0} /\ DOMAIN Moments = 1..Len(Moments)
    BY ReselectionAssumption
  <2>2. now \in DOMAIN Moments /\ on \in Settings
    BY <2>1 DEF ListsInit
  <2>3. pickDay \in [Source -> Nat] /\ scan \in Nat
    BY DEF ListsInit
  <2>4. /\ themePhase \in Traded \cup {"none"} /\ stale \in BOOLEAN
        /\ resting \subseteq Source
    BY DEF ListsInit
  <2>5. lapses \in 0..MaxLapse
    BY ReselectionAssumption DEF ListsInit
  <2> QED
    BY <2>2, <2>3, <2>4, <2>5 DEF ListsData
<1>2. NoPrefs \in Result /\ NoJob \in Job
  BY DEF NoPrefs, Result, Job
<1>3. TestsData
  BY <1>2, ReselectionAssumption DEF ListsInit, TestsData
<1>4. ReplaysApart
  BY DEF ListsInit, ReplaysApart, Worker
<1> QED
  BY <1>1, <1>3, <1>4, ListsParts DEF ListsInv

LEMMA ListsInvNext == ListsInv /\ [ListsNext]_listsVars => ListsInv'
<1> SUFFICES ASSUME ListsInv, [ListsNext]_listsVars
             PROVE  ListsData' /\ TestsData' /\ ReplaysApart'
  BY DEF ListsInv, ListsTypeOK, ListsData, TestsData
<1>1. ListsData /\ TestsData /\ ReplaysApart
  BY ListsParts DEF ListsInv
<1>2. day \in Nat
  BY <1>1, DayIsNat DEF ListsData
<1>3. ASSUME ListsData' /\ TestsData' /\ UNCHANGED <<running, job>>
      PROVE  ListsData' /\ TestsData' /\ ReplaysApart'
  BY <1>1, <1>3 DEF ReplaysApart
<1>4. CASE \/ RateThemes \/ AutoSelect \/ ScanStep \/ DailyEntryCycle \/ Refresh \/ Tick
           \/ \E c \in {"domestic", "web"} : Rescreened(c)
           \/ \E s \in resting : Rested(s)
  BY <1>1, <1>3, <1>4, RateThemesTypes, SelectTypes, ScanTypes, TimeTypes
<1>5. ASSUME NEW c \in Caller, Claim(c)
      PROVE  ListsData' /\ TestsData' /\ ReplaysApart'
  <2>1. UNCHANGED <<on, now, lists, lapses>>
    BY <1>5 DEF Claim
  <2> QED
    BY <1>1, <1>5, <2>1, ListsStay, ClaimTypes
<1>6. CASE RunFromPage \/ Clear
  <2>1. UNCHANGED <<on, now, lists, lapses>>
    BY <1>6 DEF RunFromPage, Clear
  <2> QED
    BY <1>1, <1>6, <2>1, ListsStay, PageTypes, ClearTypes
<1>7. ASSUME NEW w \in Worker, TestStep(w)
      PROVE  ListsData' /\ TestsData' /\ ReplaysApart'
  <2>1. UNCHANGED <<on, now, lists, lapses>>
    BY <1>7 DEF TestStep, Replay, GiveUp, Load, Save
  <2> QED
    BY <1>1, <1>2, <1>7, <2>1, ListsStay, StepTypes
<1>8. CASE UNCHANGED listsVars
  <2>1. UNCHANGED <<on, now, lists, lapses>> /\ UNCHANGED tests
    BY <1>8 DEF listsVars
  <2> QED
    BY <1>1, <1>3, <2>1, ListsStay, TestsStay
<1> QED
  BY <1>4, <1>5, <1>6, <1>7, <1>8 DEF ListsNext

\* The lists are dated, the themes of a traded phase, every back-test is at a stage with the
\* data of it, and the preferences are a result for each market (auto_backtest.py,
\* technique_prefs.py, the engines' selections).
THEOREM ListsTypes == ListsSpec => []ListsTypeOK
BY ListsInitInv, ListsInvNext, PTL DEF ListsSpec, ListsInv

\* A market counts as running just while a back-test of its own is in progress: none is left
\* behind to keep the market from ever being replayed again, and two never run for one market
\* (maybe_trigger claims under the lock, its thread gives back in a finally).
THEOREM OneReplayEach == ListsSpec => []ReplaysApart
BY ListsInitInv, ListsInvNext, PTL DEF ListsSpec, ListsInv
==============================================================================
