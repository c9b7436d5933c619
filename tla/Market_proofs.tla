---------------------------- MODULE Market_proofs ----------------------------
(***************************************************************************)
(* Proofs about what the engines share on their way to the market: the     *)
(* calls to the exchange (Quotes), the trading day (MarketSession) and the *)
(* simulated money (PaperAccount), for every value of their constants.  Of *)
(* PaperAccount, PaperInv says what a position may be, in the book and in  *)
(* the file, BalanceInv that each is worth what was paid for it and that   *)
(* the books balance.                                                      *)
(***************************************************************************)
EXTENDS Quotes, MarketSession, PaperAccount, Sums

------------------------------------------------------------------------------
\* The way to the exchange

\* While a call is under way, the exchange has not executed it.
NotYet == \A t \in Thread : req[t].at # "idle" => req[t].executed = 0

Inv == TypeOK /\ SentOnce /\ NotYet

------------------------------------------------------------------------------
\* What the actions make of the requests

\* Requests.
LEMMA RequestData ==
  ASSUME NEW r \in Request
  PROVE  /\ r.at \in At /\ r.name \in Name /\ r.attempt \in 0 .. Retries
         /\ r.held \in {"live", "dead"} /\ r.executed \in Nat
         /\ \A a \in At : /\ [r EXCEPT !.at = a] \in Request
                          /\ [r EXCEPT !.at = a].at = a
                          /\ [r EXCEPT !.at = a].executed = r.executed
         /\ \A h \in {"live", "dead"} :
                /\ [r EXCEPT !.held = h] \in Request
                /\ [r EXCEPT !.held = h].at = r.at
                /\ [r EXCEPT !.held = h].executed = r.executed
BY DEF Request, At

\* A request goes on to another place.
LEMMA GoesData ==
  ASSUME NEW r \in Request, NEW a \in At
  PROVE  /\ [r EXCEPT !.at = a] \in Request
         /\ [r EXCEPT !.at = a].at = a
         /\ [r EXCEPT !.at = a].executed = r.executed
BY DEF Request, At

\* One thread's request changes, and the lock only as that thread needs it.
LEMMA OneRequest ==
  ASSUME Inv, NEW t \in Thread, NEW r \in Request,
         req' = [req EXCEPT ![t] = r],
         r.executed <= 1, r.at # "idle" => r.executed = 0,
         lock' = t <=> r.at \in {"fetch", "store"},
         lock' = lock \/ (lock \in {t, Free} /\ lock' \in {t, Free}),
         token' \in Token, file' \in Token, left' \in [Name -> 0 .. Skip]
  PROVE  Inv'
<1>1. /\ req \in [Thread -> Request] /\ lock \in Thread \cup {Free}
      /\ \A s \in Thread : lock = s <=> req[s].at \in {"fetch", "store"}
      /\ \A s \in Thread : req[s].executed <= 1
      /\ \A s \in Thread : req[s].at # "idle" => req[s].executed = 0
      /\ Free \notin Thread
  BY QuotesAssumption DEF Inv, TypeOK, SentOnce, NotYet
<1>2. /\ req' \in [Thread -> Request] /\ req'[t] = r
      /\ \A s \in Thread : s # t => req'[s] = req[s]
  BY <1>1
<1>3. lock' \in Thread \cup {Free}
  BY <1>1
<1>4. \A s \in Thread : lock' = s <=> req'[s].at \in {"fetch", "store"}
  <2> SUFFICES ASSUME NEW s \in Thread
               PROVE  lock' = s <=> req'[s].at \in {"fetch", "store"}
    OBVIOUS
  <2>1. CASE s = t
    BY <1>2, <2>1
  <2>2. CASE s # t
    BY <1>1, <1>2, <2>2
  <2> QED
    BY <2>1, <2>2
<1>5. TypeOK'
  BY <1>2, <1>3, <1>4 DEF TypeOK
<1>6. SentOnce' /\ NotYet'
  BY <1>1, <1>2 DEF SentOnce, NotYet
<1> QED
  BY <1>5, <1>6 DEF Inv

\* A thread that does not hold the lock goes on with nothing new executed.
LEMMA GoesOnKeeps ==
  ASSUME Inv, NEW t \in Thread, NEW r \in Request,
         req' = [req EXCEPT ![t] = r],
         req[t].at \notin {"idle", "fetch", "store"},
         r.executed = req[t].executed, r.at \notin {"fetch", "store"},
         UNCHANGED lock,
         token' \in Token, file' \in Token, left' \in [Name -> 0 .. Skip]
  PROVE  Inv'
<1>1. req[t].executed = 0 /\ lock # t
  BY DEF Inv, NotYet, TypeOK
<1>2. r.executed <= 1 /\ (r.at # "idle" => r.executed = 0)
  BY <1>1
<1>3. lock' = t <=> r.at \in {"fetch", "store"}
  BY <1>1
<1> QED
  BY <1>2, <1>3, OneRequest

LEMMA MarkedType ==
  ASSUME left \in [Name -> 0 .. Skip], NEW n \in Name, MarkFailed(n)
  PROVE  left' \in [Name -> 0 .. Skip]
<1>1. Skip \in 0 .. Skip
  BY QuotesAssumption
<1> QED
  BY <1>1 DEF MarkFailed

\* Where a failure takes the request.
LEMMA ThrownData ==
  ASSUME TypeOK, NEW t \in Thread, Thrown(t)
  PROVE  /\ left' \in [Name -> 0 .. Skip]
         /\ \E a \in {"idle", "backup"} : req' = [req EXCEPT ![t] = [req[t] EXCEPT !.at = a]]
<1>1. req[t] \in Request /\ left \in [Name -> 0 .. Skip]
  BY DEF TypeOK
<1>2. req[t].name \in Name
  BY <1>1, RequestData
<1>3. left' \in [Name -> 0 .. Skip]
  BY <1>1, <1>2, MarkedType DEF Thrown
<1> QED
  BY <1>3 DEF Thrown, Goes

\* Where the next attempt takes it.
LEMMA AgainData ==
  ASSUME TypeOK, NEW t \in Thread, Again(t)
  PROVE  /\ left' \in [Name -> 0 .. Skip]
         /\ \E r \in Request : /\ req' = [req EXCEPT ![t] = r]
                               /\ r.at \in {"idle", "backup", "token"}
                               /\ r.executed = req[t].executed
<1>1. req[t] \in Request /\ left \in [Name -> 0 .. Skip]
  BY DEF TypeOK
<1>2. CASE req[t].attempt = Retries
  <2>1. Thrown(t)
    BY <1>2 DEF Again
  <2>2. PICK a \in {"idle", "backup"} : req' = [req EXCEPT ![t] = [req[t] EXCEPT !.at = a]]
    BY <2>1, ThrownData
  <2>3. a \in At
    BY DEF At
  <2>4. /\ [req[t] EXCEPT !.at = a] \in Request
        /\ [req[t] EXCEPT !.at = a].at = a
        /\ [req[t] EXCEPT !.at = a].executed = req[t].executed
    BY <1>1, <2>3, RequestData
  <2> QED
    BY <2>1, <2>2, <2>4, ThrownData
<1>3. CASE req[t].attempt # Retries
  <2> DEFINE r == [req[t] EXCEPT !.at = "token", !.attempt = req[t].attempt + 1]
  <2>1. req' = [req EXCEPT ![t] = r] /\ left' = left
    BY <1>3 DEF Again
  <2>2. req[t].attempt + 1 \in 0 .. Retries
    <3>1. req[t].attempt \in 0 .. Retries
      BY <1>1, RequestData
    <3> QED
      BY <1>3, <3>1, QuotesAssumption
  <2>3. r \in Request /\ r.at = "token" /\ r.executed = req[t].executed
    BY <1>1, <2>2 DEF Request, At
  <2> QED
    BY <1>1, <2>1, <2>3
<1> QED
  BY <1>2, <1>3

------------------------------------------------------------------------------
\* Inv is inductive

LEMMA InitInv == Init => Inv
<1> SUFFICES ASSUME Init PROVE Inv
  OBVIOUS
<1>1. \A t \in Thread : req[t] \in [at : {"idle"}, name : Name, attempt : {0},
                                    held : {"dead"}, executed : {0}]
  BY DEF Init
<1>2. \A t \in Thread : req[t] \in Request /\ req[t].at = "idle" /\ req[t].executed = 0
  <2> SUFFICES ASSUME NEW t \in Thread
               PROVE  req[t] \in Request /\ req[t].at = "idle" /\ req[t].executed = 0
    OBVIOUS
  <2>1. req[t] \in [at : {"idle"}, name : Name, attempt : {0}, held : {"dead"}, executed : {0}]
    BY <1>1
  <2>2. 0 \in 0 .. Retries
    BY QuotesAssumption
  <2> QED
    BY <2>1, <2>2 DEF Request, At
<1>3. req \in [Thread -> Request]
  BY <1>2 DEF Init
<1>4. left \in [Name -> 0 .. Skip]
  BY QuotesAssumption DEF Init
<1> QED
  BY <1>2, <1>3, <1>4, QuotesAssumption DEF Init, Inv, TypeOK, SentOnce, NotYet, Token

\* A call that fails or is tried again, whatever becomes of the token.
LEMMA FailureKeeps ==
  ASSUME Inv, NEW t \in Thread, At_(t, "send"), Again(t) \/ Thrown(t),
         UNCHANGED lock, token' \in Token, file' \in Token
  PROVE  Inv'
<1>1. TypeOK /\ req[t] \in Request /\ req[t].at = "send"
  BY DEF Inv, TypeOK, At_
<1>2. CASE Again(t)
  <2>1. PICK r \in Request : /\ req' = [req EXCEPT ![t] = r]
                             /\ r.at \in {"idle", "backup", "token"}
                             /\ r.executed = req[t].executed
    BY <1>1, <1>2, AgainData
  <2>2. left' \in [Name -> 0 .. Skip]
    BY <1>1, <1>2, AgainData
  <2> QED
    BY <1>1, <2>1, <2>2, GoesOnKeeps
<1>3. CASE Thrown(t)
  <2>1. PICK a \in {"idle", "backup"} : req' = [req EXCEPT ![t] = [req[t] EXCEPT !.at = a]]
    BY <1>1, <1>3, ThrownData
  <2>2. left' \in [Name -> 0 .. Skip]
    BY <1>1, <1>3, ThrownData
  <2>3. /\ [req[t] EXCEPT !.at = a] \in Request
        /\ [req[t] EXCEPT !.at = a].at = a
        /\ [req[t] EXCEPT !.at = a].executed = req[t].executed
    <3>1. a \in At
      BY DEF At
    <3> QED
      BY <1>1, <3>1, GoesData
  <2> QED
    BY <1>1, <2>1, <2>2, <2>3, GoesOnKeeps
<1> QED
  BY <1>2, <1>3

\* An answer ends the call; of an order it may be the execution.
LEMMA EndKeeps ==
  ASSUME Inv, NEW t \in Thread, At_(t, "send"), NEW n \in {0, 1},
         req' = [req EXCEPT ![t].at = "idle", ![t].executed = req[t].executed + n],
         UNCHANGED <<lock, token, file, left>>
  PROVE  Inv'
<1>1. req[t] \in Request /\ req[t].at = "send" /\ req[t].executed = 0 /\ lock # t
  BY DEF Inv, TypeOK, NotYet, At_
<1> DEFINE r == [req[t] EXCEPT !.at = "idle", !.executed = req[t].executed + n]
<1>2. req' = [req EXCEPT ![t] = r]
  <2>1. req \in [Thread -> Request]
    BY DEF Inv, TypeOK
  <2> QED
    BY <2>1
<1>3. r \in Request /\ r.at = "idle" /\ r.executed = n
  <2>1. req[t].executed + n = n /\ n \in Nat
    BY <1>1
  <2>2. r = [req[t] EXCEPT !.at = "idle", !.executed = n]
    BY <2>1
  <2> QED
    BY <1>1, <2>1, <2>2 DEF Request, At
<1>4. token' \in Token /\ file' \in Token /\ left' \in [Name -> 0 .. Skip]
  BY DEF Inv, TypeOK
<1> HIDE DEF r
<1>5. r.executed <= 1 /\ (r.at # "idle" => r.executed = 0)
  BY <1>3
<1>6. (lock' = t <=> r.at \in {"fetch", "store"}) /\ lock' = lock
  BY <1>1, <1>3
<1> QED
  BY <1>2, <1>3, <1>4, <1>5, <1>6, OneRequest

\* Other threads' requests are still where they were, with a token that is dead.
LEMMA HeldKeeps ==
  ASSUME Inv, NEW h \in [Thread -> {"live", "dead"}], NEW t \in Thread \cup {Free},
         NEW a \in At, t # Free => req[t].at = "fetch" /\ a = "store",
         req' = [s \in Thread |-> [req[s] EXCEPT !.held = h[s],
                                                 !.at = IF s = t THEN a ELSE req[s].at]],
         UNCHANGED <<lock, left>>, token' \in Token, file' \in Token
  PROVE  Inv'
<1>1. \A s \in Thread : req[s] \in Request
  BY DEF Inv, TypeOK
<1>2. \A s \in Thread : /\ req'[s] \in Request
                        /\ req'[s].at = IF s = t THEN a ELSE req[s].at
                        /\ req'[s].executed = req[s].executed
  <2> SUFFICES ASSUME NEW s \in Thread
               PROVE  /\ req'[s] \in Request
                      /\ req'[s].at = IF s = t THEN a ELSE req[s].at
                      /\ req'[s].executed = req[s].executed
    OBVIOUS
  <2>1. req'[s] = [req[s] EXCEPT !.held = h[s], !.at = IF s = t THEN a ELSE req[s].at]
    OBVIOUS
  <2>2. req[s] \in Request /\ h[s] \in {"live", "dead"}
    BY <1>1
  <2> QED
    BY <2>1, <2>2 DEF Request, At
<1>3. req' \in [Thread -> Request]
  BY <1>2
<1>4. Free \notin Thread
  BY QuotesAssumption
<1>5. TypeOK'
  BY <1>2, <1>3, <1>4 DEF Inv, TypeOK
<1>6. SentOnce' /\ NotYet'
  BY <1>2, <1>4 DEF Inv, SentOnce, NotYet
<1> QED
  BY <1>5, <1>6 DEF Inv

LEMMA RevokedType ==
  ASSUME NEW k \in Token
  PROVE  Revoked(k) \in Token
BY DEF Revoked, Token

LEMMA NextInv == Inv /\ [Next]_vars => Inv'
<1> SUFFICES ASSUME Inv, [Next]_vars PROVE Inv'
  OBVIOUS
<1>0. /\ TypeOK /\ req \in [Thread -> Request] /\ lock \in Thread \cup {Free}
      /\ \A t \in Thread : req[t] \in Request
      /\ token \in Token /\ file \in Token /\ left \in [Name -> 0 .. Skip]
      /\ Free \notin Thread
  BY QuotesAssumption DEF Inv, TypeOK
<1>1. ASSUME NEW t \in Thread, NEW n \in Name, Call(t, n) PROVE Inv'
  <2> DEFINE r == [at |-> IF left[n] > 0 THEN "backup" ELSE "token", name |-> n,
                   attempt |-> 0, held |-> "dead", executed |-> 0]
  <2>1. req' = [req EXCEPT ![t] = r] /\ UNCHANGED <<lock, token, file, left>>
    BY <1>1 DEF Call
  <2>2. r \in Request /\ r.at \in {"backup", "token"} /\ r.executed = 0
    BY QuotesAssumption DEF Request, At
  <2>3. lock # t
    BY <1>1 DEF Call, At_, Inv, TypeOK
  <2> HIDE DEF r
  <2>4. r.executed <= 1 /\ (r.at # "idle" => r.executed = 0)
    BY <2>2
  <2>5. (lock' = t <=> r.at \in {"fetch", "store"}) /\ lock' = lock
    BY <2>1, <2>2, <2>3
  <2>6. token' \in Token /\ file' \in Token /\ left' \in [Name -> 0 .. Skip]
    BY <1>0, <2>1
  <2> QED
    BY <2>1, <2>2, <2>4, <2>5, <2>6, OneRequest
<1>2. ASSUME NEW t \in Thread, BackupOk(t) \/ BackupFails(t) PROVE Inv'
  <2>1. /\ req[t].at = "backup" /\ req' = [req EXCEPT ![t] = [req[t] EXCEPT !.at = "idle"]]
        /\ UNCHANGED <<lock, token, file>>
        /\ left' = left \/ MarkFailed(req[t].name)
    BY <1>2 DEF BackupOk, BackupFails, At_, Goes
  <2>2. /\ [req[t] EXCEPT !.at = "idle"] \in Request
        /\ [req[t] EXCEPT !.at = "idle"].at = "idle"
        /\ [req[t] EXCEPT !.at = "idle"].executed = req[t].executed
    BY <1>0, GoesData DEF At
  <2>3. left' \in [Name -> 0 .. Skip]
    BY <1>0, <2>1, RequestData, MarkedType
  <2> QED
    BY <1>0, <2>1, <2>2, <2>3, GoesOnKeeps
<1>3. ASSUME NEW t \in Thread, Ensure(t) PROVE Inv'
  <2>1. PICK a \in {"fetch", "read"} :
            /\ req[t].at = "token" /\ lock = Free
            /\ req' = [req EXCEPT ![t] = [req[t] EXCEPT !.at = a]]
            /\ lock' = IF a = "fetch" THEN t ELSE Free
            /\ UNCHANGED <<token, file, left>>
    BY <1>3 DEF Ensure, At_, Goes
  <2>2. /\ [req[t] EXCEPT !.at = a] \in Request
        /\ [req[t] EXCEPT !.at = a].at = a
        /\ [req[t] EXCEPT !.at = a].executed = req[t].executed
    <3>1. a \in At
      BY DEF At
    <3> QED
      BY <1>0, <3>1, GoesData
  <2>3. req[t].executed = 0
    BY <2>1 DEF Inv, NotYet
  <2> DEFINE r == [req[t] EXCEPT !.at = a]
  <2>4. r \in Request /\ r.executed <= 1 /\ (r.at # "idle" => r.executed = 0)
    BY <2>2, <2>3
  <2>5. /\ lock' = t <=> r.at \in {"fetch", "store"}
        /\ lock \in {t, Free} /\ lock' \in {t, Free}
    BY <1>0, <2>1, <2>2
  <2>6. token' \in Token /\ file' \in Token /\ left' \in [Name -> 0 .. Skip]
    BY <1>0, <2>1
  <2> HIDE DEF r
  <2>7. req' = [req EXCEPT ![t] = r]
    BY <2>1 DEF r
  <2> QED
    BY <2>4, <2>5, <2>6, <2>7, OneRequest
<1>4. ASSUME NEW t \in Thread, Fetched(t) PROVE Inv'
  <2> DEFINE h == [s \in Thread |-> IF s = t THEN "live" ELSE "dead"]
  <2>1. /\ h \in [Thread -> {"live", "dead"}] /\ "store" \in At /\ t # Free
        /\ req[t].at = "fetch"
    BY <1>0, <1>4 DEF Fetched, At_, At
  <2>2. req' = [s \in Thread |-> [req[s] EXCEPT !.held = h[s],
                                     !.at = IF s = t THEN "store" ELSE req[s].at]]
    BY <1>0, <1>4 DEF Fetched
  <2>3. token' \in Token /\ file' \in Token /\ UNCHANGED <<lock, left>>
    BY <1>0, <1>4, RevokedType DEF Fetched
  <2> HIDE DEF h
  <2> QED
    BY <2>1, <2>2, <2>3, HeldKeeps
<1>5. ASSUME NEW t \in Thread, Stored(t) PROVE Inv'
  <2>1. /\ req[t].at = "store" /\ req' = [req EXCEPT ![t] = [req[t] EXCEPT !.at = "read"]]
        /\ token' = req[t].held /\ file' = req[t].held /\ lock' = Free /\ left' = left
    BY <1>5 DEF Stored, At_, Goes
  <2>2. /\ [req[t] EXCEPT !.at = "read"] \in Request
        /\ [req[t] EXCEPT !.at = "read"].at = "read"
        /\ [req[t] EXCEPT !.at = "read"].executed = req[t].executed
        /\ req[t].held \in Token
    BY <1>0, GoesData, RequestData DEF Token, At
  <2>3. req[t].executed = 0 /\ lock = t
    BY <2>1 DEF Inv, NotYet, TypeOK
  <2> DEFINE r == [req[t] EXCEPT !.at = "read"]
  <2>4. r \in Request /\ r.executed <= 1 /\ (r.at # "idle" => r.executed = 0)
    BY <2>2, <2>3
  <2>5. /\ lock' = t <=> r.at \in {"fetch", "store"}
        /\ lock \in {t, Free} /\ lock' \in {t, Free}
    BY <1>0, <2>1, <2>2, <2>3
  <2>6. token' \in Token /\ file' \in Token /\ left' \in [Name -> 0 .. Skip]
    BY <1>0, <2>1, <2>2
  <2>7. req' = [req EXCEPT ![t] = r]
    BY <2>1
  <2> HIDE DEF r
  <2> QED
    BY <2>4, <2>5, <2>6, <2>7, OneRequest
<1>6. ASSUME NEW t \in Thread, NotFetched(t) PROVE Inv'
  <2>1. req[t].at = "fetch" /\ lock' = Free /\ Thrown(t) /\ UNCHANGED <<token, file>>
    BY <1>6 DEF NotFetched, At_
  <2>2. PICK a \in {"idle", "backup"} : req' = [req EXCEPT ![t] = [req[t] EXCEPT !.at = a]]
    BY <1>0, <2>1, ThrownData
  <2>3. left' \in [Name -> 0 .. Skip]
    BY <1>0, <2>1, ThrownData
  <2>4. /\ [req[t] EXCEPT !.at = a] \in Request
        /\ [req[t] EXCEPT !.at = a].at = a
        /\ [req[t] EXCEPT !.at = a].executed = req[t].executed
    <3>1. a \in At
      BY DEF At
    <3> QED
      BY <1>0, <3>1, GoesData
  <2>5. req[t].executed = 0 /\ lock = t
    BY <2>1 DEF Inv, NotYet, TypeOK
  <2> DEFINE r == [req[t] EXCEPT !.at = a]
  <2>6. r \in Request /\ r.executed <= 1 /\ (r.at # "idle" => r.executed = 0)
    BY <2>4, <2>5
  <2>7. /\ lock' = t <=> r.at \in {"fetch", "store"}
        /\ lock \in {t, Free} /\ lock' \in {t, Free}
    BY <1>0, <2>1, <2>2, <2>4, <2>5
  <2>8. token' \in Token /\ file' \in Token
    BY <1>0, <2>1
  <2>9. req' = [req EXCEPT ![t] = r]
    BY <2>2
  <2> HIDE DEF r
  <2> QED
    BY <2>3, <2>6, <2>7, <2>8, <2>9, OneRequest
<1>7. ASSUME NEW t \in Thread, Read(t) PROVE Inv'
  <2>1. req[t].at = "read" /\ UNCHANGED <<lock, token, file>>
    BY <1>7 DEF Read, At_
  <2>2. CASE token = "none"
    <3>1. Thrown(t)
      BY <1>7, <2>2 DEF Read
    <3>2. PICK a \in {"idle", "backup"} : req' = [req EXCEPT ![t] = [req[t] EXCEPT !.at = a]]
      BY <1>0, <3>1, ThrownData
    <3>3. left' \in [Name -> 0 .. Skip]
      BY <1>0, <3>1, ThrownData
    <3>4. /\ [req[t] EXCEPT !.at = a] \in Request
          /\ [req[t] EXCEPT !.at = a].at = a
          /\ [req[t] EXCEPT !.at = a].executed = req[t].executed
      <4>1. a \in At
        BY DEF At
      <4> QED
        BY <1>0, <4>1, GoesData
    <3> QED
      BY <1>0, <2>1, <3>2, <3>3, <3>4, GoesOnKeeps
  <2>3. CASE token # "none"
    <3>1. PICK k \in {"live", "dead"} :
             /\ req' = [req EXCEPT ![t].at = "send", ![t].held = k]
             /\ left' = left
      BY <1>7, <2>3 DEF Read
    <3> DEFINE r == [req[t] EXCEPT !.at = "send", !.held = k]
    <3>2. req' = [req EXCEPT ![t] = r]
      BY <1>0, <3>1
    <3>3. r \in Request /\ r.at = "send" /\ r.executed = req[t].executed
      BY <1>0 DEF Request, At
    <3> HIDE DEF r
    <3> QED
      BY <1>0, <2>1, <3>1, <3>2, <3>3, GoesOnKeeps
  <2> QED
    BY <2>2, <2>3
<1>8. ASSUME NEW t \in Thread, Answered(t) PROVE Inv'
  <2>1. req[t].executed \in Nat
    BY <1>0, RequestData
  <2> DEFINE n == IF req[t].name \in Order THEN 1 ELSE 0
  <2>3. (IF req[t].name \in Order THEN req[t].executed + 1 ELSE req[t].executed)
        = req[t].executed + n
    BY <2>1
  <2>2. n \in {0, 1} /\ req' = [req EXCEPT ![t].at = "idle",
                                          ![t].executed = req[t].executed + n]
    BY <1>0, <1>8, <2>3 DEF Answered
  <2> QED
    BY <1>8, <2>2, EndKeeps DEF Answered
<1>9. ASSUME NEW t \in Thread, Partly(t) PROVE Inv'
  <2>1. /\ req[t].at = "send" /\ req[t].name = "prices"
        /\ req' = [req EXCEPT ![t] = [req[t] EXCEPT !.at = "idle"]]
        /\ UNCHANGED <<lock, token, file>> /\ MarkFailed("prices")
    BY <1>9 DEF Partly, At_, Goes
  <2>2. /\ [req[t] EXCEPT !.at = "idle"] \in Request
        /\ [req[t] EXCEPT !.at = "idle"].at = "idle"
        /\ [req[t] EXCEPT !.at = "idle"].executed = req[t].executed
    BY <1>0, GoesData DEF At
  <2>4. "prices" \in Name
    BY <1>0, <2>1, RequestData
  <2>3. left' \in [Name -> 0 .. Skip]
    BY <1>0, <2>1, <2>4, MarkedType
  <2> QED
    BY <1>0, <2>1, <2>2, <2>3, GoesOnKeeps
<1>10. ASSUME NEW t \in Thread, Refused(t) \/ Busy(t) \/ Rejected(t) PROVE Inv'
  <2>1. /\ At_(t, "send") /\ (Again(t) \/ Thrown(t)) /\ UNCHANGED lock
        /\ token' \in {token, "none"} /\ file' \in {file, "none"}
    BY <1>10 DEF Refused, Busy, Rejected
  <2>2. token' \in Token /\ file' \in Token
    BY <1>0, <2>1 DEF Token
  <2> QED
    BY <2>1, <2>2, FailureKeeps
<1>11. ASSUME NEW t \in Thread, Lost(t) PROVE Inv'
  <2>1. CASE req[t].name \in Order
    <3>1. PICK n \in Executed(t) :
             req' = [req EXCEPT ![t].at = "idle", ![t].executed = req[t].executed + n]
      BY <1>11, <2>1 DEF Lost
    <3>2. n \in {0, 1}
      BY DEF Executed
    <3> QED
      BY <1>11, <2>1, <3>1, <3>2, EndKeeps DEF Lost
  <2>2. CASE req[t].name \notin Order
    BY <1>0, <1>11, <2>2, FailureKeeps DEF Lost
  <2> QED
    BY <2>1, <2>2
<1>12. CASE Elsewhere
  <2> DEFINE h == [s \in Thread |-> "dead"]
  <2>1. h \in [Thread -> {"live", "dead"}] /\ "idle" \in At
    BY DEF At
  <2>2. req' = [s \in Thread |-> [req[s] EXCEPT !.held = h[s],
                                     !.at = IF s = Free THEN "idle" ELSE req[s].at]]
    <3>1. \A s \in Thread : [req[s] EXCEPT !.held = "dead"]
                            = [req[s] EXCEPT !.held = "dead", !.at = req[s].at]
      BY <1>0 DEF Request
    <3> QED
      BY <1>0, <1>12, <3>1 DEF Elsewhere
  <2>3. token' \in Token /\ file' \in Token /\ UNCHANGED <<lock, left>>
    BY <1>0, <1>12, RevokedType DEF Elsewhere, Token
  <2> HIDE DEF h
  <2> QED
    BY <2>1, <2>2, <2>3, HeldKeeps
<1>13. CASE Ages
  BY <1>0, <1>13 DEF Ages, Inv, TypeOK, SentOnce, NotYet, Token
<1>14. CASE Restart
  <2>1. left' \in [Name -> 0 .. Skip]
    BY <1>14, QuotesAssumption DEF Restart
  <2> QED
    BY <1>0, <1>14, <2>1 DEF Restart, Inv, TypeOK, SentOnce, NotYet
<1>15. CASE Tick
  <2>1. left' \in [Name -> 0 .. Skip]
    BY <1>0, <1>15, QuotesAssumption DEF Tick
  <2> QED
    BY <1>0, <1>15, <2>1 DEF Tick, Inv, TypeOK, SentOnce, NotYet
<1>16. CASE UNCHANGED vars
  BY <1>16 DEF vars, Inv, TypeOK, SentOnce, NotYet
<1> QED
  BY <1>1, <1>2, <1>3, <1>4, <1>5, <1>6, <1>7, <1>8, <1>9, <1>10, <1>11, <1>12, <1>13,
     <1>14, <1>15, <1>16 DEF Next, Step, Toss

------------------------------------------------------------------------------
\* The theorems about it

(* Inv holds of every state of the program; no fairness is needed. *)
THEOREM SpecInv == Spec => []Inv
BY InitInv, NextInv, PTL DEF Spec

(* One thread at a time is inside _ensure_token's lock, and it is the one that
   fetches the token; every request, token and skip has its type. *)
THEOREM SpecTypeOK == Spec => []TypeOK
<1>1. Inv => TypeOK
  BY DEF Inv
<1> QED
  BY <1>1, SpecInv, PTL

(* The exchange executes an order call at most once, whatever TossClient retries
   inside it (tossapi.py:183-188). *)
THEOREM SpecSentOnce == Spec => []SentOnce
<1>1. Inv => SentOnce
  BY DEF Inv
<1> QED
  BY <1>1, SpecInv, PTL

(* What the broker takes an order call's end to mean (broker.py, _send): an answer means that
   the exchange executed it, and an error that there was no token, or that the request
   was refused (401, 429 and whatever else is below 500), that it did not, however often the
   call was sent.  Only a lost answer and a 5xx leave it open. *)
OutcomesAreTold ==
    [][ \A t \in Thread : req[t].name \in Order =>
          /\ Answered(t) => req'[t].executed = 1
          /\ NotFetched(t) \/ Read(t) \/ Refused(t) \/ Busy(t) \/ Rejected(t)
                => req'[t].executed = 0 ]_vars

LEMMA ThrownOrder ==
  ASSUME TypeOK, NEW t \in Thread, req[t].name \in Order, Thrown(t) \/ Again(t)
  PROVE  req'[t].executed = req[t].executed
<1>1. req \in [Thread -> Request] /\ req[t] \in Request
  BY DEF TypeOK
<1>2. CASE Goes(t, "idle")
  BY <1>1, <1>2 DEF Goes, Request
<1>3. CASE req' = [req EXCEPT ![t].at = "token", ![t].attempt = @ + 1]
  BY <1>1, <1>3 DEF Request
<1> QED
  BY <1>2, <1>3 DEF Thrown, Again

(* After an answer, an order was executed once; after an error that is no lost answer,
   never, although the same call may have been sent several times. *)
THEOREM SpecOutcomesAreTold == Spec => OutcomesAreTold
<1>1. ASSUME Inv, NEW t \in Thread, req[t].name \in Order
      PROVE  /\ Answered(t) => req'[t].executed = 1
             /\ NotFetched(t) \/ Read(t) \/ Refused(t) \/ Busy(t) \/ Rejected(t)
                   => req'[t].executed = 0
  <2>1. TypeOK /\ req \in [Thread -> Request] /\ req[t] \in Request
    BY <1>1 DEF Inv, TypeOK
  <2>2. req[t].at # "idle" => req[t].executed = 0
    BY <1>1 DEF Inv, NotYet
  <2>3. ASSUME Answered(t) PROVE req'[t].executed = 1
    <3>1. req' = [req EXCEPT ![t].at = "idle", ![t].executed = @ + 1]
      BY <1>1, <2>3 DEF Answered
    <3>2. req'[t].executed = req[t].executed + 1
      BY <2>1, <3>1 DEF Request
    <3> QED
      BY <2>2, <2>3, <3>2 DEF Answered, At_
  <2>4. ASSUME NotFetched(t) \/ Read(t) \/ Refused(t) \/ Busy(t) \/ Rejected(t)
        PROVE  req'[t].executed = 0
    <3>1. req[t].at # "idle"
      BY <2>4 DEF NotFetched, Read, Refused, Busy, Rejected, At_
    <3>2. CASE Thrown(t) \/ Again(t)
      BY <1>1, <2>1, <2>2, <3>1, <3>2, ThrownOrder
    <3>3. CASE Read(t) /\ token # "none"
      <4>1. req' = [req EXCEPT ![t].at = "send",
                               ![t].held = IF token = "dead" THEN "dead" ELSE "live"]
        BY <3>3 DEF Read
      <4>2. req'[t].executed = req[t].executed
        BY <2>1, <4>1 DEF Request
      <4> QED
        BY <2>2, <3>1, <4>2
    <3> QED
      BY <2>4, <3>2, <3>3 DEF NotFetched, Read, Refused, Busy, Rejected
  <2> QED
    BY <2>3, <2>4
<1>2. Inv => \A t \in Thread : req[t].name \in Order =>
                /\ Answered(t) => req'[t].executed = 1
                /\ NotFetched(t) \/ Read(t) \/ Refused(t) \/ Busy(t) \/ Rejected(t)
                      => req'[t].executed = 0
  BY <1>1
<1> QED
  BY <1>2, SpecInv, PTL DEF OutcomesAreTold

------------------------------------------------------------------------------
\* The trading day

\* The engine waits for the calendar inside its pass.
EngineWaits == call["engine"] # NoCall => pc = "phase" /\ passes < MaxPass

\* Until somebody asks, today's first call is still to come.
AskedOnce ==
    /\ calls <= 1 + drops
    /\ cache.date # day => calls <= drops

\* Before the rollover the engine has one question left of yesterday's pass.
OnePass == session # day => wrong <= 1 /\ (pc = "phase" => wrong = 0)

\* After it, nothing of yesterday can reach the cache any more.
Clean ==
    rolled => /\ session = day
              /\ wrong <= 1
              /\ cache.holiday => day \in Holiday
              /\ \A t \in Asker : call[t].attached => call[t].date = day

SessionInv == SessionTypeOK /\ EngineWaits /\ AskedOnce /\ OnePass /\ Clean

------------------------------------------------------------------------------
\* What the actions make of the data

DayVerdict == [day : Day \cup {NoDay}, holiday : BOOLEAN, known : BOOLEAN]

\* Calls.
LEMMA QuestionData ==
  ASSUME NEW c \in Question \cup {NoCall}
  PROVE  /\ NoCall.attached = FALSE
         /\ c # NoCall => c.date \in Day
         /\ \A d \in Day : /\ [date |-> d, attached |-> TRUE] \in Question
                           /\ [date |-> d, attached |-> TRUE].date = d
                           /\ [date |-> d, attached |-> TRUE] # NoCall
         /\ c # NoCall => /\ [c EXCEPT !.attached = FALSE] \in Question
                          /\ [c EXCEPT !.attached = FALSE].attached = FALSE
                          /\ [c EXCEPT !.attached = FALSE].date = c.date
BY DEF Question, NoCall, NoDay, Day

\* The cache.
LEMMA CacheData ==
  ASSUME NEW c \in Cached
  PROVE  /\ Fresh \in Cached /\ Fresh.date = NoDay /\ Fresh.holiday = FALSE
         /\ c.date \in Day \cup {NoDay} /\ c.holiday \in BOOLEAN /\ c.known \in BOOLEAN
         /\ \A d \in Day : /\ [c EXCEPT !.date = d] \in Cached
                           /\ [c EXCEPT !.date = d].date = d
                           /\ [c EXCEPT !.date = d].holiday = c.holiday
         /\ \A h, k \in BOOLEAN :
               /\ [c EXCEPT !.holiday = h, !.known = k] \in Cached
               /\ [c EXCEPT !.holiday = h, !.known = k].date = c.date
               /\ [c EXCEPT !.holiday = h, !.known = k].holiday = h
BY DEF Cached, Fresh, NoDay, Day

\* What check() tells counts as wrong only when it is a holiday that is none.
LEMMA ToldKeeps ==
  ASSUME SessionTypeOK, NEW t \in Asker, NEW d \in Day,
         NEW h \in BOOLEAN, NEW k \in BOOLEAN,
         Told(t, d, h, k), t = "engine" => pc = "phase" /\ passes < MaxPass
  PROVE  /\ verdict' \in [Asker -> DayVerdict]
         /\ pc' \in {"off", "loop", "phase"}
         /\ passes' \in 0 .. MaxPass /\ wrong' \in 0 .. passes'
         /\ t # "engine" => pc' = pc /\ passes' = passes /\ wrong' = wrong
         /\ t = "engine" => pc' = "loop"
         /\ wrong' = wrong \/ wrong' = wrong + 1
         /\ wrong' # wrong => t = "engine" /\ h /\ d = day /\ day \notin Holiday
<1>0. MaxPass \in Nat /\ passes \in 0 .. MaxPass /\ wrong \in 0 .. passes
  BY SessionAssumption DEF SessionAssumption, SessionTypeOK
<1>1. [day |-> d, holiday |-> h, known |-> k] \in DayVerdict
  BY DEF DayVerdict
<1>2. verdict' \in [Asker -> DayVerdict]
  BY <1>1 DEF SessionTypeOK, Told, DayVerdict
<1>3. CASE t = "engine"
  BY <1>0, <1>2, <1>3 DEF Told
<1>4. CASE t # "engine"
  BY <1>0, <1>2, <1>4 DEF Told, SessionTypeOK
<1> QED
  BY <1>3, <1>4

\* An answer is stored beside the date that is there, and the wait is over.
LEMMA StoreKeeps ==
  ASSUME SessionTypeOK, NEW t \in Asker, NEW h \in BOOLEAN, NEW k \in BOOLEAN, Store(t, h, k)
  PROVE  /\ cache' \in Cached /\ cache'.date = cache.date
         /\ cache'.holiday => cache.holiday \/ (call[t].attached /\ h)
         /\ call' \in [Asker -> Question \cup {NoCall}]
         /\ call'[t] = NoCall
         /\ \A s \in Asker : s # t => call'[s] = call[s]
<1>1. cache \in Cached /\ call \in [Asker -> Question \cup {NoCall}]
  BY DEF SessionTypeOK
<1>2. call' = [call EXCEPT ![t] = NoCall]
  BY DEF Store
<1>3. /\ call' \in [Asker -> Question \cup {NoCall}]
      /\ call'[t] = NoCall
      /\ \A s \in Asker : s # t => call'[s] = call[s]
  BY <1>1, <1>2
<1>4. CASE call[t].attached
  <2>1. cache' = [cache EXCEPT !.holiday = h, !.known = k]
    BY <1>4 DEF Store
  <2>2. cache' \in Cached /\ cache'.date = cache.date /\ cache'.holiday = h
    BY <1>1, <2>1 DEF Cached
  <2> QED
    BY <1>3, <1>4, <2>2
<1>5. CASE ~ call[t].attached
  BY <1>1, <1>3, <1>5 DEF Store
<1> QED
  BY <1>4, <1>5

------------------------------------------------------------------------------
\* SessionInv is inductive

\* An answer leaves the rest of the day as it was.
LEMMA AnswerKeeps ==
  ASSUME SessionInv, NEW t \in Asker, NEW d \in Day,
         NEW h \in BOOLEAN, NEW k \in BOOLEAN,
         call[t] # NoCall, d = call[t].date, h => d \in Holiday,
         Store(t, h, k), Told(t, d, h, k),
         UNCHANGED <<day, session, backTests, rolled, drops, calls>>,
         fails' \in 0 .. MaxFail
  PROVE  SessionInv'
<1>0. t = "engine" => pc = "phase" /\ passes < MaxPass
  BY DEF SessionInv, EngineWaits
<1>1. SessionTypeOK
  BY DEF SessionInv
<1>2. /\ wrong' = wrong /\ verdict' \in [Asker -> DayVerdict]
      /\ pc' \in {"off", "loop", "phase"}
      /\ passes' \in 0 .. MaxPass /\ wrong' \in 0 .. passes'
      /\ t # "engine" => pc' = pc /\ passes' = passes
      /\ t = "engine" => pc' = "loop"
  BY <1>0, <1>1, ToldKeeps
<1>3. /\ cache' \in Cached /\ cache'.date = cache.date
      /\ cache'.holiday => cache.holiday \/ (call[t].attached /\ h)
      /\ call' \in [Asker -> Question \cup {NoCall}]
      /\ call'[t] = NoCall
      /\ \A s \in Asker : s # t => call'[s] = call[s]
  BY <1>1, StoreKeeps
<1>4. SessionTypeOK'
  BY <1>1, <1>2, <1>3 DEF SessionTypeOK, DayVerdict
<1>5. EngineWaits'
  BY <1>2, <1>3 DEF SessionInv, EngineWaits, Asker, Client
<1>6. AskedOnce'
  BY <1>3 DEF SessionInv, AskedOnce
<1>7. OnePass'
  BY <1>2 DEF SessionInv, OnePass
<1>8. Clean'
  <2> SUFFICES ASSUME rolled'
               PROVE  /\ session' = day' /\ wrong' <= 1
                      /\ cache'.holiday => day' \in Holiday
                      /\ \A s \in Asker : call'[s].attached => call'[s].date = day'
    BY DEF Clean
  <2>1. /\ session = day /\ wrong <= 1 /\ (cache.holiday => day \in Holiday)
        /\ \A s \in Asker : call[s].attached => call[s].date = day
    BY DEF SessionInv, Clean
  <2>2. cache'.holiday => day \in Holiday
    BY <2>1, <1>3
  <2>3. \A s \in Asker : call'[s].attached => call'[s].date = day
    BY <2>1, <1>3 DEF NoCall
  <2> QED
    BY <2>1, <2>2, <2>3, <1>2
<1> QED
  BY <1>4, <1>5, <1>6, <1>7, <1>8 DEF SessionInv

LEMMA SessionBegins ==
  ASSUME SessionInit
  PROVE  SessionInv
<1>1. 1 \in Day /\ LastDay \in Nat
  BY SessionAssumption DEF SessionAssumption, Day
<1>2. Fresh \in Cached /\ NoCall.attached = FALSE
  BY DEF Fresh, Cached, NoCall
<1>3. SessionTypeOK
  <2>1. [day |-> NoDay, holiday |-> FALSE, known |-> FALSE] \in DayVerdict
    BY DEF DayVerdict
  <2>2. verdict \in [Asker -> DayVerdict]
    BY <2>1 DEF SessionInit
  <2>3. rolled \in BOOLEAN
    BY DEF SessionInit
  <2>4. call \in [Asker -> Question \cup {NoCall}]
    BY DEF SessionInit
  <2>5. /\ day \in Day /\ session \in Day /\ session <= day
        /\ fails \in 0 .. MaxFail /\ backTests \in 0 .. MaxBackTest
        /\ passes \in 0 .. MaxPass /\ wrong \in 0 .. passes
        /\ calls \in Nat /\ drops \in Nat
    BY <1>1, SessionAssumption DEF SessionAssumption, SessionInit
  <2> QED
    BY <1>2, <2>2, <2>3, <2>4, <2>5 DEF SessionInit, SessionTypeOK, DayVerdict
<1>4. "engine" \in Asker
  BY DEF Asker, Client
<1> QED
  BY <1>2, <1>3, <1>4 DEF SessionInit, SessionInv, EngineWaits, AskedOnce, OnePass, Clean

LEMMA SessionGoesOn ==
  ASSUME SessionInv, [SessionNext]_sessionVars
  PROVE  SessionInv'
<1>0. /\ SessionTypeOK /\ MaxPass \in Nat /\ LastDay \in Nat
      /\ day \in Day /\ session \in Day /\ session <= day
      /\ cache \in Cached /\ call \in [Asker -> Question \cup {NoCall}]
      /\ calls \in Nat /\ drops \in Nat
      /\ passes \in 0 .. MaxPass /\ wrong \in 0 .. passes
  BY SessionAssumption DEF SessionAssumption, SessionInv, SessionTypeOK
<1>1. ASSUME NEW t \in Asker, FromCache(t) PROVE SessionInv'
  <2>1. /\ call[t] = NoCall /\ cache.date = day
        /\ t = "engine" => pc = "phase" /\ passes < MaxPass
        /\ Told(t, day, cache.holiday, cache.known)
        /\ UNCHANGED <<day, cache, call, session, fails, backTests, rolled, drops, calls>>
    BY <1>1 DEF FromCache, May, Hit
  <2>2. cache.holiday \in BOOLEAN /\ cache.known \in BOOLEAN
    BY <1>0, CacheData
  <2>3. /\ verdict' \in [Asker -> DayVerdict]
        /\ pc' \in {"off", "loop", "phase"}
        /\ passes' \in 0 .. MaxPass /\ wrong' \in 0 .. passes'
        /\ t # "engine" => pc' = pc /\ passes' = passes /\ wrong' = wrong
        /\ t = "engine" => pc' = "loop"
        /\ wrong' = wrong \/ wrong' = wrong + 1
        /\ wrong' # wrong => t = "engine" /\ cache.holiday /\ day \notin Holiday
    BY <1>0, <2>1, <2>2, ToldKeeps
  <2>4. SessionTypeOK'
    BY <1>0, <2>1, <2>3 DEF SessionTypeOK, DayVerdict
  <2>5. EngineWaits'
    BY <2>1, <2>3 DEF SessionInv, EngineWaits
  <2>6. AskedOnce'
    BY <2>1 DEF SessionInv, AskedOnce
  <2>7. OnePass'
    BY <1>0, <2>1, <2>3 DEF SessionInv, OnePass
  <2>8. Clean'
    BY <2>1, <2>3 DEF SessionInv, Clean
  <2> QED
    BY <2>4, <2>5, <2>6, <2>7, <2>8 DEF SessionInv
<1>2. ASSUME NEW t \in Asker, Ask(t) PROVE SessionInv'
  <2>1. /\ t = "engine" => pc = "phase" /\ passes < MaxPass
        /\ cache.date # day
        /\ cache' = [cache EXCEPT !.date = day]
        /\ call' = [call EXCEPT ![t] = [date |-> day, attached |-> TRUE]]
        /\ calls' \in {calls, calls + 1}
        /\ UNCHANGED <<day, verdict, pc, session, fails, backTests, rolled, drops, passes, wrong>>
    BY <1>2 DEF Ask, May, Hit
  <2>2. cache' \in Cached /\ cache'.date = day /\ cache'.holiday = cache.holiday
    BY <1>0, <2>1 DEF Cached
  <2>3. /\ call' \in [Asker -> Question \cup {NoCall}]
        /\ call'[t].date = day
        /\ \A s \in Asker : s # t => call'[s] = call[s]
    BY <1>0, <2>1, QuestionData
  <2>4. SessionTypeOK'
    BY <1>0, <2>1, <2>2, <2>3 DEF SessionTypeOK
  <2>5. EngineWaits'
    BY <2>1, <2>3 DEF SessionInv, EngineWaits, Asker, Client
  <2>6. AskedOnce'
    BY <1>0, <2>1, <2>2 DEF SessionInv, AskedOnce
  <2>7. OnePass'
    BY <2>1 DEF SessionInv, OnePass
  <2>8. Clean'
    BY <2>1, <2>2, <2>3 DEF SessionInv, Clean
  <2> QED
    BY <2>4, <2>5, <2>6, <2>7, <2>8 DEF SessionInv
<1>3. ASSUME NEW t \in Client, Reply(t) PROVE SessionInv'
  <2>1. t \in Asker /\ call[t] # NoCall
    BY <1>3 DEF Reply, Asker
  <2>2. call[t].date \in Day
    BY <1>0, <2>1, QuestionData
  <2>3. /\ fails' \in 0 .. MaxFail
        /\ Store(t, call[t].date \in Holiday, TRUE)
        /\ Told(t, call[t].date, call[t].date \in Holiday, TRUE)
        /\ UNCHANGED <<day, session, backTests, rolled, drops, calls>>
    BY <1>0, <1>3 DEF Reply, SessionTypeOK
  <2>4. (call[t].date \in Holiday) \in BOOLEAN
    OBVIOUS
  <2> QED
    BY <2>1, <2>2, <2>3, <2>4, AnswerKeeps
<1>4. ASSUME NEW t \in Client, Fail(t) PROVE SessionInv'
  <2>1. t \in Asker /\ call[t] # NoCall
    BY <1>4 DEF Fail, Asker
  <2>2. call[t].date \in Day
    BY <1>0, <2>1, QuestionData
  <2>3. /\ fails' \in 0 .. MaxFail
        /\ Store(t, FALSE, FALSE) /\ Told(t, call[t].date, FALSE, FALSE)
        /\ UNCHANGED <<day, session, backTests, rolled, drops, calls>>
    <3>1. fails' \in 0 .. MaxFail
      BY <1>0, <1>4, SessionAssumption DEF SessionAssumption, Fail, SessionTypeOK
    <3> QED
      BY <1>4, <3>1 DEF Fail
  <2> QED
    BY <2>1, <2>2, <2>3, AnswerKeeps
<1>5. CASE NobodyAsked
  <2>1. "web" \in Asker /\ call["web"] # NoCall
    BY <1>5 DEF NobodyAsked, Asker
  <2>2. call["web"].date \in Day
    BY <1>0, <2>1, QuestionData
  <2>3. /\ fails' \in 0 .. MaxFail
        /\ Store("web", FALSE, FALSE) /\ Told("web", call["web"].date, FALSE, FALSE)
        /\ UNCHANGED <<day, session, backTests, rolled, drops, calls>>
    BY <1>0, <1>5 DEF NobodyAsked, SessionTypeOK
  <2> QED
    BY <2>1, <2>2, <2>3, AnswerKeeps
<1>6. CASE BackTest
  <2>1. Fresh \in Cached /\ Fresh.date = NoDay /\ Fresh.holiday = FALSE
    BY <1>0, CacheData
  <2>2. SessionTypeOK'
    BY <1>0, <1>6, <2>1, SessionAssumption DEF SessionAssumption, BackTest, SessionTypeOK
  <2>3. AskedOnce'
    BY <1>0, <1>6 DEF BackTest, SessionInv, AskedOnce
  <2> QED
    BY <1>6, <2>1, <2>2, <2>3 DEF BackTest, SessionInv, EngineWaits, OnePass, Clean
<1>7. CASE Start
  <2>1. rolled' \in BOOLEAN
    BY <1>7 DEF Start
  <2>2. session' \in Day /\ session' <= day'
    BY <1>0, <1>7 DEF Start, Day
  <2>3. SessionTypeOK'
    BY <1>0, <1>7, <2>1, <2>2 DEF Start, SessionTypeOK
  <2> QED
    BY <1>0, <1>7, <2>3 DEF Start, SessionInv, EngineWaits, AskedOnce, OnePass, Clean
<1>8. CASE Stop
  BY <1>0, <1>8 DEF Stop, SessionInv, SessionTypeOK, EngineWaits, AskedOnce, OnePass, Clean
<1>9. CASE Rollover
  <2>1. /\ pc = "loop" /\ pc' = "phase"
        /\ UNCHANGED <<day, verdict, fails, backTests, calls, passes, wrong>>
    BY <1>9 DEF Rollover
  <2>2. "engine" \in Asker /\ call["engine"] = NoCall
    BY <2>1 DEF SessionInv, EngineWaits, Asker, Client
  <2>3. CASE session = day
    <3>1. UNCHANGED <<session, cache, call, rolled, drops>>
      BY <1>9, <2>3 DEF Rollover
    <3> QED
      BY <2>1, <2>2, <2>3, <3>1
         DEF SessionInv, SessionTypeOK, EngineWaits, AskedOnce, OnePass, Clean
  <2>4. CASE session # day
    <3>1. /\ session' = day /\ rolled' = TRUE /\ drops' = drops + 1 /\ cache' = Fresh
          /\ call' = [t \in Asker |-> IF call[t] = NoCall THEN NoCall
                                       ELSE [call[t] EXCEPT !.attached = FALSE]]
      BY <1>9, <2>4 DEF Rollover
    <3>2. Fresh \in Cached /\ Fresh.date = NoDay /\ Fresh.holiday = FALSE
      BY <1>0, CacheData
    <3>3. \A t \in Asker : call'[t] \in Question \cup {NoCall} /\ call'[t].attached = FALSE
      BY <1>0, <3>1, QuestionData
    <3>4. call' \in [Asker -> Question \cup {NoCall}] /\ call'["engine"] = NoCall
      BY <2>2, <3>1, <3>3
    <3>5. SessionTypeOK'
      <4>1. rolled' \in BOOLEAN
        BY <3>1
      <4>2. /\ day' \in Day /\ session' \in Day /\ session' <= day' /\ drops' \in Nat
            /\ cache' \in Cached
        BY <1>0, <2>1, <3>1, <3>2 DEF Day
      <4> QED
        BY <1>0, <2>1, <3>4, <4>1, <4>2 DEF SessionTypeOK
    <3>6. AskedOnce'
      BY <1>0, <2>1, <3>1 DEF SessionInv, AskedOnce
    <3>7. EngineWaits' /\ OnePass'
      BY <2>1, <3>1, <3>4 DEF EngineWaits, OnePass
    <3>8. Clean'
      BY <2>1, <2>4, <3>1, <3>2, <3>3 DEF SessionInv, OnePass, Clean
    <3> QED
      BY <3>5, <3>6, <3>7, <3>8 DEF SessionInv
  <2> QED
    BY <2>3, <2>4
<1>10. CASE Midnight
  <2>1. day' \in Day /\ session <= day'
    BY <1>0, <1>10 DEF Midnight, Day
  <2>2. rolled' \in BOOLEAN
    BY <1>10 DEF Midnight
  <2>3. /\ drops' \in Nat /\ calls' \in Nat /\ passes' \in 0 .. MaxPass
        /\ wrong' \in 0 .. passes'
    BY <1>0, <1>10 DEF Midnight
  <2>4. SessionTypeOK'
    BY <1>0, <1>10, <2>1, <2>2, <2>3 DEF Midnight, SessionTypeOK
  <2> QED
    BY <1>0, <1>10, <2>4 DEF Midnight, SessionInv, EngineWaits, AskedOnce, OnePass, Clean
<1>11. CASE UNCHANGED sessionVars
  BY <1>11 DEF sessionVars, SessionInv, SessionTypeOK, EngineWaits, AskedOnce, OnePass, Clean
<1> QED
  BY <1>1, <1>2, <1>3, <1>4, <1>5, <1>6, <1>7, <1>8, <1>9, <1>10, <1>11 DEF SessionNext

------------------------------------------------------------------------------
\* The theorems about it

(* SessionInv holds of every state of the program. *)
THEOREM SessionInvHolds == SessionSpec => []SessionInv
<1>1. SessionInit => SessionInv
  BY SessionBegins
<1>2. SessionInv /\ [SessionNext]_sessionVars => SessionInv'
  BY SessionGoesOn
<1> QED
  BY <1>1, <1>2, PTL DEF SessionSpec

(* The variables keep their types, and the engine's session date is never ahead of
   the calendar. *)
THEOREM SpecSessionTypeOK == SessionSpec => []SessionTypeOK
<1>1. SessionInv => SessionTypeOK
  BY DEF SessionInv
<1> QED
  BY <1>1, SessionInvHolds, PTL

(* After its rollover the engine takes a trading day for a holiday at most once,
   whatever the other threads are doing with the cache (session.py:108-111). *)
THEOREM SpecRestsWronglyOnce == SessionSpec => []RestsWronglyOnce
<1>1. SessionInv => RestsWronglyOnce
  BY DEF SessionInv, Clean, RestsWronglyOnce
<1> QED
  BY <1>1, SessionInvHolds, PTL

(* The exchange's calendar is asked once a day and once more for each time the
   cached date was dropped (_HolidayCache.check). *)
THEOREM SpecCalendarOncePerDay == SessionSpec => []CalendarOncePerDay
<1>1. SessionInv => CalendarOncePerDay
  BY DEF SessionInv, AskedOnce, CalendarOncePerDay
<1> QED
  BY <1>1, SessionInvHolds, PTL

------------------------------------------------------------------------------
\* The simulated money

\* What a position may be.
Stake == [qty : Nat \ {0}, cost : Nat, invested : Nat, adds : Nat, lastFill : Nat \ {0},
          scaledOut : Nat, soldValue : Nat, realized : Int, at : Nat \ {0}]
Share == Cap + (IF kind = "swing" THEN Pct(Cap, FeePct) ELSE 0)

Sound(p) ==
    /\ p \in Stake /\ p.invested <= Share
    /\ p.scaledOut = 0 => p.soldValue = 0 /\ p.realized = 0
    /\ kind # "swing" => p.at = 1

Book(b) ==
    /\ b \in [Symbol -> Stake \cup {NoPosition}]
    /\ \A s \in Symbol : b[s] # NoPosition => Sound(b[s])

PaperInv ==
    /\ rate \in Nat \ {0} /\ cash \in Int /\ closed \in Int
    /\ Book(pos) /\ Book(stateFile.pos) /\ stateFile.closed \in Int

\* What was paid is the cost, with the commission, at the rate of the purchase.
PaidFor(p) ==
    p.invested = (IF kind = "swing" THEN p.cost + Pct(p.cost, FeePct) ELSE p.cost) * p.at
Invested(p) == IF p = NoPosition THEN 0 ELSE p.invested
Realized(p) == IF p = NoPosition THEN 0 ELSE p.realized
AllInvested(b) == SumFunctionOnSet([s \in Symbol |-> Invested(b[s])], Symbol)
AllRealized(b) == SumFunctionOnSet([s \in Symbol |-> Realized(b[s])], Symbol)

BalanceInv ==
    /\ \A s \in Symbol : /\ pos[s] # NoPosition => PaidFor(pos[s])
                         /\ stateFile.pos[s] # NoPosition => PaidFor(stateFile.pos[s])
    /\ drift = {} => cash + AllInvested(pos) = Budget + closed + AllRealized(pos)

\* Division.
LEMMA Quotient ==
  ASSUME NEW a \in Nat, NEW b \in Nat \ {0}
  PROVE  a \div b \in Nat /\ b * (a \div b) <= a
OBVIOUS

LEMMA Divides ==
  ASSUME NEW a \in Nat, NEW y \in Nat, NEW b \in Nat \ {0}, a = b * y
  PROVE  a \div b = y
OBVIOUS

LEMMA Whole ==
  ASSUME NEW a \in Nat, NEW b \in Nat \ {0}, a % b = 0
  PROVE  a = b * (a \div b)
OBVIOUS

LEMMA Hundredths ==
  ASSUME NEW m \in Nat, NEW n \in Nat, 100 * m <= n
  PROVE  m <= n \div 100
OBVIOUS

LEMMA Percent ==
  ASSUME NEW x \in Nat, NEW p \in Nat
  PROVE  Pct(x, p) \in Nat /\ 100 * Pct(x, p) <= x * p
<1>1. x * p \in Nat
  OBVIOUS
<1> QED
  BY <1>1, Quotient DEF Pct

LEMMA PaperData ==
  /\ Price \subseteq Nat \ {0} /\ Rate \subseteq Nat \ {0} /\ Budget \in Nat /\ FeePct \in Nat
  /\ ExitParts \in Nat \ {0, 1} /\ Cap \in Nat /\ Share \in Nat /\ Cap <= Share
<1>1. Cap \in Nat
  BY Quotient, PaperAssumption DEF PaperAssumption, Cap
<1>2. Pct(Cap, FeePct) \in Nat
  BY <1>1, Percent, PaperAssumption DEF PaperAssumption
<1> QED
  BY <1>1, <1>2, PaperAssumption DEF PaperAssumption, Share

\* The commission on a part of some money is a part of the commission on it.
LEMMA Commission ==
  ASSUME NEW v \in Nat, NEW f \in Nat, NEW r \in Nat \ {0}, NEW c \in Nat, v * r <= c
  PROVE  (v + Pct(v, f)) * r <= c + Pct(c, f)
<1> DEFINE A == Pct(v, f)
<1>1. A \in Nat /\ 100 * A <= v * f
  BY Percent
<1> HIDE DEF A
<1>2. (100 * A) * r <= (v * f) * r
  BY <1>1
<1>3. (v * f) * r = (v * r) * f
  OBVIOUS
<1>4. (v * r) * f <= c * f
  OBVIOUS
<1>5. 100 * (A * r) <= c * f
  BY <1>1, <1>2, <1>3, <1>4
<1>6. A * r <= Pct(c, f)
  <2>1. A * r \in Nat /\ c * f \in Nat
    BY <1>1
  <2> QED
    BY <1>5, <2>1, Hundredths DEF Pct
<1>7. (v + A) * r = v * r + A * r
  BY <1>1
<1>8. A * r \in Nat /\ v * r \in Nat /\ Pct(c, f) \in Nat
  BY <1>1, Percent
<1> QED
  BY <1>6, <1>7, <1>8 DEF A

\* A purchase.
LEMMA BoughtData ==
  ASSUME rate \in Nat \ {0}, NEW amount \in Nat, NEW price \in Price,
         NEW p, p = Bought(amount, price), p.qty > 0, NEW room \in Nat, amount <= room
  PROVE  /\ p \in Stake /\ p.adds = 0 /\ p.scaledOut = 0 /\ p.soldValue = 0 /\ p.realized = 0
         /\ p.at = Fx /\ (kind # "swing" => p.at = 1) /\ PaidFor(p)
         /\ p.invested <= room + (IF kind = "swing" THEN Pct(room, FeePct) ELSE 0)
<1>1. price \in Nat \ {0} /\ FeePct \in Nat
  BY PaperData
<1>2. Fx \in Nat \ {0} /\ (kind # "swing" => Fx = 1)
  BY DEF Fx
<1> DEFINE q == amount \div (Fx * price)
           v == q * price
<1>3. q \in Nat /\ (Fx * price) * q <= amount
  <2>1. Fx * price \in Nat \ {0}
    BY <1>1, <1>2
  <2> QED
    BY <2>1, Quotient
<1>4. p = [qty |-> q, cost |-> v, invested |-> Paid(v), adds |-> 0, lastFill |-> price,
           scaledOut |-> 0, soldValue |-> 0, realized |-> 0, at |-> Fx]
  BY DEF Bought
<1> HIDE DEF q
<1>5. v \in Nat /\ v * Fx <= amount
  BY <1>1, <1>2, <1>3
<1> HIDE DEF v
<1>6. Pct(v, FeePct) \in Nat /\ Pct(room, FeePct) \in Nat
  BY <1>1, <1>5, Percent
<1>7. Paid(v) \in Nat /\ Paid(v) <= room + (IF kind = "swing" THEN Pct(room, FeePct) ELSE 0)
  <2>1. CASE kind = "swing"
    <3>1. v * Fx <= room
      BY <1>2, <1>5
    <3>2. (v + Pct(v, FeePct)) * Fx <= room + Pct(room, FeePct)
      BY <1>1, <1>2, <1>5, <3>1, Commission
    <3> QED
      BY <1>2, <1>5, <1>6, <2>1, <3>2 DEF Paid
  <2>2. CASE kind # "swing"
    BY <1>2, <1>5, <2>2 DEF Paid
  <2> QED
    BY <2>1, <2>2
<1>8. q \in Nat \ {0}
  BY <1>3, <1>4
<1>9. p \in Stake
  BY <1>1, <1>2, <1>4, <1>5, <1>7, <1>8 DEF Stake
<1>10. PaidFor(p)
  BY <1>4 DEF PaidFor, Paid
<1> QED
  BY <1>2, <1>4, <1>7, <1>9, <1>10

\* An addition.
LEMMA MergedData ==
  ASSUME kind # "swing", NEW p, Sound(p), p.scaledOut = 0,
         NEW n \in Stake, n.at = 1, p.invested + n.invested <= Cap,
         NEW r, r = Merged(p, n)
  PROVE  Sound(r) /\ r.invested = p.invested + n.invested /\ r.realized = p.realized
         /\ (PaidFor(p) /\ PaidFor(n) => PaidFor(r))
<1>1. p \in Stake /\ p.at = 1
  BY DEF Sound
<1>2. /\ r \in Stake /\ r.invested = p.invested + n.invested /\ r.realized = p.realized
      /\ r.cost = p.cost + n.cost /\ r.at = p.at /\ r.scaledOut = p.scaledOut
      /\ r.soldValue = p.soldValue
  <2>1. r = [p EXCEPT !.qty = p.qty + n.qty, !.cost = p.cost + n.cost,
               !.invested = p.invested + n.invested, !.adds = p.adds + 1, !.lastFill = n.lastFill]
    BY DEF Merged
  <2>2. /\ p.qty + n.qty \in Nat \ {0} /\ p.cost + n.cost \in Nat
        /\ p.invested + n.invested \in Nat /\ p.adds + 1 \in Nat /\ n.lastFill \in Nat \ {0}
    BY <1>1 DEF Stake
  <2> QED
    BY <1>1, <2>1, <2>2 DEF Stake
<1>3. /\ r.invested \in Nat /\ p.invested \in Nat /\ n.invested \in Nat
      /\ p.cost \in Nat /\ n.cost \in Nat
  BY <1>1, <1>2 DEF Stake
<1>4. r.invested <= Share
  BY <1>2, <1>3, PaperData
<1>5. PaidFor(p) /\ PaidFor(n) => PaidFor(r)
  BY <1>1, <1>2, <1>3 DEF PaidFor
<1> QED
  BY <1>1, <1>2, <1>4, <1>5 DEF Sound

\* A partial sale.
LEMMA CostData ==
  ASSUME NEW p \in Stake, NEW k \in Nat, k <= p.qty
  PROVE  CostOf(p, k) \in Nat /\ CostOf(p, k) <= p.cost
<1>1. p.cost \in Nat /\ p.qty \in Nat \ {0}
  BY DEF Stake
<1> DEFINE x == CostOf(p, k)
<1>2. x \in Nat /\ p.qty * x <= p.cost * k
  <2>1. p.cost * k \in Nat
    BY <1>1
  <2> QED
    BY <1>1, <2>1, Quotient DEF CostOf
<1> HIDE DEF x
<1>3. p.cost * k <= p.cost * p.qty
  BY <1>1
<1>4. p.qty * x <= p.qty * p.cost
  BY <1>1, <1>2, <1>3
<1>5. x <= p.cost
  BY <1>1, <1>2, <1>4
<1> QED
  BY <1>2, <1>5 DEF x

LEMMA ShrunkData ==
  ASSUME NEW p, Sound(p), NEW k \in Nat \ {0}, k < p.qty,
         NEW v \in Nat, NEW gain \in Int, NEW r, r = Shrunk(p, k, v, gain)
  PROVE  /\ Sound(r) /\ r.scaledOut > 0 /\ r.realized = p.realized + gain /\ r.at = p.at
         /\ r.cost = p.cost - CostOf(p, k)
         /\ r.invested = (p.invested * (p.qty - k)) \div p.qty
<1>1. /\ p \in Stake /\ p.cost \in Nat /\ p.qty \in Nat \ {0} /\ p.invested \in Nat
      /\ p.qty - k \in Nat \ {0} /\ p.invested <= Share
  BY DEF Sound, Stake
<1> DEFINE x == CostOf(p, k)
           i == (p.invested * (p.qty - k)) \div p.qty
<1>2. x \in Nat /\ x <= p.cost
  BY <1>1, CostData
<1>3. i \in Nat /\ i <= p.invested
  <2> DEFINE m == p.qty - k
  <2>1. m \in Nat /\ m <= p.qty
    BY <1>1
  <2>2. p.invested * m \in Nat /\ p.invested * m <= p.invested * p.qty
    BY <1>1, <2>1
  <2>3. i \in Nat /\ p.qty * i <= p.invested * m
    BY <1>1, <2>2, Quotient
  <2> HIDE DEF m, i
  <2>4. p.qty * i <= p.qty * p.invested
    BY <1>1, <2>2, <2>3
  <2> QED
    BY <1>1, <2>3, <2>4
<1>4. r = [p EXCEPT !.qty = p.qty - k, !.cost = p.cost - x, !.invested = i,
             !.scaledOut = p.scaledOut + 1, !.realized = p.realized + gain,
             !.soldValue = p.soldValue + v]
  BY DEF Shrunk
<1> HIDE DEF x, i
<1>5. /\ r \in Stake /\ r.scaledOut = p.scaledOut + 1 /\ r.realized = p.realized + gain
      /\ r.at = p.at /\ r.cost = p.cost - x /\ r.invested = i
  <2>1. /\ p.cost - x \in Nat /\ p.scaledOut + 1 \in Nat /\ p.realized + gain \in Int
        /\ p.soldValue + v \in Nat
    BY <1>1, <1>2 DEF Stake
  <2> QED
    BY <1>1, <1>3, <1>4, <2>1 DEF Stake
<1>6. p.scaledOut \in Nat /\ r.invested <= Share
  BY <1>1, <1>3, <1>5, PaperData DEF Stake
<1> QED
  BY <1>5, <1>6 DEF Sound, x, i

\* Where nothing is rounded the part that stays has been paid for as all of it was.
LEMMA ShrunkPaid ==
  ASSUME NEW p, Sound(p), PaidFor(p), NEW k \in Nat \ {0}, k < p.qty,
         (p.cost * k) % p.qty = 0,
         kind = "swing" => (p.cost * FeePct) % 100 = 0 /\ (CostOf(p, k) * FeePct) % 100 = 0,
         NEW r \in Stake, r.at = p.at, r.cost = p.cost - CostOf(p, k),
         r.invested = (p.invested * (p.qty - k)) \div p.qty
  PROVE  /\ PaidFor(r)
         /\ p.invested - r.invested =
               (IF kind = "swing" THEN CostOf(p, k) + Pct(CostOf(p, k), FeePct)
                                  ELSE CostOf(p, k)) * p.at
<1> DEFINE q == p.qty
           c == p.cost
           x == CostOf(p, k)
           F == Pct(c, FeePct)
           G == Pct(x, FeePct)
           all == IF kind = "swing" THEN c + F ELSE c
           part == IF kind = "swing" THEN x + G ELSE x
<1>1. /\ q \in Nat \ {0} /\ c \in Nat /\ p.at \in Nat \ {0} /\ FeePct \in Nat
      /\ x \in Nat /\ x <= c /\ F \in Nat /\ G \in Nat
  <2>1. p \in Stake /\ p.qty \in Nat \ {0} /\ p.cost \in Nat /\ p.at \in Nat \ {0}
    BY DEF Sound, Stake
  <2>2. FeePct \in Nat
    BY PaperData
  <2>3. x \in Nat /\ x <= c
    BY <2>1, CostData
  <2>4. F \in Nat /\ G \in Nat
    BY <2>1, <2>2, <2>3, Percent
  <2> QED
    BY <2>1, <2>2, <2>3, <2>4
<1>2. c * k = q * x
  <2>1. c * k \in Nat
    BY <1>1
  <2> QED
    BY <1>1, <2>1, Whole DEF CostOf
<1>3. kind = "swing" => c * FeePct = 100 * F /\ x * FeePct = 100 * G
  <2>1. c * FeePct \in Nat /\ x * FeePct \in Nat
    BY <1>1
  <2> QED
    BY <1>1, <2>1, Whole DEF Pct
<1> HIDE DEF q, c, x, F, G
<1>4. kind = "swing" => F * k = q * G
  <2> SUFFICES ASSUME kind = "swing" PROVE F * k = q * G
    OBVIOUS
  <2>1. 100 * (F * k) = (c * FeePct) * k
    BY <1>1, <1>3
  <2>2. (c * FeePct) * k = (q * x) * FeePct
    BY <1>1, <1>2
  <2>3. (q * x) * FeePct = 100 * (q * G)
    BY <1>1, <1>3
  <2>4. F * k \in Nat /\ q * G \in Nat
    BY <1>1
  <2> QED
    BY <2>1, <2>2, <2>3, <2>4
<1>5. all \in Nat /\ part \in Nat /\ all * k = q * part
  <2>1. CASE kind = "swing"
    <3>1. (c + F) * k = c * k + F * k /\ q * (x + G) = q * x + q * G
      BY <1>1
    <3> QED
      BY <1>1, <1>2, <1>4, <2>1, <3>1
  <2>2. CASE kind # "swing"
    BY <1>1, <1>2, <2>2
  <2> QED
    BY <2>1, <2>2
<1>6. p.invested = all * p.at
  BY DEF PaidFor, c, F
<1> DEFINE rest == (all - part) * p.at
<1>7. part <= all
  <2>1. q * part <= all * q
    <3>1. k <= q
      BY <1>1 DEF q
    <3>2. all * k <= all * q
      BY <1>1, <1>5, <3>1
    <3> QED
      BY <1>5, <3>2
  <2> HIDE DEF all, part
  <2> QED
    BY <1>1, <1>5, <2>1
<1>8. r.invested = rest
  <2> HIDE DEF all, part
  <2>1. rest \in Nat
    BY <1>1, <1>5, <1>7
  <2>2. (all * p.at) * (q - k) = q * rest
    <3>1. (all * p.at) * (q - k) = (all * q) * p.at - (all * k) * p.at
      BY <1>1, <1>5
    <3>2. q * rest = (all * q) * p.at - (q * part) * p.at
      BY <1>1, <1>5
    <3> QED
      BY <1>5, <3>1, <3>2
  <2>3. (all * p.at) * (q - k) \in Nat
    BY <1>1, <2>1, <2>2
  <2> HIDE DEF rest
  <2>4. ((all * p.at) * (q - k)) \div q = rest
    BY <1>1, <2>1, <2>2, <2>3, Divides
  <2> QED
    BY <1>6, <2>4 DEF q
<1>9. p.invested - r.invested = part * p.at
  <2> HIDE DEF all, part
  <2>1. rest = all * p.at - part * p.at
    BY <1>1, <1>5
  <2>2. all * p.at \in Nat /\ part * p.at \in Nat
    BY <1>1, <1>5
  <2> QED
    BY <1>6, <1>8, <2>1, <2>2
<1>10. PaidFor(r)
  <2>1. CASE kind = "swing"
    <3>1. Pct(c - x, FeePct) = F - G
      <4>1. (c - x) * FeePct = 100 * (F - G)
        <5>1. (c - x) * FeePct = c * FeePct - x * FeePct
          BY <1>1
        <5> QED
          BY <1>1, <1>3, <2>1, <5>1
      <4>2. (c - x) * FeePct \in Nat
        BY <1>1
      <4>3. F - G \in Nat
        BY <1>1, <4>1, <4>2
      <4> QED
        BY <4>1, <4>2, <4>3, Divides DEF Pct
    <3>2. all - part = (c - x) + (F - G)
      BY <1>1, <2>1
    <3> QED
      BY <1>8, <2>1, <3>1, <3>2 DEF PaidFor, c, x
  <2>2. CASE kind # "swing"
    BY <1>8, <2>2 DEF PaidFor, c, x
  <2> QED
    BY <2>1, <2>2
<1> QED
  BY <1>9, <1>10 DEF x, G

\* The book.
LEMMA NotNoPosition ==
  ASSUME NEW p, Sound(p)
  PROVE  p # NoPosition /\ p.qty \in Nat \ {0}
BY DEF Sound, Stake, NoPosition

LEMMA PaidIsNat ==
  ASSUME rate \in Nat \ {0}, NEW v \in Nat
  PROVE  Paid(v) \in Nat /\ Fx \in Nat \ {0}
<1>1. Pct(v, FeePct) \in Nat
  BY PaperData, Percent
<1>2. Fx \in Nat \ {0}
  BY DEF Fx
<1> QED
  BY <1>1, <1>2 DEF Paid

LEMMA ProceedsAreInt ==
  ASSUME rate \in Nat \ {0}, NEW v \in Nat, NEW c \in Nat
  PROVE  Proceeds(v, c) \in Int
<1>1. Pct(v, FeePct) \in Nat /\ Pct(v + c, FeePct) \in Nat
  <2>1. v + c \in Nat
    OBVIOUS
  <2> QED
    BY <2>1, PaperData, Percent
<1>2. Fx \in Nat \ {0}
  BY PaidIsNat
<1> QED
  BY <1>1, <1>2 DEF Proceeds

LEMMA BookSet ==
  ASSUME NEW b, Book(b), NEW s \in Symbol, NEW p, p = NoPosition \/ Sound(p)
  PROVE  Book([b EXCEPT ![s] = p])
BY DEF Book, Sound

LEMMA BookStays ==
  ASSUME NEW b, Book(b), kind' = kind
  PROVE  Book(b)'
BY DEF Book, Sound, Share

\* A position is opened, changed or closed.
LEMMA OneChanges ==
  ASSUME PaperInv, NEW s \in Symbol, NEW p, p = NoPosition \/ Sound(p),
         pos' = [pos EXCEPT ![s] = p], cash' \in Int, closed' \in Int,
         UNCHANGED <<kind, rate, stateFile>>
  PROVE  PaperInv'
<1>1. Book([pos EXCEPT ![s] = p])
  BY BookSet DEF PaperInv
<1>2. Book(pos')
  BY <1>1
<1>3. Book(pos)' /\ Book(stateFile.pos)'
  BY <1>2 DEF Book, Sound, Share, PaperInv
<1> QED
  BY <1>3 DEF PaperInv

LEMMA AmountsAreInt ==
  ASSUME IsFiniteSet(Symbol), NEW b, Book(b)
  PROVE  AllInvested(b) \in Int /\ AllRealized(b) \in Int
<1>1. \A s \in Symbol : Invested(b[s]) \in Int /\ Realized(b[s]) \in Int
  BY DEF Book, Sound, Stake, Invested, Realized
<1> DEFINE i == [s \in Symbol |-> Invested(b[s])]
           r == [s \in Symbol |-> Realized(b[s])]
<1>2. \A s \in Symbol : i[s] \in Int /\ r[s] \in Int
  BY <1>1
<1> HIDE DEF i, r
<1>3. SumFunctionOnSet(i, Symbol) \in Int /\ SumFunctionOnSet(r, Symbol) \in Int
  BY <1>2, SumType
<1> QED
  BY <1>3 DEF AllInvested, AllRealized, i, r

LEMMA AmountsChange ==
  ASSUME IsFiniteSet(Symbol), NEW b, Book(b), NEW s \in Symbol,
         NEW p, p = NoPosition \/ Sound(p), NEW c, c = [b EXCEPT ![s] = p]
  PROVE  /\ AllInvested(c) = AllInvested(b) + (Invested(p) - Invested(b[s]))
         /\ AllRealized(c) = AllRealized(b) + (Realized(p) - Realized(b[s]))
         /\ AllInvested(b) \in Int /\ AllRealized(b) \in Int
         /\ Invested(p) \in Int /\ Realized(p) \in Int
         /\ Invested(b[s]) \in Int /\ Realized(b[s]) \in Int
<1> DEFINE ib == [y \in Symbol |-> Invested(b[y])]
           ic == [y \in Symbol |-> Invested(c[y])]
           rb == [y \in Symbol |-> Realized(b[y])]
           rc == [y \in Symbol |-> Realized(c[y])]
           di == Invested(p) - Invested(b[s])
           dr == Realized(p) - Realized(b[s])
<1>1. /\ \A y \in Symbol : Invested(b[y]) \in Int /\ Realized(b[y]) \in Int
      /\ Invested(p) \in Int /\ Realized(p) \in Int
  BY DEF Book, Sound, Stake, Invested, Realized
<1>2. c[s] = p /\ \A y \in Symbol \ {s} : c[y] = b[y]
  BY DEF Book
<1>3. /\ \A y \in Symbol : ib[y] \in Int
      /\ ic[s] = ib[s] + di /\ di \in Int
      /\ \A y \in Symbol \ {s} : ic[y] = ib[y]
  BY <1>1, <1>2
<1>4. /\ \A y \in Symbol : rb[y] \in Int
      /\ rc[s] = rb[s] + dr /\ dr \in Int
      /\ \A y \in Symbol \ {s} : rc[y] = rb[y]
  BY <1>1, <1>2
<1> HIDE DEF ib, ic, rb, rc, di, dr
<1>5. SumFunctionOnSet(ic, Symbol) = SumFunctionOnSet(ib, Symbol) + di
  BY <1>3, SumRaise
<1>6. SumFunctionOnSet(rc, Symbol) = SumFunctionOnSet(rb, Symbol) + dr
  BY <1>4, SumRaise
<1>7. AllInvested(b) \in Int /\ AllRealized(b) \in Int
  BY AmountsAreInt
<1> QED
  BY <1>1, <1>5, <1>6, <1>7 DEF ib, ic, rb, rc, di, dr, AllInvested, AllRealized

\* ... and the books still balance, if the cash and the profits follow.
LEMMA BalanceChanges ==
  ASSUME IsFiniteSet(Symbol), PaperInv, BalanceInv, NEW s \in Symbol,
         NEW p, p = NoPosition \/ Sound(p), p # NoPosition => PaidFor(p),
         pos' = [pos EXCEPT ![s] = p], cash' \in Int, closed' \in Int,
         UNCHANGED <<kind, stateFile>>,
         drift' = {} =>
            /\ drift = {}
            /\ cash' + Invested(p) - Invested(pos[s]) - cash =
                  closed' + Realized(p) - Realized(pos[s]) - closed
  PROVE  BalanceInv'
<1>1. Book(pos) /\ cash \in Int /\ closed \in Int /\ Budget \in Int
  BY PaperData DEF PaperInv
<1>2. /\ AllInvested(pos') = AllInvested(pos) + (Invested(p) - Invested(pos[s]))
      /\ AllRealized(pos') = AllRealized(pos) + (Realized(p) - Realized(pos[s]))
      /\ AllInvested(pos) \in Int /\ AllRealized(pos) \in Int
      /\ Invested(p) \in Int /\ Realized(p) \in Int
      /\ Invested(pos[s]) \in Int /\ Realized(pos[s]) \in Int
  BY <1>1, AmountsChange
<1>3. drift' = {} => cash' + AllInvested(pos') = Budget + closed' + AllRealized(pos')
  BY <1>1, <1>2 DEF BalanceInv
<1>4. ASSUME NEW y \in Symbol
      PROVE  /\ pos'[y] # NoPosition => PaidFor(pos'[y])
             /\ stateFile.pos[y] # NoPosition => PaidFor(stateFile.pos[y])
  BY <1>1 DEF Book, BalanceInv
<1>5. (\A y \in Symbol : /\ pos[y] # NoPosition => PaidFor(pos[y])
                         /\ stateFile.pos[y] # NoPosition => PaidFor(stateFile.pos[y]))'
  BY <1>4 DEF PaidFor
<1>6. AllInvested(pos)' = AllInvested(pos') /\ AllRealized(pos)' = AllRealized(pos')
  BY DEF AllInvested, AllRealized, Invested, Realized
<1> QED
  BY <1>3, <1>5, <1>6 DEF BalanceInv

\* The engine's steps, each of which keeps PaperInv, and the balance where nothing is rounded.
LEMMA PurchaseKeeps ==
  ASSUME IsFiniteSet(Symbol), PaperInv, NEW s \in Symbol,
         NEW n \in Stake, NEW amount, NEW p, Purchase(s, n, amount, p), Sound(p),
         Invested(p) = Invested(pos[s]) + n.invested, Realized(p) = Realized(pos[s]),
         UNCHANGED <<kind, rate, stateFile>>
  PROVE  PaperInv' /\ (BalanceInv /\ PaidFor(p) => BalanceInv')
<1>1. /\ cash' = cash - n.invested /\ pos' = [pos EXCEPT ![s] = p]
      /\ UNCHANGED <<closed, drift>> /\ n.invested \in Nat
  BY DEF Purchase, Stake
<1>2. cash' \in Int /\ closed' \in Int /\ cash \in Int /\ closed \in Int /\ Book(pos)
  BY <1>1 DEF PaperInv
<1>3. PaperInv'
  BY <1>1, <1>2, OneChanges
<1>4. /\ Invested(pos[s]) \in Int /\ Realized(pos[s]) \in Int
  BY <1>2 DEF Book, Sound, Stake, Invested, Realized
<1>5. cash' + Invested(p) - Invested(pos[s]) - cash
        = closed' + Realized(p) - Realized(pos[s]) - closed
  BY <1>1, <1>2, <1>4
<1>6. BalanceInv /\ PaidFor(p) => BalanceInv'
  BY <1>1, <1>2, <1>5, BalanceChanges
<1> QED
  BY <1>3, <1>6

LEMMA EnterKeeps ==
  ASSUME IsFiniteSet(Symbol), PaperInv, NEW s \in Symbol, Enter(s),
         UNCHANGED <<kind, rate, stateFile>>
  PROVE  PaperInv' /\ (BalanceInv => BalanceInv')
<1>1. PICK pct \in EntryPct, price \in Price :
         Purchase(s, Bought(EntryAmount(pct), price), EntryAmount(pct),
                    Bought(EntryAmount(pct), price))
  BY DEF Enter
<1>2. PICK amount : amount = EntryAmount(pct)
  OBVIOUS
<1>3. PICK p : p = Bought(amount, price)
  OBVIOUS
<1>4. Cap \in Nat /\ pct \in Nat /\ rate \in Nat \ {0}
  BY PaperData, PaperAssumption DEF PaperAssumption, PaperInv
<1>5. amount \in Nat /\ amount <= Cap
  BY <1>2, <1>4, Percent DEF EntryAmount, Least
<1>6. Purchase(s, p, amount, p) /\ p.qty > 0
  BY <1>1, <1>2, <1>3 DEF Purchase
<1>7. /\ p \in Stake /\ p.scaledOut = 0 /\ p.soldValue = 0 /\ p.realized = 0
      /\ (kind # "swing" => p.at = 1) /\ PaidFor(p)
      /\ p.invested <= Cap + (IF kind = "swing" THEN Pct(Cap, FeePct) ELSE 0)
  BY <1>3, <1>4, <1>5, <1>6, BoughtData
<1>8. Sound(p)
  BY <1>7 DEF Sound, Share
<1>9. p # NoPosition /\ pos[s] = NoPosition /\ p.invested \in Nat
  BY <1>7, <1>8, NotNoPosition DEF Enter, Stake
<1>10. Invested(p) = Invested(pos[s]) + p.invested /\ Realized(p) = Realized(pos[s])
  BY <1>7, <1>9 DEF Invested, Realized
<1> QED
  BY <1>6, <1>7, <1>8, <1>10, PurchaseKeeps

LEMMA AddKeeps ==
  ASSUME IsFiniteSet(Symbol), PaperInv, NEW s \in Symbol, NEW price \in Price,
         pos[s] # NoPosition, AddTo(s, price), UNCHANGED <<kind, rate, stateFile>>
  PROVE  PaperInv' /\ (BalanceInv => BalanceInv')
<1>1. PICK pct \in AddPct :
         Purchase(s, Bought(AddAmount(pos[s], pct), price), AddAmount(pos[s], pct),
                    Merged(pos[s], Bought(AddAmount(pos[s], pct), price)))
  BY DEF AddTo
<1>2. PICK amount : amount = AddAmount(pos[s], pct)
  OBVIOUS
<1>3. PICK n : n = Bought(amount, price)
  OBVIOUS
<1>4. PICK old : old = pos[s]
  OBVIOUS
<1>5. PICK p : p = Merged(old, n)
  OBVIOUS
<1>6. kind # "swing" /\ old.scaledOut = 0
  BY <1>4 DEF AddTo, AddDue
<1>7. Sound(old) /\ old # NoPosition /\ old.invested \in Nat
  BY <1>4 DEF PaperInv, Book, Sound, Stake
<1>8. Cap \in Nat /\ pct \in Nat /\ rate \in Nat \ {0}
  BY PaperData, PaperAssumption DEF PaperAssumption, PaperInv
<1>9. Purchase(s, n, amount, p) /\ amount > 0 /\ n.qty > 0
  BY <1>1, <1>2, <1>3, <1>4, <1>5 DEF Purchase
<1>10. amount \in Nat /\ amount <= Cap - old.invested /\ Cap - old.invested \in Nat
  <2>1. Pct(Cap, 100 - InitialPct) \in Nat
    <3>1. 100 - InitialPct \in Nat
      BY PaperAssumption DEF PaperAssumption
    <3> QED
      BY <1>8, <3>1, Percent
  <2>2. Pct(Cap, 100 - InitialPct) \div MaxAdds \in Nat
    BY <2>1, Quotient, PaperAssumption DEF PaperAssumption
  <2>3. Pct(Pct(Cap, 100 - InitialPct) \div MaxAdds, pct) \in Nat
    BY <1>8, <2>2, Percent
  <2> QED
    BY <1>2, <1>4, <1>7, <1>8, <1>9, <2>3 DEF AddAmount, Most, Least
<1>11. /\ n \in Stake /\ n.at = 1 /\ PaidFor(n) /\ n.invested <= Cap - old.invested
  <2>1. PICK room \in Nat : room = Cap - old.invested
    BY <1>10
  <2>2. /\ n \in Stake /\ (kind # "swing" => n.at = 1) /\ PaidFor(n)
        /\ n.invested <= room + (IF kind = "swing" THEN Pct(room, FeePct) ELSE 0)
    BY <1>3, <1>8, <1>9, <1>10, <2>1, BoughtData
  <2>3. n.invested <= room
    <3>1. n.invested \in Nat
      BY <2>2 DEF Stake
    <3> QED
      BY <1>6, <2>2, <3>1
  <2> QED
    BY <1>6, <2>1, <2>2, <2>3
<1>12. old.invested + n.invested <= Cap /\ n.invested \in Nat
  <2>1. n.invested \in Nat
    BY <1>11 DEF Stake
  <2> QED
    BY <1>7, <1>8, <1>11, <2>1
<1>13. /\ Sound(p) /\ p.invested = old.invested + n.invested /\ p.realized = old.realized
       /\ (PaidFor(old) /\ PaidFor(n) => PaidFor(p))
  BY <1>5, <1>6, <1>7, <1>11, <1>12, MergedData
<1>14. Invested(p) = Invested(pos[s]) + n.invested /\ Realized(p) = Realized(pos[s])
  BY <1>4, <1>7, <1>13, NotNoPosition DEF Invested, Realized
<1>15. BalanceInv => PaidFor(p)
  BY <1>4, <1>7, <1>11, <1>13 DEF BalanceInv
<1> QED
  BY <1>9, <1>11, <1>13, <1>14, <1>15, PurchaseKeeps

LEMMA SellPartKeeps ==
  ASSUME IsFiniteSet(Symbol), PaperInv, NEW s \in Symbol, NEW price \in Price,
         pos[s] # NoPosition, Part(pos[s]) < pos[s].qty,
         SellPart(s, Part(pos[s]), price), UNCHANGED <<kind, rate, stateFile>>
  PROVE  PaperInv' /\ (BalanceInv /\ NothingRounds => BalanceInv')
<1>1. PICK old : old = pos[s]
  OBVIOUS
<1>2. Sound(old) /\ old # NoPosition /\ old \in Stake
  BY <1>1 DEF PaperInv, Book, Sound
<1>3. /\ old.qty \in Nat \ {0} /\ old.cost \in Nat /\ old.invested \in Nat
      /\ old.realized \in Int /\ old.at \in Nat \ {0}
  BY <1>2 DEF Stake
<1>4. PICK k : k = Part(old)
  OBVIOUS
<1>5. k \in Nat \ {0} /\ k < old.qty
  <2>1. old.qty \div ExitParts \in Nat
    BY <1>3, PaperData, Quotient
  <2> QED
    BY <1>1, <1>4, <2>1 DEF Part, Most
<1>6. rate \in Nat \ {0} /\ price \in Nat /\ k * price \in Nat /\ cash \in Int /\ closed \in Int
  BY <1>5, PaperData DEF PaperInv
<1>7. PICK x : x = CostOf(old, k)
  OBVIOUS
<1>8. x \in Nat
  <2>1. k \in Nat /\ k <= old.qty
    BY <1>3, <1>5
  <2> QED
    BY <1>2, <1>7, <2>1, CostData
<1>9. PICK got : got = Proceeds(k * price, x)
  OBVIOUS
<1>10. PICK paid : paid = Paid(x)
  OBVIOUS
<1>11. got \in Int /\ paid \in Nat
  BY <1>6, <1>8, <1>9, <1>10, ProceedsAreInt, PaidIsNat
<1>12. Profit(old, k, price) = got - paid /\ got - paid \in Int
  BY <1>7, <1>9, <1>10, <1>11 DEF Profit
<1>13. PICK p : p = Shrunk(old, k, k * price, got - paid)
  OBVIOUS
<1>14. /\ Sound(p) /\ p.realized = old.realized + (got - paid) /\ p.at = old.at
       /\ p.cost = old.cost - x /\ p.invested = (old.invested * (old.qty - k)) \div old.qty
  BY <1>2, <1>5, <1>6, <1>7, <1>12, <1>13, ShrunkData
<1>15. /\ cash' = cash + got /\ pos' = [pos EXCEPT ![s] = p]
       /\ drift' = drift \cup Drifts(old) /\ closed' = closed
  BY <1>1, <1>4, <1>7, <1>9, <1>12, <1>13 DEF SellPart
<1>16. cash' \in Int /\ closed' \in Int
  BY <1>6, <1>11, <1>15
<1>17. PaperInv'
  BY <1>14, <1>15, <1>16, OneChanges
<1>18. ASSUME BalanceInv, NothingRounds
       PROVE  BalanceInv'
  <2>1. PaidFor(old)
    BY <1>1, <1>2, <1>18 DEF BalanceInv
  <2>2. /\ (old.cost * k) % old.qty = 0
        /\ kind = "swing" => (old.cost * FeePct) % 100 = 0 /\ (CostOf(old, k) * FeePct) % 100 = 0
    BY <1>1, <1>2, <1>4, <1>18 DEF NothingRounds, Held
  <2>3. /\ PaidFor(p)
        /\ old.invested - p.invested =
              (IF kind = "swing" THEN CostOf(old, k) + Pct(CostOf(old, k), FeePct)
                                 ELSE CostOf(old, k)) * old.at
    <3>1. p \in Stake
      BY <1>14 DEF Sound
    <3> QED
      BY <1>2, <1>5, <1>7, <1>14, <2>1, <2>2, <3>1, ShrunkPaid
  <2>4. drift' = {} => drift = {} /\ old.invested - p.invested = paid
    <3>1. drift' = {} => drift = {} /\ old.at = Fx
      BY <1>2, <1>15 DEF Drifts, Fx, Sound
    <3> QED
      BY <1>7, <1>10, <2>3, <3>1 DEF Paid
  <2>5. /\ Invested(p) = p.invested /\ Invested(pos[s]) = old.invested
        /\ Realized(p) = p.realized /\ Realized(pos[s]) = old.realized
        /\ p.invested \in Nat
    BY <1>1, <1>2, <1>14, NotNoPosition DEF Invested, Realized, Sound, Stake
  <2>6. drift' = {} =>
          /\ drift = {}
          /\ cash' + Invested(p) - Invested(pos[s]) - cash =
                closed' + Realized(p) - Realized(pos[s]) - closed
    BY <1>3, <1>6, <1>11, <1>14, <1>15, <2>4, <2>5
  <2> QED
    BY <1>14, <1>15, <1>16, <1>18, <2>3, <2>6, BalanceChanges
<1> QED
  BY <1>17, <1>18

LEMMA SellAllKeeps ==
  ASSUME IsFiniteSet(Symbol), PaperInv, NEW s \in Symbol, NEW price \in Price,
         pos[s] # NoPosition, SellAll(s, price), UNCHANGED <<kind, rate, stateFile>>
  PROVE  PaperInv' /\ (BalanceInv => BalanceInv')
<1>1. PICK old : old = pos[s]
  OBVIOUS
<1>2. Sound(old) /\ old # NoPosition /\ old \in Stake
  BY <1>1 DEF PaperInv, Book, Sound
<1>3. /\ old.qty \in Nat \ {0} /\ old.cost \in Nat /\ old.invested \in Nat
      /\ old.realized \in Int /\ old.at \in Nat \ {0}
  BY <1>2 DEF Stake
<1>4. /\ rate \in Nat \ {0} /\ price \in Nat /\ old.qty * price \in Nat
      /\ cash \in Int /\ closed \in Int
  <2>1. price \in Nat /\ price * old.qty = old.qty * price
    BY <1>3, PaperData
  <2> QED
    BY <1>3, <2>1 DEF PaperInv
<1>5. CostOf(old, old.qty) = old.cost
  <2>1. old.cost * old.qty \in Nat /\ old.cost * old.qty = old.qty * old.cost
    BY <1>3
  <2> QED
    BY <1>3, <2>1, Divides DEF CostOf
<1>6. PICK got : got = Proceeds(old.qty * price, old.cost)
  OBVIOUS
<1>7. PICK paid : paid = Paid(old.cost)
  OBVIOUS
<1>8. got \in Int /\ paid \in Nat
  BY <1>3, <1>4, <1>6, <1>7, ProceedsAreInt, PaidIsNat
<1>9. Profit(old, old.qty, price) = got - paid
  BY <1>5, <1>6, <1>7 DEF Profit
<1>10. /\ cash' = cash + got /\ pos' = [pos EXCEPT ![s] = NoPosition]
       /\ drift' = drift \cup Drifts(old) /\ closed' = closed + (got - paid) + old.realized
  BY <1>1, <1>6, <1>9 DEF SellAll
<1>11. cash' \in Int /\ closed' \in Int
  BY <1>3, <1>4, <1>8, <1>10
<1>12. PaperInv'
  BY <1>10, <1>11, OneChanges
<1>13. ASSUME BalanceInv
       PROVE  BalanceInv'
  <2>1. drift' = {} => drift = {} /\ old.invested = paid
    <3>1. drift' = {} => drift = {} /\ old.at = Fx
      BY <1>2, <1>10 DEF Drifts, Fx, Sound
    <3>2. PaidFor(old)
      BY <1>1, <1>2, <1>13 DEF BalanceInv
    <3> QED
      BY <1>7, <3>1, <3>2 DEF Paid, PaidFor
  <2>2. /\ Invested(NoPosition) = 0 /\ Invested(pos[s]) = old.invested
        /\ Realized(NoPosition) = 0 /\ Realized(pos[s]) = old.realized
    BY <1>1, <1>2 DEF Invested, Realized
  <2>3. drift' = {} =>
          /\ drift = {}
          /\ cash' + Invested(NoPosition) - Invested(pos[s]) - cash =
                closed' + Realized(NoPosition) - Realized(pos[s]) - closed
    BY <1>3, <1>4, <1>8, <1>10, <2>1, <2>2
  <2>4. PICK p : p = NoPosition
    OBVIOUS
  <2> QED
    BY <1>10, <1>11, <1>13, <2>3, <2>4, BalanceChanges
<1> QED
  BY <1>12, <1>13

\* A step that changes neither the money nor the positions.
LEMMA NothingChanges ==
  ASSUME PaperInv, UNCHANGED <<kind, cash, pos, closed, drift>>, rate' \in Nat \ {0},
         UNCHANGED stateFile \/ (stateFile'.pos = pos /\ stateFile'.closed = closed)
  PROVE  PaperInv' /\ (BalanceInv => BalanceInv')
<1>1. PaperInv'
  BY DEF PaperInv, Book, Sound, Share
<1>2. BalanceInv => BalanceInv'
  BY DEF BalanceInv, PaidFor, AllInvested, AllRealized, Invested, Realized
<1> QED
  BY <1>1, <1>2

\* The engine is built anew.
LEMMA RestartKeeps ==
  ASSUME IsFiniteSet(Symbol), PaperInv, Restarted
  PROVE  PaperInv' /\ (BalanceInv => BalanceInv')
<1>1. PICK b : b = stateFile.pos
  OBVIOUS
<1>2. /\ Book(b) /\ stateFile.closed \in Int /\ Budget \in Int
      /\ pos' = b /\ stateFile'.pos = b /\ closed' = stateFile.closed
      /\ UNCHANGED <<kind, rate, stateFile>>
  BY <1>1, PaperData DEF PaperInv, Restarted
<1> DEFINE locked == [s \in Symbol |-> Locked(b[s])]
<1>3. \A s \in Symbol : locked[s] \in Int
  <2> SUFFICES ASSUME NEW s \in Symbol PROVE Locked(b[s]) \in Int
    OBVIOUS
  <2>1. b[s] # NoPosition => b[s].invested \in Int /\ b[s].soldValue \in Int
    BY <1>2 DEF Book, Sound, Stake
  <2> QED
    BY <2>1 DEF Locked, Most
<1>4. cash' = Budget + stateFile.closed - SumFunctionOnSet(locked, Symbol)
  BY <1>1 DEF Restarted, Restored, SumFunction, SumFunctionOnSet, FoldFunctionOnSet,
     MapThenFoldSet
<1>5. SumFunctionOnSet(locked, Symbol) \in Int
  <2> HIDE DEF locked
  <2> QED
    BY <1>3, SumType
<1>6. cash' \in Int /\ closed' \in Int
  BY <1>2, <1>4, <1>5
<1>7. Book(pos)' /\ Book(stateFile.pos)'
  <2>1. Book(b)'
    BY <1>2, BookStays
  <2>2. Book(pos') /\ Book(stateFile'.pos)
    BY <1>2
  <2> QED
    BY <1>2, <2>2 DEF Book, Sound, Share
<1>8. PaperInv'
  BY <1>2, <1>6, <1>7 DEF PaperInv
<1>9. ASSUME BalanceInv
      PROVE  BalanceInv'
  <2>1. \A s \in Symbol : b[s] # NoPosition => PaidFor(b[s])
    BY <1>1, <1>9 DEF BalanceInv
  <2>2. (\A s \in Symbol : /\ pos[s] # NoPosition => PaidFor(pos[s])
                           /\ stateFile.pos[s] # NoPosition => PaidFor(stateFile.pos[s]))'
    BY <1>2, <2>1 DEF PaidFor
  <2>3. ASSUME drift' = {}
        PROVE  cash' + AllInvested(b) = Budget + closed' + AllRealized(b)
    <3>1. \A s \in Symbol : b[s] # NoPosition => b[s].scaledOut = 0
      <4>1. \A s \in Symbol : b[s] # NoPosition => ~ (b[s].scaledOut > 0)
        BY <1>1, <2>3 DEF Restarted, Positions
      <4>2. \A s \in Symbol : b[s] # NoPosition => b[s].scaledOut \in Nat
        BY <1>2 DEF Book, Sound, Stake
      <4> QED
        BY <4>1, <4>2
    <3>2. \A s \in Symbol : b[s] # NoPosition =>
            b[s].soldValue = 0 /\ b[s].realized = 0 /\ b[s].invested \in Nat
      BY <1>2, <3>1 DEF Book, Sound, Stake
    <3>3. \A s \in Symbol : Locked(b[s]) = Invested(b[s]) /\ Realized(b[s]) = 0
      BY <3>2 DEF Locked, Most, Invested, Realized
    <3>4. SumFunctionOnSet(locked, Symbol) = AllInvested(b)
      BY <3>3 DEF AllInvested
    <3>5. AllRealized(b) = 0
      <4> DEFINE r == [s \in Symbol |-> Realized(b[s])]
      <4>1. \A s \in Symbol : r[s] = 0
        BY <3>3
      <4> HIDE DEF r
      <4>2. SumFunctionOnSet(r, Symbol) = 0
        BY <4>1, SumOfZeroes
      <4> QED
        BY <4>2 DEF AllRealized, r
    <3> HIDE DEF locked
    <3> QED
      BY <1>2, <1>4, <1>5, <3>4, <3>5
  <2>4. AllInvested(pos)' = AllInvested(b) /\ AllRealized(pos)' = AllRealized(b)
    BY <1>2 DEF AllInvested, AllRealized, Invested, Realized
  <2> QED
    BY <2>2, <2>3, <2>4 DEF BalanceInv
<1> QED
  BY <1>8, <1>9

LEMMA PaperBegins ==
  ASSUME IsFiniteSet(Symbol), PaperInit
  PROVE  PaperInv /\ BalanceInv
<1>1. /\ rate \in Nat \ {0} /\ cash = Budget /\ closed = 0
      /\ stateFile.closed = 0 /\ stateFile.pos = pos
      /\ pos = [s \in Symbol |-> NoPosition] /\ Budget \in Nat
  BY PaperData DEF PaperInit
<1>2. Book(pos)
  BY <1>1 DEF Book
<1>3. PaperInv
  BY <1>1, <1>2 DEF PaperInv
<1> DEFINE i == [s \in Symbol |-> Invested(pos[s])]
           r == [s \in Symbol |-> Realized(pos[s])]
<1>4. \A s \in Symbol : i[s] = 0 /\ r[s] = 0
  BY <1>1 DEF Invested, Realized
<1> HIDE DEF i, r
<1>5. SumFunctionOnSet(i, Symbol) = 0 /\ SumFunctionOnSet(r, Symbol) = 0
  BY <1>4, SumOfZeroes
<1>6. AllInvested(pos) = 0 /\ AllRealized(pos) = 0
  BY <1>5 DEF AllInvested, AllRealized, i, r
<1> QED
  BY <1>1, <1>3, <1>6 DEF BalanceInv

LEMMA PaperGoesOn ==
  ASSUME IsFiniteSet(Symbol), PaperInv, [PaperNext]_paperVars
  PROVE  PaperInv' /\ (BalanceInv /\ NothingRounds => BalanceInv')
<1>1. rate \in Nat \ {0}
  BY DEF PaperInv
<1>2. CASE \E s \in Symbol : Visit(s)
  <2>1. PICK s \in Symbol : Visit(s)
    BY <1>2
  <2>2. UNCHANGED <<kind, rate, stateFile>>
    BY <2>1 DEF Visit
  <2>3. CASE Enter(s)
    BY <2>2, <2>3, EnterKeeps
  <2>4. CASE Leave(s)
    BY <1>1, <2>2, <2>4, NothingChanges DEF Leave
  <2>5. CASE Manage(s)
    <3>1. PICK price \in Price :
            Close(s, price) \/ Exit(s, price) \/ Trim(s, price) \/ AddTo(s, price)
            \/ Keep(s, price)
      BY <2>5 DEF Manage
    <3>2. pos[s] # NoPosition
      BY <2>5 DEF Manage
    <3>3. CASE SellAll(s, price)
      BY <2>2, <3>2, <3>3, SellAllKeeps
    <3>4. CASE Part(pos[s]) < pos[s].qty /\ SellPart(s, Part(pos[s]), price)
      BY <2>2, <3>2, <3>4, SellPartKeeps
    <3>5. CASE AddTo(s, price)
      BY <2>2, <3>2, <3>5, AddKeeps
    <3>6. CASE Keep(s, price)
      BY <1>1, <2>2, <3>6, NothingChanges DEF Keep
    <3> QED
      BY <3>1, <3>3, <3>4, <3>5, <3>6 DEF Close, Exit, Trim
  <2> QED
    BY <2>1, <2>3, <2>4, <2>5 DEF Visit
<1>3. CASE \E s \in Symbol : Liquidate(s)
  <2>1. PICK s \in Symbol, price \in Price :
          pos[s] # NoPosition /\ SellAll(s, price) /\ UNCHANGED <<kind, rate, stateFile>>
    BY <1>3 DEF Liquidate, Held
  <2> QED
    BY <2>1, SellAllKeeps
<1>4. CASE BeginLiquidate
  BY <1>1, <1>4, NothingChanges DEF BeginLiquidate
<1>5. CASE End
  <2>1. /\ UNCHANGED <<kind, rate, cash, pos, closed, drift>>
        /\ stateFile'.pos = pos /\ stateFile'.closed = closed
    BY <1>5 DEF End
  <2> QED
    BY <1>1, <2>1, NothingChanges
<1>6. CASE Restarted
  BY <1>6, RestartKeeps
<1>7. CASE Rated
  <2>1. rate' \in Nat \ {0}
    BY <1>7, PaperData DEF Rated
  <2> QED
    BY <1>7, <2>1, NothingChanges DEF Rated
<1>8. CASE UNCHANGED paperVars
  BY <1>1, <1>8, NothingChanges DEF paperVars
<1> QED
  BY <1>2, <1>3, <1>4, <1>5, <1>6, <1>7, <1>8 DEF PaperNext

(* However it was bought, added to, trimmed and reloaded, a symbol never holds
   more than its share of the budget (sizing.py entry_amount and add_amount,
   the brokers' _merge_buy and _shrink): every amount divides the cap or its
   room, and a part of a position keeps at most what the whole had. *)
THEOREM CapKept ==
  ASSUME IsFiniteSet(Symbol)
  PROVE  PaperSpec => []WithinCap
<1>1. PaperInit => PaperInv
  BY PaperBegins
<1>2. PaperInv /\ [PaperNext]_paperVars => PaperInv'
  BY PaperGoesOn
<1>3. PaperInv => WithinCap
  BY DEF PaperInv, Book, Sound, Share, WithinCap, Held
<1> QED
  BY <1>1, <1>2, <1>3, PTL DEF PaperSpec

(* As long as no share of a position is rounded, the books balance through every
   purchase, addition, sale, reload and restart: the cash and what was paid for
   the positions are the budget and all profits, recorded or not, unless
   one of the two exceptions of Drifts and Restart has happened. *)
THEOREM BooksKept ==
  ASSUME IsFiniteSet(Symbol)
  PROVE  PaperSpec /\ []NothingRounds => []BooksBalance
<1>1. PaperInit => PaperInv /\ BalanceInv
  BY PaperBegins
<1>2. PaperInv /\ BalanceInv /\ NothingRounds /\ [PaperNext]_paperVars => PaperInv' /\ BalanceInv'
  BY PaperGoesOn
<1>3. PaperInv /\ BalanceInv => BooksBalance
  <2> SUFFICES ASSUME PaperInv, BalanceInv, drift = {}
        PROVE  cash + SumFunction([s \in Symbol |-> IF s \in Held THEN pos[s].invested ELSE 0])
                 = Budget + closed
                   + SumFunction([s \in Symbol |-> IF s \in Held THEN pos[s].realized ELSE 0])
    BY DEF BooksBalance
  <2>1. /\ [s \in Symbol |-> IF s \in Held THEN pos[s].invested ELSE 0]
             = [s \in Symbol |-> Invested(pos[s])]
        /\ [s \in Symbol |-> IF s \in Held THEN pos[s].realized ELSE 0]
             = [s \in Symbol |-> Realized(pos[s])]
    BY DEF Held, Invested, Realized
  <2>2. /\ SumFunction([s \in Symbol |-> Invested(pos[s])]) = AllInvested(pos)
        /\ SumFunction([s \in Symbol |-> Realized(pos[s])]) = AllRealized(pos)
    BY DEF AllInvested, AllRealized, SumFunction, SumFunctionOnSet, FoldFunctionOnSet,
       MapThenFoldSet
  <2> QED
    BY <2>1, <2>2 DEF BalanceInv
<1> QED
  BY <1>1, <1>2, <1>3, PTL DEF PaperSpec
------------------------------------------------------------------------------
\* The types of the simulated money

Fits(p) == p.adds <= MaxAdds /\ p.lastFill \in Price /\ p.scaledOut <= 2 /\ p.at \in Rate \cup {1}
AllFit(b) == \A s \in Symbol : b[s] # NoPosition => Fits(b[s])

PaperRanges ==
    /\ kind \in Kinds /\ rate \in Rate
    /\ mode \in {"pass", "liquidate"} /\ visited \subseteq Symbol
    /\ restarts \in Nat /\ restarts <= MaxRestarts
    /\ trades \in Nat /\ trades <= MaxTrades
    /\ stateFile.trades \in Nat /\ stateFile.trades <= trades
    /\ drift \subseteq {"restart", "rate"}

PaperFits == PaperRanges /\ AllFit(pos) /\ AllFit(stateFile.pos)

LEMMA OneFits ==
  ASSUME PaperInv, AllFit(pos), NEW s \in Symbol, NEW p, p = NoPosition \/ Fits(p),
         pos' = [pos EXCEPT ![s] = p]
  PROVE  AllFit(pos)'
<1>1. \A x \in Symbol : pos'[x] = IF x = s THEN p ELSE pos[x]
  BY DEF PaperInv, Book
<1> QED
  BY <1>1 DEF AllFit, Fits

\* A position that is bought, added to or sold in part.
LEMMA BoughtFits ==
  ASSUME rate \in Rate, NEW amount, NEW price \in Price
  PROVE  Fits(Bought(amount, price))
<1>1. MaxAdds >= 0
  BY PaperAssumption DEF PaperAssumption
<1> QED
  BY <1>1 DEF Fits, Bought, Fx

LEMMA MergedFits ==
  ASSUME NEW p \in Stake, Fits(p), p.adds < MaxAdds,
         NEW amount, NEW price \in Price
  PROVE  Fits(Merged(p, Bought(amount, price)))
<1> DEFINE n == Bought(amount, price)
           r == Merged(p, n)
<1>1. n.lastFill = price
  BY DEF Bought
<1> HIDE DEF n
<1>2. r.adds = p.adds + 1 /\ r.lastFill = price /\ r.scaledOut = p.scaledOut /\ r.at = p.at
  BY <1>1 DEF Merged, Stake
<1>3. p.adds \in Nat /\ MaxAdds \in Nat
  BY PaperAssumption DEF PaperAssumption, Stake
<1> HIDE DEF r
<1>4. Fits(r)
  BY <1>2, <1>3 DEF Fits
<1> QED
  BY <1>4 DEF r, n

LEMMA ShrunkFits ==
  ASSUME NEW p \in Stake, Fits(p), p.scaledOut \in {0, 1}, NEW k, NEW v, NEW gain
  PROVE  Fits(Shrunk(p, k, v, gain))
<1> DEFINE r == Shrunk(p, k, v, gain)
<1>1. /\ r.adds = p.adds /\ r.lastFill = p.lastFill /\ r.scaledOut = p.scaledOut + 1
      /\ r.at = p.at
  BY DEF Shrunk, Stake
<1> HIDE DEF r
<1>2. Fits(r)
  BY <1>1 DEF Fits
<1> QED
  BY <1>2 DEF r

\* What the pass does to the positions and the trades; the rest of the engine stands still.
LEMMA ManageFits ==
  ASSUME PaperInv, PaperFits, NEW s \in Symbol, Manage(s), UNCHANGED <<kind, rate, stateFile>>
  PROVE  /\ AllFit(pos)'
         /\ trades' \in Nat /\ trades <= trades' /\ trades' <= MaxTrades
         /\ drift' \subseteq {"restart", "rate"}
<1>1. PICK price \in Price :
        Close(s, price) \/ Exit(s, price) \/ Trim(s, price) \/ AddTo(s, price) \/ Keep(s, price)
  BY DEF Manage
<1>2. /\ pos[s] # NoPosition /\ pos[s] \in Stake /\ Fits(pos[s])
      /\ trades \in Nat /\ trades <= MaxTrades /\ MaxTrades \in Nat
      /\ drift \subseteq {"restart", "rate"}
  BY PaperAssumption
  DEF Manage, PaperInv, Book, Sound, PaperFits, PaperRanges, AllFit, PaperAssumption
<1>3. AllFit(pos)
  BY DEF PaperFits
<1>4. CASE SellAll(s, price)
  <2>1. AllFit(pos)'
    BY <1>3, <1>4, OneFits DEF SellAll
  <2>2. drift' \subseteq {"restart", "rate"}
    BY <1>2, <1>4 DEF SellAll, Drifts
  <2> QED
    BY <1>2, <1>4, <2>1, <2>2 DEF SellAll
<1>5. CASE StepDue(pos[s], price) /\ SellPart(s, Part(pos[s]), price)
  <2>1. pos[s].scaledOut \in {0, 1}
    BY <1>5 DEF StepDue
  <2>2. Fits(Shrunk(pos[s], Part(pos[s]), Part(pos[s]) * price,
                    Profit(pos[s], Part(pos[s]), price)))
    BY <1>2, <2>1, ShrunkFits
  <2>3. AllFit(pos)'
    BY <1>3, <1>5, <2>2, OneFits DEF SellPart
  <2>4. drift' \subseteq {"restart", "rate"}
    BY <1>2, <1>5 DEF SellPart, Drifts
  <2> QED
    BY <1>2, <1>5, <2>3, <2>4 DEF SellPart
<1>6. CASE AddTo(s, price)
  <2>1. PICK amount :
          /\ pos' = [pos EXCEPT ![s] = Merged(pos[s], Bought(amount, price))]
          /\ UNCHANGED <<trades, drift>>
    BY <1>6 DEF AddTo, Purchase
  <2>2. pos[s].adds < MaxAdds
    BY <1>6 DEF AddTo, AddDue
  <2>3. AllFit(pos)'
    BY <1>2, <1>3, <2>1, <2>2, MergedFits, OneFits
  <2> QED
    BY <1>2, <2>1, <2>3
<1>7. CASE Keep(s, price)
  BY <1>2, <1>3, <1>7 DEF Keep, AllFit, Fits
<1> QED
  BY <1>1, <1>4, <1>5, <1>6, <1>7 DEF Close, Exit, Trim

LEMMA VisitFits ==
  ASSUME PaperInv, PaperFits, NEW s \in Symbol, Visit(s)
  PROVE  PaperFits'
<1>1. UNCHANGED <<kind, rate, stateFile, mode, restarts>> /\ visited' = visited \cup {s}
  BY DEF Visit
<1>2. /\ AllFit(pos)'
      /\ trades' \in Nat /\ trades <= trades' /\ trades' <= MaxTrades
      /\ drift' \subseteq {"restart", "rate"}
  <2>1. /\ AllFit(pos) /\ rate \in Rate /\ trades \in Nat /\ trades <= MaxTrades
        /\ drift \subseteq {"restart", "rate"}
    BY DEF PaperFits, PaperRanges
  <2>2. CASE Enter(s)
    <3>1. PICK pct \in EntryPct, price \in Price :
            /\ pos' = [pos EXCEPT ![s] = Bought(EntryAmount(pct), price)]
            /\ UNCHANGED <<trades, drift>>
      BY <2>2 DEF Enter, Purchase
    <3>2. Fits(Bought(EntryAmount(pct), price))
      BY <2>1, BoughtFits
    <3>3. AllFit(pos)'
      BY <2>1, <3>1, <3>2, OneFits
    <3> QED
      BY <2>1, <3>1, <3>3
  <2>3. CASE Leave(s)
    BY <2>1, <2>3 DEF Leave, AllFit, Fits
  <2>4. CASE Manage(s)
    BY <1>1, <2>4, ManageFits
  <2> QED
    BY <2>2, <2>3, <2>4 DEF Visit
<1>3. MaxTrades \in Nat /\ stateFile.trades \in Nat /\ trades \in Nat
  BY PaperAssumption DEF PaperAssumption, PaperFits, PaperRanges
<1> QED
  BY <1>1, <1>2, <1>3 DEF PaperFits, PaperRanges, AllFit, Fits

LEMMA PaperFitsGoesOn ==
  ASSUME PaperInv, PaperFits, [PaperNext]_paperVars
  PROVE  PaperFits'
<1>1. /\ MaxTrades \in Nat /\ MaxRestarts \in Nat
      /\ stateFile.trades \in Nat /\ trades \in Nat /\ restarts \in Nat
      /\ stateFile.trades <= trades /\ trades <= MaxTrades /\ restarts <= MaxRestarts
  BY PaperAssumption DEF PaperAssumption, PaperFits, PaperRanges
<1>2. CASE \E s \in Symbol : Visit(s)
  BY <1>2, VisitFits
<1>3. CASE \E s \in Symbol : Liquidate(s)
  <2>1. PICK s \in Symbol, price \in Price :
          SellAll(s, price) /\ UNCHANGED <<kind, rate, stateFile, mode, visited, restarts>>
    BY <1>3 DEF Liquidate
  <2>2. AllFit(pos)'
    BY <2>1, OneFits DEF SellAll, PaperFits
  <2>3. drift' \subseteq {"restart", "rate"}
    BY <2>1 DEF SellAll, Drifts, PaperFits, PaperRanges
  <2>4. trades < MaxTrades /\ trades' = trades + 1
    BY <2>1 DEF SellAll
  <2> QED
    BY <1>1, <2>1, <2>2, <2>3, <2>4 DEF PaperFits, PaperRanges, AllFit, Fits
<1>4. CASE BeginLiquidate
  BY <1>4 DEF BeginLiquidate, PaperFits, PaperRanges, AllFit, Fits
<1>5. CASE End
  <2>1. /\ UNCHANGED <<kind, rate, pos, trades, restarts, drift>>
        /\ stateFile'.pos = pos /\ stateFile'.trades = trades
        /\ mode' = "pass" /\ visited' = {}
    BY <1>5 DEF End
  <2> QED
    BY <1>1, <2>1 DEF PaperFits, PaperRanges, AllFit, Fits
<1>6. CASE Restarted
  <2>1. /\ UNCHANGED <<kind, rate, stateFile>> /\ pos' = stateFile.pos
        /\ trades' = stateFile.trades /\ restarts < MaxRestarts /\ restarts' = restarts + 1
        /\ mode' = "pass" /\ visited' = {} /\ drift' \subseteq drift \cup {"restart"}
    BY <1>6 DEF Restarted
  <2> QED
    BY <1>1, <2>1 DEF PaperFits, PaperRanges, AllFit, Fits
<1>7. CASE Rated
  BY <1>7 DEF Rated, PaperFits, PaperRanges, AllFit, Fits
<1>8. CASE UNCHANGED paperVars
  BY <1>8 DEF paperVars, PaperFits, PaperRanges, AllFit, Fits
<1> QED
  BY <1>2, <1>3, <1>4, <1>5, <1>6, <1>7, <1>8 DEF PaperNext

(* What the book and the state file hold is a position, a positive quantity
   with a cost, an investment, a number of additions and of partial sales the
   engine allows, through purchases, sales, restarts and the changes of the
   exchange rate (sizing.py, _merge_buy, _shrink, _execute_exit). *)
THEOREM PositionsSound ==
  ASSUME IsFiniteSet(Symbol)
  PROVE  PaperSpec => []PaperTypeOK
<1>1. PaperInit => PaperInv /\ PaperFits
  <2> SUFFICES ASSUME PaperInit PROVE PaperFits
    BY PaperBegins
  <2>1. MaxTrades \in Nat /\ MaxRestarts \in Nat
    BY PaperAssumption DEF PaperAssumption
  <2>2. pos = [s \in Symbol |-> NoPosition] /\ stateFile.pos = pos /\ stateFile.trades = 0
    BY DEF PaperInit
  <2>3. AllFit(pos) /\ AllFit(stateFile.pos)
    BY <2>2 DEF AllFit
  <2> QED
    BY <2>1, <2>2, <2>3 DEF PaperInit, PaperFits, PaperRanges
<1>2. PaperInv /\ PaperFits /\ [PaperNext]_paperVars => PaperInv' /\ PaperFits'
  BY PaperGoesOn, PaperFitsGoesOn
<1>3. PaperInv /\ PaperFits => PaperTypeOK
  <2> SUFFICES ASSUME PaperInv, PaperFits PROVE PaperTypeOK
    OBVIOUS
  <2>1. ASSUME NEW p \in Stake, Fits(p) PROVE p \in Position
    <3>1. p.adds \in 0 .. MaxAdds /\ p.scaledOut \in 0 .. 2
      BY <2>1, PaperAssumption DEF PaperAssumption, Fits, Stake
    <3> QED
      BY <2>1, <3>1 DEF Fits, Stake, Position
  <2>2. \A s \in Held : pos[s] \in Position
    BY <2>1 DEF Held, PaperInv, Book, Sound, PaperFits, AllFit
  <2>3. \A s \in Positions(stateFile.pos) : stateFile.pos[s] \in Position
    BY <2>1 DEF Positions, PaperInv, Book, Sound, PaperFits, AllFit
  <2>4. restarts \in 0 .. MaxRestarts /\ trades \in 0 .. MaxTrades /\ stateFile.trades \in 0 .. trades
    BY PaperAssumption DEF PaperAssumption, PaperFits, PaperRanges
  <2> QED
    BY <2>2, <2>3, <2>4 DEF PaperTypeOK, PaperInv, PaperFits, PaperRanges
<1> QED
  BY <1>1, <1>2, <1>3, PTL DEF PaperSpec
==============================================================================
