------------------------------- MODULE Quotes -------------------------------
(***************************************************************************)
(* How the threads of the program reach the exchange: QuoteRouter          *)
(* (router.py) tries Toss first and the public quotes of the internet      *)
(* second, and skips Toss for thirty seconds after a failure; TossClient   *)
(* (tossapi.py) sends a request with the one access token all its threads  *)
(* share, fetches a token when there is none, and retries.  The exchange   *)
(* revokes the older token whenever it issues a new one, to this process   *)
(* or to another one with the same key.  Orders are never routed.          *)
(*                                                                         *)
(* The rate limiter only makes a request wait, and is left out.            *)
(***************************************************************************)
EXTENDS Naturals

CONSTANTS
    Thread,   \* the threads that share one router and its client
    Free,     \* nobody holds _token_lock
    Retries,  \* _request's retries (3 in the code)
    Skip,     \* the ticks of the thirty seconds of _SKIP_SECONDS
    Name      \* the calls made, among the ones below

Account == {"holdings"}             \* the internet has no account
Routed == {"prices", "candles"}     \* the internet has these, too
TossOnly == {"rankings"}            \* TOSS_ONLY
Order == {"create_order"}           \* to Toss directly, idempotent=False

ASSUME QuotesAssumption ==
    /\ Thread # {} /\ Free \notin Thread
    /\ Retries \in Nat /\ Skip \in Nat \ {0}
    /\ Name \subseteq Account \cup Routed \cup TossOnly \cup Order

VARIABLES
    req,    \* the call each thread is making
    lock,   \* _token_lock
    token,  \* client._token, as the exchange and Token.valid would judge it
    file,   \* the token in .token_cache.json
    left    \* router._skip_until: the ticks Toss is still skipped for

vars == <<req, lock, token, file, left>>

(* A token "old" is still accepted, and Token.valid is already false. *)
Token == {"none", "live", "old", "dead"}
At == {"idle", "token", "fetch", "store", "read", "send", "backup"}
Request == [at : At, name : Name, attempt : 0 .. Retries,
            held : {"live", "dead"}, executed : Nat]

TypeOK ==
    /\ req \in [Thread -> Request]
    /\ lock \in Thread \cup {Free}
    /\ \A t \in Thread : lock = t <=> req[t].at \in {"fetch", "store"}
    /\ token \in Token /\ file \in Token
    /\ left \in [Name -> 0 .. Skip]

Init ==
    /\ req \in [Thread -> [at : {"idle"}, name : Name, attempt : {0},
                           held : {"dead"}, executed : {0}]]
    /\ lock = Free /\ file \in {"none", "live", "dead"} /\ token = file
    /\ left = [n \in Name |-> 0]

At_(t, at) == req[t].at = at
Goes(t, at) == req' = [req EXCEPT ![t].at = at]

------------------------------------------------------------------------------
\* The router

Call(t, n) ==
    /\ At_(t, "idle")
    /\ req' = [req EXCEPT ![t] = [at |-> IF left[n] > 0 THEN "backup" ELSE "token",
                                  name |-> n, attempt |-> 0, held |-> "dead",
                                  executed |-> 0]]
    /\ UNCHANGED <<lock, token, file, left>>

\* _mark_failed: what the internet cannot replace is not skipped.
MarkFailed(n) == left' = IF n \in TossOnly THEN left ELSE [left EXCEPT ![n] = Skip]

\* The primary has thrown: an order's error goes to its caller, and so does a
\* TOSS_ONLY's; the others are put to the internet.
Thrown(t) ==
    LET n == req[t].name
    IN IF n \in Order THEN Goes(t, "idle") /\ UNCHANGED left
       ELSE Goes(t, IF n \in TossOnly THEN "idle" ELSE "backup") /\ MarkFailed(n)

BackupOk(t) ==
    /\ At_(t, "backup") /\ req[t].name \in Routed
    /\ Goes(t, "idle")
    /\ UNCHANGED <<lock, token, file, left>>

BackupFailsMarked(t) ==
    /\ At_(t, "backup")
    /\ Goes(t, "idle") /\ MarkFailed(req[t].name)
    /\ UNCHANGED <<lock, token, file>>

\* _call records the internet's failure like Toss's own; prices() does not.
BackupFails(t) ==
    /\ At_(t, "backup")
    /\ Goes(t, "idle")
    /\ IF req[t].name = "prices" THEN UNCHANGED left ELSE MarkFailed(req[t].name)
    /\ UNCHANGED <<lock, token, file>>

------------------------------------------------------------------------------
\* TossClient._request

\* _ensure_token, up to the exchange's answer: the lock is kept for the fetch.
Ensure(t) ==
    /\ At_(t, "token") /\ lock = Free
    /\ IF token \in {"none", "old"}
       THEN lock' = t /\ Goes(t, "fetch")
       ELSE lock' = lock /\ Goes(t, "read")
    /\ UNCHANGED <<token, file, left>>

Revoked(tk) == IF tk = "none" THEN "none" ELSE "dead"

\* The exchange issues a token, and so revokes the one before it.
Fetched(t) ==
    /\ At_(t, "fetch")
    /\ req' = [s \in Thread |-> [req[s] EXCEPT !.held = IF s = t THEN "live" ELSE "dead",
                                               !.at = IF s = t THEN "store" ELSE @]]
    /\ token' = Revoked(token) /\ file' = Revoked(file)
    /\ UNCHANGED <<lock, left>>

Stored(t) ==
    /\ At_(t, "store")
    /\ token' = req[t].held /\ file' = req[t].held /\ lock' = Free
    /\ Goes(t, "read")
    /\ UNCHANGED left

NotFetched(t) ==
    /\ At_(t, "fetch")
    /\ lock' = Free /\ Thrown(t)
    /\ UNCHANGED <<token, file>>

\* `return self._token.access_token' stands after the lock: it throws when
\* another thread has discarded the token in between.
Read(t) ==
    /\ At_(t, "read")
    /\ IF token = "none"
       THEN Thrown(t)
       ELSE /\ req' = [req EXCEPT ![t].at = "send",
                                  ![t].held = IF token = "dead" THEN "dead" ELSE "live"]
            /\ UNCHANGED left
    /\ UNCHANGED <<lock, token, file>>

Again(t) ==
    IF req[t].attempt = Retries
    THEN Thrown(t)
    ELSE req' = [req EXCEPT ![t].at = "token", ![t].attempt = @ + 1] /\ UNCHANGED left

Answered(t) ==
    /\ At_(t, "send") /\ req[t].held = "live"
    /\ req' = [req EXCEPT ![t].at = "idle",
                          ![t].executed = IF req[t].name \in Order THEN @ + 1 ELSE @]
    /\ UNCHANGED <<lock, token, file, left>>

\* prices(): Toss knew some of the symbols only, and the internet fails for the rest.
Partly(t) ==
    /\ At_(t, "send") /\ req[t].held = "live" /\ req[t].name = "prices"
    /\ Goes(t, "idle") /\ MarkFailed("prices")
    /\ UNCHANGED <<lock, token, file>>

AgainForever(t) ==
    req' = [req EXCEPT ![t].at = "token"] /\ UNCHANGED left

RefusedForever(t) ==
    /\ At_(t, "send") /\ req[t].held = "dead"
    /\ token' = "none" /\ file' = "none"
    /\ AgainForever(t)
    /\ UNCHANGED lock

\* 401: _discard_token takes no lock, and drops the token there is now.
Refused(t) ==
    /\ At_(t, "send") /\ req[t].held = "dead"
    /\ token' = "none" /\ file' = "none"
    /\ Again(t)
    /\ UNCHANGED lock

\* 429: the exchange has not looked at the request.
Busy(t) ==
    /\ At_(t, "send")
    /\ Again(t)
    /\ UNCHANGED <<lock, token, file>>

\* Another status below 500.
Rejected(t) ==
    /\ At_(t, "send")
    /\ Thrown(t)
    /\ UNCHANGED <<lock, token, file>>

\* The exchange may have executed an order whose answer is lost.
Executed(t) == IF req[t].held = "live" /\ req[t].name \in Order THEN {0, 1} ELSE {0}

LostAgain(t) ==
    /\ At_(t, "send")
    /\ \E done \in Executed(t) :
          req' = [req EXCEPT ![t].at = IF req[t].attempt = Retries THEN "idle" ELSE "token",
                             ![t].attempt = IF @ = Retries THEN @ ELSE @ + 1,
                             ![t].executed = @ + done]
    /\ UNCHANGED <<lock, token, file, left>>

\* No answer, or a status from 500 on: a request is sent again, an order never.
Lost(t) ==
    /\ At_(t, "send")
    /\ IF req[t].name \in Order
       THEN /\ \E done \in Executed(t) :
                 req' = [req EXCEPT ![t].at = "idle", ![t].executed = @ + done]
            /\ UNCHANGED left
       ELSE Again(t)
    /\ UNCHANGED <<lock, token, file>>

Toss(t) ==
    \/ Answered(t) \/ Partly(t) \/ Refused(t) \/ Busy(t) \/ Rejected(t) \/ Lost(t)

------------------------------------------------------------------------------
\* The surroundings

\* external: another process with the same key is issued a token, and caches it,
\* in this file or elsewhere.
Elsewhere ==
    /\ token' = Revoked(token) /\ file' \in {"live", Revoked(file)}
    /\ req' = [t \in Thread |-> [req[t] EXCEPT !.held = "dead"]]
    /\ UNCHANGED <<lock, left>>

\* external: the token comes within a minute of its end.
Ages ==
    /\ "live" \in {token, file}
    /\ token' = IF token = "live" THEN "old" ELSE token
    /\ file' = IF file = "live" THEN "old" ELSE file
    /\ UNCHANGED <<req, lock, left>>

\* The program starts anew, and reads the cached token.
Restart ==
    /\ \A t \in Thread : At_(t, "idle")
    /\ token' = file /\ left' = [n \in Name |-> 0]
    /\ UNCHANGED <<req, lock, file>>

\* external: time.
Tick ==
    /\ \E n \in Name : left[n] > 0
    /\ left' = [n \in Name |-> IF left[n] > 0 THEN left[n] - 1 ELSE 0]
    /\ UNCHANGED <<req, lock, token, file>>

Step(t) ==
    \/ BackupOk(t) \/ BackupFails(t) \/ Ensure(t)
    \/ Fetched(t) \/ Stored(t) \/ NotFetched(t) \/ Read(t) \/ Toss(t)

Next ==
    \/ \E t \in Thread : Step(t) \/ \E n \in Name : Call(t, n)
    \/ Elsewhere \/ Ages \/ Restart \/ Tick

Spec == Init /\ [][Next]_vars

(* A thread goes on: the lock is only kept for a fetch, every request has a
   timeout, and a lost answer is an answer (Lost).  Time passes. *)
FairSpec ==
    /\ Spec
    /\ \A t \in Thread : WF_vars(Step(t)) /\ SF_vars(Ensure(t))
    /\ WF_vars(Tick)

------------------------------------------------------------------------------
\* Properties

(* An order call is executed at most once, whatever is retried inside it: after a
   401 and a 429, never after an answer that was lost (tossapi.py:183-188). *)
SentOnce == \A t \in Thread : req[t].executed <= 1

(* Every call ends, even while another process keeps revoking this one's token:
   the retries are counted over all kinds of failure together. *)
RequestsEnd == \A t \in Thread : req[t].at # "idle" ~> req[t].at = "idle"

(* Toss is not skipped for ever: whatever the internet answers meanwhile, the
   skip of prices ends ("a function that has just failed skips Toss for thirty
   seconds", router.py:55). *)
PricesComeBack == left["prices"] > 0 ~> left["prices"] = 0

=============================================================================
