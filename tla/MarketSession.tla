---------------------------- MODULE MarketSession ---------------------------
(***************************************************************************)
(* Is today a trading day of the Korean exchange?  session.phase() answers *)
(* it for the domestic engine, for the swing engine and for the web pages, *)
(* through one cache that belongs to the whole process (_HolidayCache in   *)
(* session.py): the first question of a day is put to the exchange's       *)
(* calendar, if the one who asks has a client, and the answer serves       *)
(* everybody until the date changes.  The threads share it without a lock. *)
(***************************************************************************)
EXTENDS Integers, FiniteSets

CONSTANTS
    LastDay,     \* bound: the days modelled
    Holiday,     \* the weekdays on which the exchange rests
    MaxFail,     \* bound: the calendar calls that fail
    MaxBackTest, \* bound: the back-tests that ask about an earlier day
    MaxPass      \* bound: the engine's questions of a day

ASSUME SessionAssumption ==
    /\ LastDay \in Nat \ {0} /\ Holiday \subseteq 1 .. LastDay
    /\ MaxFail \in Nat /\ MaxBackTest \in Nat /\ MaxPass \in Nat

Client == {"engine", "swing"}
Asker == Client \cup {"web"}
Day == 1 .. LastDay
NoDay == 0   \* nothing cached, or a day of the past

VARIABLES
    day,      \* today
    cache,    \* session._cache: _date, _is_holiday, _known
    call,     \* the calendar question a thread is waiting on
    verdict,  \* what check() last told a thread, and for which day
    pc,       \* the domestic engine: off, or where its loop is
    session,  \* the engine's _session_date
    fails, backTests,
    rolled,   \* history: the engine came into this day by its own rollover
    drops,    \* history: how often the cached date was dropped today
    calls,    \* history: the calendar was asked so often today
    passes,   \* history: the engine's questions today
    wrong     \* history: of these, how many called a trading day a holiday

sessionVars == <<day, cache, call, verdict, pc, session, fails, backTests,
                 rolled, drops, calls, passes, wrong>>
history == <<rolled, drops, calls, passes, wrong>>

Cached == [date : Day \cup {NoDay}, holiday : BOOLEAN, known : BOOLEAN]
Fresh == [date |-> NoDay, holiday |-> FALSE, known |-> FALSE]

(* attached: the object the thread began with is still the process's cache. *)
Question == [date : Day, attached : BOOLEAN]
NoCall == [date |-> NoDay, attached |-> FALSE]

SessionTypeOK ==
    /\ day \in Day /\ session \in Day /\ session <= day
    /\ cache \in Cached
    /\ call \in [Asker -> Question \cup {NoCall}]
    /\ verdict \in [Asker -> [day : Day \cup {NoDay}, holiday : BOOLEAN, known : BOOLEAN]]
    /\ pc \in {"off", "loop", "phase"}
    /\ fails \in 0 .. MaxFail /\ backTests \in 0 .. MaxBackTest
    /\ rolled \in BOOLEAN
    /\ calls \in Nat /\ drops \in Nat /\ passes \in 0 .. MaxPass /\ wrong \in 0 .. passes

SessionInit ==
    /\ day = 1 /\ session = 1 /\ cache = Fresh
    /\ call = [t \in Asker |-> NoCall]
    /\ verdict = [t \in Asker |-> [day |-> NoDay, holiday |-> FALSE, known |-> FALSE]]
    /\ pc = "off" /\ fails = 0 /\ backTests = 0
    /\ rolled = FALSE /\ drops = 0 /\ calls = 0 /\ passes = 0 /\ wrong = 0

------------------------------------------------------------------------------
\* _HolidayCache.check, for today

\* The thread has its answer; the engine goes on with its pass.
Told(t, date, holiday, known) ==
    /\ verdict' = [verdict EXCEPT ![t] = [day |-> date, holiday |-> holiday, known |-> known]]
    /\ IF t = "engine"
       THEN /\ pc' = "loop" /\ passes' = passes + 1
            /\ wrong' = IF holiday /\ date = day /\ day \notin Holiday
                        THEN wrong + 1 ELSE wrong
       ELSE UNCHANGED <<pc, passes, wrong>>

May(t) ==
    /\ call[t] = NoCall
    /\ t = "engine" => pc = "phase" /\ passes < MaxPass

HitKnown == cache.date = day /\ cache.known

\* The date is the cached one: whatever is stored with it is the answer.
Hit == cache.date = day

FromCache(t) ==
    /\ May(t) /\ Hit
    /\ Told(t, day, cache.holiday, cache.known)
    /\ UNCHANGED <<day, cache, call, session, fails, backTests, rolled, drops, calls>>

\* Another date: it is stored first, then the calendar is asked.  Without a
\* client there is nobody to ask.
Ask(t) ==
    /\ May(t) /\ ~ Hit
    /\ cache' = [cache EXCEPT !.date = day]
    /\ call' = [call EXCEPT ![t] = [date |-> day, attached |-> TRUE]]
    /\ calls' = IF t \in Client THEN calls + 1 ELSE calls
    /\ UNCHANGED <<day, verdict, pc, session, fails, backTests, rolled, drops, passes, wrong>>

\* The answer is stored with the cache's date, in the object check() was called on.
Store(t, holiday, known) ==
    /\ cache' = IF call[t].attached
                THEN [cache EXCEPT !.holiday = holiday, !.known = known] ELSE cache
    /\ call' = [call EXCEPT ![t] = NoCall]

Reply(t) ==
    /\ call[t] # NoCall /\ t \in Client
    /\ Store(t, call[t].date \in Holiday, TRUE)
    /\ Told(t, call[t].date, call[t].date \in Holiday, TRUE)
    /\ UNCHANGED <<day, session, fails, backTests, rolled, drops, calls>>

\* A call that fails, like nobody to ask, means a trading day, for all day.
Fail(t) ==
    /\ call[t] # NoCall /\ t \in Client
    /\ fails < MaxFail /\ fails' = fails + 1
    /\ Store(t, FALSE, FALSE) /\ Told(t, call[t].date, FALSE, FALSE)
    /\ UNCHANGED <<day, session, backTests, rolled, drops, calls>>

NobodyAsked ==
    /\ call["web"] # NoCall
    /\ Store("web", FALSE, FALSE) /\ Told("web", call["web"].date, FALSE, FALSE)
    /\ UNCHANGED <<day, session, fails, backTests, rolled, drops, calls>>

\* technique_backtest asks for the phase of an earlier day, without a client.
BackTest ==
    /\ backTests < MaxBackTest /\ backTests' = backTests + 1
    /\ cache' = Fresh /\ drops' = drops + 1
    /\ UNCHANGED <<day, call, verdict, pc, session, fails, rolled, calls, passes,
                   wrong>>

------------------------------------------------------------------------------
\* The domestic engine

Start ==
    /\ pc = "off"
    /\ pc' = "loop" /\ session' = day /\ rolled' = FALSE
    /\ UNCHANGED <<day, cache, call, verdict, fails, backTests, drops, calls, passes, wrong>>

Stop ==
    /\ pc = "loop"
    /\ pc' = "off" /\ rolled' = FALSE
    /\ UNCHANGED <<day, cache, call, verdict, session, fails, backTests, drops, calls, passes, wrong>>

RolloverKept ==
    /\ pc = "loop"
    /\ pc' = "phase" /\ session' = day
    /\ rolled' = (rolled \/ session # day)
    /\ UNCHANGED <<day, cache, call, verdict, fails, backTests, drops, calls, passes, wrong>>

\* _rollover_if_new_day: a new date discards the cache object, and what the
\* others still wait for will be stored in the discarded one.
Rollover ==
    /\ pc = "loop"
    /\ pc' = "phase"
    /\ IF session = day
       THEN UNCHANGED <<session, cache, call, rolled, drops>>
       ELSE /\ session' = day /\ rolled' = TRUE /\ drops' = drops + 1
            /\ cache' = Fresh
            /\ call' = [t \in Asker |-> IF call[t] = NoCall THEN NoCall
                                         ELSE [call[t] EXCEPT !.attached = FALSE]]
    /\ UNCHANGED <<day, verdict, fails, backTests, calls, passes, wrong>>

\* external: midnight.
Midnight ==
    /\ day < LastDay /\ day' = day + 1
    /\ rolled' = FALSE /\ drops' = 0 /\ calls' = 0 /\ passes' = 0 /\ wrong' = 0
    /\ UNCHANGED <<cache, call, verdict, pc, session, fails, backTests>>

SessionNext ==
    \/ \E t \in Asker : FromCache(t) \/ Ask(t)
    \/ \E t \in Client : Reply(t) \/ Fail(t)
    \/ NobodyAsked \/ BackTest
    \/ Start \/ Stop \/ Rollover \/ Midnight

SessionSpec == SessionInit /\ [][SessionNext]_sessionVars

------------------------------------------------------------------------------
\* Properties

(* The domestic engine may take yesterday's holiday for today's once, when
   midnight falls into its pass, but not again: its rollover discards the cache
   ("yesterday's verdict must not be used today", session.py:109), whatever the
   swing engine is doing with it. *)
RestsWronglyOnce == rolled => wrong <= 1

(* The exchange's calendar is asked once a day, and once more each time the
   cached date was dropped, even when the answer never came ("it is called once
   a day; asking every 15 seconds is knocking on other people's servers",
   session.py:40-41). *)
CalendarOncePerDay == calls <= 1 + drops
=============================================================================
