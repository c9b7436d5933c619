----------------------------- MODULE NewsGuard -----------------------------
(***************************************************************************)
(* The filter that reads a symbol's headlines before it is bought          *)
(* (news_guard.py).  The engines of all markets ask one guard from their   *)
(* own threads, each time handing it their own settings; the domestic one  *)
(* has a thread judge its candidates beforehand (warm).  A verdict is kept *)
(* in a cache and extended while the headlines stay the same; a language   *)
(* model is asked for at most so many verdicts a day, which is counted in  *)
(* memory and in the database; whatever fails lets the purchase pass.      *)
(* "caution" buys as "none" does, and is counted among it here.            *)
(***************************************************************************)
EXTENDS Integers, FiniteSets, Functions

CONSTANTS
    Engine,    \* the engines' threads
    Warmer,    \* the threads of warm
    Symbol,
    Titles,    \* what the headlines of a symbol may be
    Risky,     \* those of them with one of RISK_WORDS
    Ai,        \* whose settings have ai_filter and a key
    Avoid,     \* whose settings have news.mode = "avoid"
    Dir,       \* the state_dir of everybody's settings
    Cap,       \* ai_max_calls_per_day, 0 for no limit
    TTL, DayLength,  \* CACHE_TTL and the 86400 seconds, in steps of the clock
    LastTime,  \* bound: how long the clock runs
    MaxNews,   \* bound: how often headlines change
    MaxFail,   \* bound: the writes to the database that fail
    MaxCrash   \* bound: the restarts of the process

Caller == Engine \cup Warmer
Page == "page"      \* the web page that shows the guard
Owner == Engine \cup {Page}
Quiet == "quiet"    \* no headlines
Nobody == "nobody"

ASSUME GuardAssumption ==
    /\ Quiet \in Titles /\ Risky \subseteq Titles \ {Quiet}
    /\ Ai \subseteq Owner /\ Avoid \subseteq Owner /\ DOMAIN Dir = Owner
    /\ {Page, Nobody} \cap Caller = {}
    /\ {Cap, MaxNews, MaxFail, MaxCrash} \subseteq Nat
    /\ {TTL, DayLength, LastTime} \subseteq Nat \ {0} /\ TTL <= DayLength

VARIABLES
    time,    \* time.time()
    titles,  \* the headlines of each symbol
    cfg,     \* whose settings _GUARD.cfg is, Nobody before the first get_guard
    cache,   \* _cache: the verdict on each symbol
    calls,   \* _calls: how often the model was asked at which time
    table,   \* news_guard_calls in the database of each directory
    call,    \* what each caller is doing
    news, fails, crashes,
    shown,   \* history: when each symbol last had which headlines, or Never
    counted, \* history: of the last day, the questions that were written down
    bad      \* history: the headlines the model called bad

guard == <<cfg, cache, calls, table, fails>>
world == <<time, titles, news, crashes, shown>>
guardVars == <<guard, world, call, counted, bad>>

Times == 0 .. LastTime
Never == -1
Unknown == [level |-> "unknown"]
Questions == [Times -> Nat]
NoQuestions == [t \in Times |-> 0]
Verdict == [level : {"block", "none"}, source : {"ai", "keyword", "none"}, digest : Titles]
NothingCached == [s \in Symbol |-> [verdict |-> Unknown, at |-> 0]]
Idle == [at |-> "idle"]

GuardTypeOK ==
    /\ time \in Times /\ titles \in [Symbol -> Titles]
    /\ cfg \in Owner \cup {Nobody}
    /\ cache \in [Symbol -> [verdict : Verdict \cup {Unknown}, at : Times]]
    /\ calls \in Questions /\ counted \in Questions
    /\ table \in [{Dir[o] : o \in Owner} -> Questions]
    /\ \A c \in Caller : call[c].at \in {"idle", "gate", "fetch", "judge", "ask", "wait", "answer"}

GuardInit ==
    /\ time = 0 /\ titles \in [Symbol -> Titles]
    /\ cfg = Nobody /\ cache = NothingCached
    /\ calls = NoQuestions /\ table = [d \in {Dir[o] : o \in Owner} |-> NoQuestions]
    /\ call = [c \in Caller |-> Idle]
    /\ news = 0 /\ fails = 0 /\ crashes = 0
    /\ shown = [s \in Symbol |-> [t \in Titles |-> IF t = titles[s] THEN 0 ELSE Never]]
    /\ counted = NoQuestions /\ bad = {}

------------------------------------------------------------------------------
\* The guard's parts

Since(first, qs) == [t \in Times |-> IF t >= first THEN qs[t] ELSE 0]
Recent(qs) == Since(time - DayLength, qs)
Count(qs) == SumFunction(qs)
Asks(qs) == [qs EXCEPT ![time] = @ + 1]

\* As it was while the list lived in memory only
GetGuardAnew(o) ==
    /\ cfg' = o
    /\ calls' = IF cfg = Nobody THEN NoQuestions ELSE calls
    /\ UNCHANGED <<cache, table, fails>>

(* get_guard: one guard for the process, with the settings of whoever came *)
(* last; the first one loads the day's calls from its own database.        *)
GetGuard(o) ==
    /\ cfg' = o
    /\ calls' = IF cfg = Nobody THEN Recent(table[Dir[o]]) ELSE calls
    /\ UNCHANGED <<cache, table, fails>>

AiEnabled == cfg \in Ai
Active == AiEnabled \/ cfg \in Avoid
Fresh(s) == cache[s].verdict # Unknown /\ time - cache[s].at < TTL
OverCap == Cap # 0 /\ Count(Recent(calls)) >= Cap

\* The call of c goes on to the next place, or to its answer.
Goes(c, at) == call' = [call EXCEPT ![c].at = at]
Concludes(c, v, now) ==
    call' = [call EXCEPT ![c] = [at |-> "answer", sym |-> call[c].sym, now |-> now, verdict |-> v]]

(* The verdict takes its place in the cache; a caller that holds the one   *)
(* that was there holds an object nobody else will see.                    *)
Store(c, level, source) ==
    LET s == call[c].sym
        v == [level |-> level, source |-> source, digest |-> call[c].titles]
        Displaced(d) == d # c /\ call[d].at = "fetch" /\ call[d].sym = s
    IN /\ cache' = [cache EXCEPT ![s] = [verdict |-> v, at |-> call[c].now]]
       /\ call' = [d \in Caller |->
             IF d = c THEN [at |-> "answer", sym |-> s, now |-> call[c].now, verdict |-> v]
             ELSE IF Displaced(d) THEN [call[d] EXCEPT !.linked = FALSE]
             ELSE call[d]]

(* Without the model's word keywords count, if the settings say so. *)
ByKeyword(c) ==
    Store(c, IF call[c].titles \in Risky /\ cfg \in Avoid THEN "block" ELSE "none", "keyword")

------------------------------------------------------------------------------
\* gate and evaluate

(* An engine comes with its settings, a thread of warm with its list only. *)
Begin(c, s) ==
    /\ call[c] = Idle
    /\ IF c \in Engine THEN GetGuard(c) ELSE cfg # Nobody /\ UNCHANGED guard
    /\ call' = [call EXCEPT ![c] = [at |-> "gate", sym |-> s]]
    /\ UNCHANGED <<world, counted, bad>>

LookInCache(c) ==
    /\ call[c].at = "gate"
    /\ LET old == cache[call[c].sym].verdict IN
       IF ~Active THEN Concludes(c, Unknown, time)
       ELSE IF Fresh(call[c].sym) THEN Concludes(c, old, time)
       ELSE call' = [call EXCEPT ![c] = [at |-> "fetch", sym |-> call[c].sym, now |-> time,
                                         old |-> old, linked |-> old # Unknown]]
    /\ UNCHANGED <<guard, world, counted, bad>>

\* As if old verdicts were renewed unseen
ExtendsAnyway(c, digest) == call[c].old # Unknown

(* No new headlines since the verdict that was found ... *)
Extends(c, digest) == call[c].old # Unknown /\ call[c].old.digest = digest

(* ... which counts from now on, in the cache too if it is still there. *)
Extend(c) ==
    LET s == call[c].sym IN
    /\ cache' = IF call[c].linked THEN [cache EXCEPT ![s].at = call[c].now] ELSE cache
    /\ Concludes(c, call[c].old, call[c].now)

Fetch(c) ==
    /\ call[c].at = "fetch"
    /\ LET t == titles[call[c].sym] IN
       \/ Concludes(c, Unknown, call[c].now) /\ UNCHANGED cache
       \/ Extends(c, t) /\ Extend(c)
       \/ /\ ~Extends(c, t)
          /\ call' = [call EXCEPT ![c] = [at |-> "judge", sym |-> call[c].sym,
                                          now |-> call[c].now, titles |-> t]]
          /\ UNCHANGED cache
    /\ UNCHANGED <<cfg, calls, table, fails, world, counted, bad>>

(* _judge, and _ask up to its question: the limit is looked at first ... *)
Judge(c) ==
    /\ call[c].at = "judge"
    /\ \/ /\ call[c].titles = Quiet
          /\ Store(c, "none", "none") /\ UNCHANGED calls
       \/ /\ call[c].titles # Quiet /\ ~AiEnabled
          /\ ByKeyword(c) /\ UNCHANGED calls
       \/ /\ call[c].titles # Quiet /\ AiEnabled
          /\ calls' = Recent(calls)
          /\ IF OverCap THEN ByKeyword(c) ELSE Goes(c, "ask") /\ UNCHANGED cache
    /\ UNCHANGED <<cfg, table, fails, world, counted, bad>>

(* ... and the question is counted, in the database of whoever's settings  *)
(* the guard has by now, unless that fails.                                *)
Ask(c) ==
    /\ call[c].at = "ask"
    /\ \E written \in BOOLEAN :
          /\ written \/ fails < MaxFail
          /\ fails' = IF written THEN fails ELSE fails + 1
          /\ table' = IF written THEN [table EXCEPT ![Dir[cfg]] = Asks(@)] ELSE table
          /\ counted' = IF written THEN Asks(counted) ELSE counted
    /\ calls' = Asks(calls)
    /\ Goes(c, "wait")
    /\ UNCHANGED <<cfg, cache, world, bad>>

\* As if a failure were a warning
ReplyClosed(c) ==
    /\ call[c].at = "wait"
    /\ \/ /\ Store(c, "block", "ai")
          /\ bad' = bad \cup {<<call[c].sym, call[c].titles>>}
       \/ Store(c, "none", "ai") /\ UNCHANGED bad
       \/ Store(c, "block", "none") /\ UNCHANGED bad
    /\ UNCHANGED <<cfg, calls, table, fails, world, counted>>

(* The model's verdict, or a failure, or an answer that is no verdict. *)
Reply(c) ==
    /\ call[c].at = "wait"
    /\ \/ /\ Store(c, "block", "ai")
          /\ bad' = bad \cup {<<call[c].sym, call[c].titles>>}
       \/ Store(c, "none", "ai") /\ UNCHANGED bad
       \/ ByKeyword(c) /\ UNCHANGED bad
    /\ UNCHANGED <<cfg, calls, table, fails, world, counted>>

Refused(c) == call[c].verdict.level = "block"

\* The engine buys, or does not.
Answer(c) ==
    /\ call[c].at = "answer"
    /\ call' = [call EXCEPT ![c] = Idle]
    /\ UNCHANGED <<guard, world, counted, bad>>

------------------------------------------------------------------------------
\* Around the guard

\* status, of the settings as they are now.
ShowGuard ==
    /\ GetGuard(Page)
    /\ UNCHANGED <<world, call, counted, bad>>

Tick ==
    /\ time < LastTime /\ time' = time + 1
    /\ shown' = [s \in Symbol |-> [shown[s] EXCEPT ![titles[s]] = time + 1]]
    /\ counted' = Since(time + 1 - DayLength, counted)
    /\ UNCHANGED <<guard, titles, news, crashes, call, bad>>

News(s, t) ==
    /\ news < MaxNews /\ t # titles[s]
    /\ titles' = [titles EXCEPT ![s] = t]
    /\ shown' = [shown EXCEPT ![s][t] = time]
    /\ news' = news + 1
    /\ UNCHANGED <<guard, time, crashes, call, counted, bad>>

\* The process dies with its threads and its cache, and is started again.
Crash ==
    /\ crashes < MaxCrash /\ cfg # Nobody
    /\ crashes' = crashes + 1
    /\ cfg' = Nobody /\ calls' = NoQuestions /\ cache' = NothingCached
    /\ call' = [c \in Caller |-> Idle]
    /\ UNCHANGED <<table, fails, time, titles, news, shown, counted, bad>>

GuardNext ==
    \/ \E c \in Caller : \/ \E s \in Symbol : Begin(c, s)
                         \/ LookInCache(c) \/ Fetch(c) \/ Judge(c) \/ Ask(c) \/ Reply(c) \/ Answer(c)
    \/ \E s \in Symbol, t \in Titles : News(s, t)
    \/ ShowGuard \/ Tick \/ Crash

GuardSpec == GuardInit /\ [][GuardNext]_guardVars

------------------------------------------------------------------------------
\* Properties

(* The limit is looked at (calls_today) in one hold of the lock and the    *)
(* question counted in the next: every other thread may slip in between,   *)
(* once.  Restarts add nothing to that, as far as the database knows of    *)
(* the questions.                                                          *)
CapPerThread == Cap # 0 => Count(counted) <= Cap + Cardinality(Caller) - 1

(* An engine never buys or refrains on news older than the cache's time to *)
(* live: the headlines behind an answer were the symbol's headlines at     *)
(* some moment since then, though threads extend verdicts that others have *)
(* replaced, and store theirs late.                                        *)
AnswersAreRecent ==
    \A c \in Caller : call[c].at = "answer" /\ call[c].verdict # Unknown =>
        shown[call[c].sym][call[c].verdict.digest] > call[c].now - TTL

(* The filter fails open: whatever thread's verdict it was, a symbol is    *)
(* refused only for headlines the model called bad or, where somebody      *)
(* wants keywords to count, for a risk word.                               *)
OnlyBadNewsRefuses ==
    \A c \in Caller : call[c].at = "answer" /\ Refused(c) =>
        LET v == call[c].verdict IN
        \/ v.source = "ai" /\ <<call[c].sym, v.digest>> \in bad
        \/ v.source = "keyword" /\ v.digest \in Risky /\ Avoid # {}
============================================================================
