------------------------------- MODULE Control -------------------------------
(***************************************************************************)
(* The web server's control of the domestic engine.  Its handlers run one  *)
(* after the other on the event loop; EngineRunner (runner.py) runs the    *)
(* engine in a thread of its own, a new Engine for every day of a          *)
(* simulation, one for good in the other modes.  A stop is three writes    *)
(* the engine's thread reads as it goes.  The settings file is written by  *)
(* the settings page and by the monthly review while engines run with what *)
(* they read at their start.  EventBus carries the log to a web page       *)
(* through a bounded queue.  Live trading begins when the account passes   *)
(* the page's check and the engine's.  The crypto engine stands for the    *)
(* three other markets' engines, which only matter here for the settings.  *)
(***************************************************************************)
EXTENDS Preflight, Sequences

CONSTANTS
    Drafts,    \* the contents config.yaml may be given, by name
    Accounts,  \* what the account and the state file may look like
    Days,      \* the simulation's days
    MaxQueue,  \* EventBus.maxsize (500 in the code)
    MaxErrors  \* bound: the engine threads that end with an exception

ASSUME ControlAssumption ==
    Days \in Nat \ {0} /\ MaxQueue \in Nat \ {0, 1, 2} /\ MaxErrors \in Nat

Version == DOMAIN Drafts
Cfgs == [v \in Version |-> Styled(Drafts[v])]          \* what cfg_now() makes of each
Loadable == {v \in Version : Loads(Drafts[v])}

Day == 1 .. Days
NoDay == 0
Market == {"domestic", "crypto"}
Section == {"domestic", "crypto", "sizing"}   \* sizing: read by every market
Sections(m) == {m, "sizing"}

VARIABLES
    thread,   \* the runner's thread: where it is, on which day, in which mode
    stopReq,  \* runner._stop_requested
    engine,   \* runner.engine: whether there is one, and its two flags
    web,      \* the stop handler: its next write, and what was asked
    asked,    \* history: the day of the engine whose loop was told to stop
    acct,     \* the account, and the state file
    file,     \* config.yaml: which of its contents
    crypto,   \* the crypto engine runs
    differs,  \* history: the file's settings are no longer those the engine runs with
    reviewed, \* history: the review wrote settings under the running engine
    pub,      \* the publishers: of the log, which a lock makes one, and of an exception
    queue,    \* a page's queue
    gap,      \* history: an event was lost, and the page has not been told since
    errors    \* history: exceptions published

control == <<thread, stopReq, engine, web, asked, acct>>
settings == <<file, crypto, differs, reviewed>>
bus == <<pub, queue, gap, errors>>
vars == <<thread, stopReq, engine, web, asked, acct, file, crypto, differs, reviewed,
          pub, queue, gap, errors>>

At == {"off", "days", "build", "ready", "loop", "closing"}
Publisher == {"log", "error"}

TypeOK ==
    /\ thread \in [at : At, day : 0 .. Days, cfg : Version]
    /\ stopReq \in BOOLEAN
    /\ engine \in [made : BOOLEAN, stop : BOOLEAN, close : BOOLEAN]
    /\ web \in [at : {"idle", "stop", "close"}, close : BOOLEAN]
    /\ asked \in 0 .. Days
    /\ file \in Version
    /\ crypto \in BOOLEAN
    /\ differs \in [Market -> BOOLEAN] /\ reviewed \in BOOLEAN
    /\ pub \in [Publisher -> {"idle", "note", "event"}]   \* what it appends next
    /\ queue \in Seq({"note", "event"}) /\ Len(queue) <= MaxQueue
    /\ gap \in BOOLEAN /\ errors \in 0 .. MaxErrors

Flags == [made |-> TRUE, stop |-> FALSE, close |-> FALSE]

Init ==
    /\ file \in Loadable
    /\ acct \in Accounts
    /\ thread = [at |-> "off", day |-> NoDay, cfg |-> file]
    /\ stopReq = FALSE /\ engine = [Flags EXCEPT !.made = FALSE]
    /\ web = [at |-> "idle", close |-> FALSE] /\ asked = NoDay
    /\ crypto = FALSE /\ differs = [m \in Market |-> FALSE] /\ reviewed = FALSE
    /\ pub = [p \in Publisher |-> "idle"] /\ queue = <<>> /\ gap = FALSE /\ errors = 0

------------------------------------------------------------------------------
\* The event loop's handlers

Handler == web.at = "idle"
Running(m) == IF m = "domestic" THEN thread.at # "off" ELSE crypto

\* engine_start, and runner.start: not while the last thread is alive, and live only
\* when the account passes the page's check.
EngineStart ==
    /\ Handler /\ ~ Running("domestic")
    /\ file \in Loadable
    /\ IsLive(Cfgs[file]) => PageClears(Cfgs[file], acct)
    /\ thread' = [at |-> "days", day |-> NoDay, cfg |-> file]
    /\ stopReq' = FALSE /\ asked' = NoDay
    /\ differs' = [differs EXCEPT !["domestic"] = FALSE] /\ reviewed' = FALSE
    /\ UNCHANGED <<engine, web, acct, file, crypto, bus>>

\* engine_stop, and runner.stop: the request, then the engine there is, if any ...
EngineStop(close) ==
    /\ Handler
    /\ stopReq' = TRUE
    /\ web' = IF engine.made THEN [at |-> "stop", close |-> close] ELSE web
    /\ UNCHANGED <<thread, engine, asked, acct, settings, bus>>

\* ... engine.request_stop: the loop's flag ...
RequestStop ==
    /\ web.at = "stop" /\ web' = [web EXCEPT !.at = "close"]
    /\ engine' = [engine EXCEPT !.stop = TRUE]
    /\ asked' = IF thread.at = "loop" THEN thread.day ELSE asked
    /\ UNCHANGED <<thread, stopReq, acct, settings, bus>>

\* ... and then the one read after the loop.
RequestClose ==
    /\ web.at = "close" /\ web' = [web EXCEPT !.at = "idle"]
    /\ engine' = [engine EXCEPT !.close = web.close]
    /\ UNCHANGED <<thread, stopReq, asked, acct, settings, bus>>

CryptoStart ==
    /\ Handler /\ ~ crypto /\ crypto' = TRUE
    /\ differs' = [differs EXCEPT !["crypto"] = FALSE]
    /\ UNCHANGED <<control, file, reviewed, bus>>

\* Its thread ends some time after its own stop request.
CryptoEnds ==
    /\ crypto /\ crypto' = FALSE
    /\ UNCHANGED <<control, file, differs, reviewed, bus>>

LockedDomestic(s) == \E m \in Market : Running(m) /\ (s = m \/ (s = "sizing" /\ m = "domestic"))

\* _trading_locks: a section is locked while an engine that reads it runs.
Locked(s) == \E m \in Market : Running(m) /\ s \in Sections(m)

Written(S, new) ==
    /\ file' = new
    /\ differs' = [m \in Market |-> differs[m] \/ (Running(m) /\ S \cap Sections(m) # {})]

\* post_config: all of the body, if what comes of it loads, or nothing; the file is
\* replaced at once.
PostConfig(S, new) ==
    /\ Handler /\ \A s \in S : ~ Locked(s)
    /\ \A s \in Section \ S : Drafts[new][s] = Drafts[file][s]
    /\ new \in Loadable
    /\ Written(S, new)
    /\ UNCHANGED <<control, crypto, reviewed, bus>>

\* review_apply and review_revert write some domestic settings, whatever runs.
Review(new) ==
    /\ Handler
    /\ Drafts[new].domestic.mode = Drafts[file].domestic.mode
    /\ \A s \in Section \ {"domestic"} : Drafts[new][s] = Drafts[file][s]
    /\ new \in Loadable
    /\ Written({"domestic"}, new)
    /\ reviewed' = (reviewed \/ Running("domestic"))
    /\ UNCHANGED <<control, crypto, bus>>

\* fix_preflight, by the engine there is: what it can cancel of its own orphans.
FixPreflight ==
    /\ Handler /\ engine.made /\ IsLive(Cfgs[thread.cfg])
    /\ \E done \in SUBSET Orphans(acct) : acct' = [acct EXCEPT !.orders = @ \ done]
    /\ UNCHANGED <<thread, stopReq, engine, web, asked, settings, bus>>

------------------------------------------------------------------------------
\* The runner's thread

LastDay == IF Simulated(Cfgs[thread.cfg]) THEN Days ELSE 1

NextDayAnyway ==
    /\ thread.at = "days"
    /\ thread' = IF thread.day = LastDay
                 THEN [thread EXCEPT !.at = "off"]
                 ELSE [thread EXCEPT !.at = "build", !.day = @ + 1]
    /\ UNCHANGED <<stopReq, engine, web, asked, acct, settings, bus>>

\* `for day in days: if self._stop_requested: break'
NextDay ==
    /\ thread.at = "days"
    /\ thread' = IF stopReq \/ thread.day = LastDay
                 THEN [thread EXCEPT !.at = "off"]
                 ELSE [thread EXCEPT !.at = "build", !.day = @ + 1]
    /\ UNCHANGED <<stopReq, engine, web, asked, acct, settings, bus>>

\* Engine(): a new engine, with its flags down; up to here a stop goes to the old one.
Build ==
    /\ thread.at = "build" /\ thread' = [thread EXCEPT !.at = "ready"]
    /\ engine' = Flags
    /\ UNCHANGED <<stopReq, web, asked, acct, settings, bus>>

\* run(), after _preflight, which may make it throw, and resume(): the flags are put
\* down once more.
Run ==
    /\ thread.at = "ready"
    /\ IsLive(Cfgs[thread.cfg]) => EngineClears(Cfgs[thread.cfg], acct)
    /\ thread' = [thread EXCEPT !.at = "loop"]
    /\ engine' = Flags
    /\ UNCHANGED <<stopReq, web, asked, acct, settings, bus>>

Returns(at) == thread' = [thread EXCEPT !.at = at]

\* The loop is told to stop; the other flag is read when it has.
LoopStops ==
    /\ thread.at = "loop" /\ engine.stop
    /\ Returns(IF engine.close THEN "closing" ELSE "days")
    /\ UNCHANGED <<stopReq, engine, web, asked, acct, settings, bus>>

\* It ends of itself: after a simulation's day, or when the close cannot be made.
LoopBreaks ==
    /\ thread.at = "loop"
    /\ Returns(IF engine.close THEN "closing" ELSE "days")
    /\ UNCHANGED <<stopReq, engine, web, asked, acct, settings, bus>>

\* Six attempts to sell what is held, with whatever success.
CloseAll ==
    /\ thread.at = "closing" /\ Returns("days")
    /\ UNCHANGED <<stopReq, engine, web, asked, acct, settings, bus>>

\* What a live engine buys, sells and protects, and what it leaves behind.
Trades ==
    /\ thread.at \in {"loop", "closing"} /\ IsLive(Cfgs[thread.cfg])
    /\ acct' \in Accounts
    /\ UNCHANGED <<thread, stopReq, engine, web, asked, settings, bus>>

\* The exchange and the account's owner, who leave the state file alone.
Outside ==
    /\ acct' \in {a \in Accounts : a.book = acct.book}
    /\ UNCHANGED <<thread, stopReq, engine, web, asked, settings, bus>>

------------------------------------------------------------------------------
\* EventBus

Full == Len(queue) >= MaxQueue

\* publish looks whether a loss is to be told first ...
CheckedFirst == IF Full /\ queue[1] # "note" THEN "note" ELSE "event"
Checked == IF Full /\ queue[Len(queue)] # "note" THEN "note" ELSE "event"

\* ... and appends; a full deque(maxlen) drops its oldest entry.
Appended(e) ==
    /\ queue' = Append(IF Full THEN Tail(queue) ELSE queue, e)
    /\ gap' = (gap \/ (Full /\ Head(queue) = "event"))

\* The thread throws, and publishes the exception before it ends.
Throws ==
    /\ thread.at \in At \ {"off", "days"} /\ pub["error"] = "idle"
    /\ errors < MaxErrors /\ errors' = errors + 1
    /\ Returns("off")
    /\ pub' = [pub EXCEPT !["error"] = Checked]
    /\ UNCHANGED <<stopReq, engine, web, asked, acct, settings, queue, gap>>

Publish ==
    /\ pub["log"] = "idle" /\ pub' = [pub EXCEPT !["log"] = Checked]
    /\ UNCHANGED <<control, settings, queue, gap, errors>>

Notice(p) ==
    /\ pub[p] = "note" /\ pub' = [pub EXCEPT ![p] = "event"]
    /\ Appended("note")
    /\ UNCHANGED <<control, settings, errors>>

Event(p) ==
    /\ pub[p] = "event" /\ pub' = [pub EXCEPT ![p] = "idle"]
    /\ Appended("event")
    /\ UNCHANGED <<control, settings, errors>>

\* stream_events takes the oldest entry to the page.
Deliver ==
    /\ queue # <<>> /\ queue' = Tail(queue)
    /\ gap' = (gap /\ Head(queue) # "note")
    /\ UNCHANGED <<control, settings, pub, errors>>

------------------------------------------------------------------------------
Web ==
    \/ EngineStart
    \/ \E close \in BOOLEAN : EngineStop(close)
    \/ RequestStop \/ RequestClose \/ CryptoStart
    \/ \E new \in Version : Review(new)
    \/ \E S \in SUBSET Section \ {{}}, new \in Version : PostConfig(S, new)

Account == FixPreflight \/ Trades \/ Outside

Runner == NextDay \/ Build \/ Run \/ LoopStops \/ LoopBreaks \/ CloseAll \/ Throws

EventBus == Publish \/ Deliver \/ \E p \in Publisher : Notice(p) \/ Event(p)

Next == Web \/ Account \/ Runner \/ CryptoEnds \/ EventBus

Spec == Init /\ [][Next]_vars

(* The runner's thread goes on while it has something to do; nothing makes a
   loop end that is not told to. *)
FairSpec ==
    /\ Spec
    /\ WF_vars(NextDay) /\ WF_vars(LoopStops) /\ WF_vars(CloseAll)

------------------------------------------------------------------------------
\* Properties

(* A stop that reaches the loop of an engine ends the runner's thread on that very
   day: the flag stays up, and the simulation's further days are not begun
   (runner.py:131-132). *)
StopEnds == \A d \in Day : asked = d ~> thread.at = "off" /\ thread.day = d

(* While an engine runs, the settings in the file are the ones it runs with ("the
   settings of a market are refused while that market is trading",
   server.py:3495-3499), but for what the monthly review writes. *)
SettingsHoldStill == \A m \in Market :
    Running(m) /\ differs[m] => m = "domestic" /\ reviewed

(* What a page has not been sent is told to it: a notice is in its queue ("if it
   loses silently the screen and the truth part", runner.py:58-60).  Only an
   exception, which is published beside the log's lock, can append on the strength
   of an old look at the queue, and lose events or a notice silently. *)
LossesAreTold ==
    gap => errors > 0 \/ \E i \in DOMAIN queue : queue[i] = "note"
=============================================================================
