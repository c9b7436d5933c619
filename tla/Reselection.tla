---------------------------- MODULE Reselection ----------------------------
(***************************************************************************)
(* How the engines renew the lists of what they watch, and the back-tests  *)
(* that a new list sets off.  The overseas engine rates its themes when    *)
(* the market changes phase and draws up a ranking once a day, the coins'  *)
(* engine has a thread of its own look for yesterday's largest volumes,    *)
(* the swing engine selects once a day after the close, the domestic one   *)
(* screens again and again (Selection).  A new list may start a thread     *)
(* that replays it (auto_backtest.py, technique_backtest.py) and puts what *)
(* worked best into one file for all markets (technique_prefs.py), as a    *)
(* user may from the laboratory's page.                                    *)
(***************************************************************************)
EXTENDS UsCalendar, Sequences

CONSTANTS
    Ticker,
    Traded,    \* the phases of the overseas market that are switched on
    Fixed,     \* the watchlist of the settings
    Settings,  \* the choices of sources that are switched on
    Moments,   \* bound: the moments, in order, at which the engines look at the clock
    MaxLapse,   \* bound: the lookups that fail, the lists that grow old
    MaxRun     \* bound: the back-tests asked for, the preferences cleared

Source == {"themes", "auto", "volume", "swing"}

ASSUME ReselectionAssumption ==
    /\ Settings \subseteq SUBSET Source
    /\ Traded \subseteq {"premarket", "regular", "afterhours", "overnight"}
    /\ Fixed \subseteq Ticker
    /\ Moments \in Seq(Nat) /\ Moments # <<>>
    /\ MaxLapse \in Nat /\ MaxRun \in Nat

Market == {"domestic", "overseas", "crypto", "swing"}
\* Who may start a back-test: the engines, and the web's thread through rescreen.
Caller == Market \cup {"web"}
MarketOf(c) == IF c = "web" THEN "domestic" ELSE c
\* The back-test of each market, and that of the laboratory's page.
Worker == Market \cup {"page"}
Nobody == "nobody"

VARIABLES
    on,          \* the sources that are switched on
    now,         \* which of the moments it is
    pickDay,     \* the date of each list, 0 without one; _last_entry_date (swing)
    themePhase,  \* _theme_phase
    stale,       \* theme_refresh_minutes have passed since _theme_at
    resting,     \* sources before their retry_at
    scan,        \* _auto_running: the date the coins' thread looks for, 0 if none
    asked,       \* callers between already_ran_today and the lock, with their list
    running,     \* auto_backtest._running
    job,         \* what each back-test is doing
    holder,      \* who has technique_prefs._lock
    prefs,       \* technique_prefs.json
    lapses, runs

lists == <<pickDay, themePhase, stale, resting, scan>>
tests == <<asked, running, job, holder, prefs, runs>>
listsVars == <<on, now, lists, tests, lapses>>

\* The Korean dates of the moments, and the American phases.
Dates == [i \in DOMAIN Moments |-> Korean(Moments[i])]
Phases == [i \in DOMAIN Moments |-> UsPhase(Moments[i])]
day == Dates[now]
phase == Phases[now]
LastDay == Dates[Len(Moments)]
IsUsTradable == phase \in Traded

NoJob == [stage |-> "none"]
NoPrefs == [day |-> 0, sig |-> {}]

Result == [day : Nat, sig : SUBSET Ticker]
Job ==
    {NoJob} \cup [stage : {"replay"}, market : Market, list : SUBSET Ticker]
            \cup [stage : {"tested"}, market : Market, result : Result]
            \cup [stage : {"save"}, market : Market, data : [Market -> Result]]

\* The themes are of a phase that is traded; there is nothing else to be of.
ListsTypeOK ==
    /\ on \in Settings /\ now \in DOMAIN Moments
    /\ pickDay \in [Source -> Nat] /\ themePhase \in Traded \cup {"none"}
    /\ stale \in BOOLEAN /\ resting \subseteq Source /\ scan \in Nat
    /\ asked \in [Caller -> SUBSET Ticker] /\ running \subseteq Market
    /\ job \in [Worker -> Job] /\ holder \in Worker \cup {Nobody}
    /\ prefs \in [Market -> Result]
    /\ lapses \in 0..MaxLapse /\ runs \in 0..MaxRun

ListsInit ==
    /\ on \in Settings /\ now = 1
    /\ pickDay = [s \in Source |-> 0]
    /\ themePhase = "none" /\ stale = FALSE /\ resting = {} /\ scan = 0
    /\ asked = [c \in Caller |-> {}] /\ running = {}
    /\ job = [w \in Worker |-> NoJob] /\ holder = Nobody
    /\ prefs = [m \in Market |-> NoPrefs]
    /\ lapses = 0 /\ runs = 0

------------------------------------------------------------------------------
\* Setting off a back-test

(* already_ran_today: the file has the same list, of today. *)
AlreadyRanToday(m, list) == prefs[m].sig = list /\ prefs[m].day = day

(* maybe_trigger up to the lock.  An engine whose last question is not yet *)
(* settled does not get here.                                              *)
MaybeTrigger(c, list) ==
    /\ asked[c] = {}
    /\ IF AlreadyRanToday(MarketOf(c), list) \/ runs = MaxRun THEN UNCHANGED <<asked, runs>>
       ELSE asked' = [asked EXCEPT ![c] = list] /\ runs' = runs + 1
    /\ UNCHANGED <<running, job, holder, prefs>>

(* ... and under it: one back-test of a market at a time. *)
Claim(c) ==
    /\ asked[c] # {}
    /\ asked' = [asked EXCEPT ![c] = {}]
    /\ IF MarketOf(c) \in running THEN UNCHANGED <<running, job>>
       ELSE /\ running' = running \cup {MarketOf(c)}
            /\ job' = [job EXCEPT ![MarketOf(c)] =
                          [stage |-> "replay", market |-> MarketOf(c), list |-> asked[c]]]
    /\ UNCHANGED <<on, now, lists, holder, prefs, lapses, runs>>

\* The laboratory's page asks nobody.
RunFromPage ==
    /\ job["page"] = NoJob /\ runs < MaxRun
    /\ \E m \in Market, list \in SUBSET Ticker :
          job' = [job EXCEPT !["page"] = [stage |-> "replay", market |-> m, list |-> list]]
    /\ runs' = runs + 1
    /\ UNCHANGED <<on, now, lists, asked, running, holder, prefs, lapses>>

------------------------------------------------------------------------------
\* The back-test

(* run: symbols whose bars cannot be had, or are too few, are left out of  *)
(* the result, whose signature is made of what is left.                    *)
Replay(w) ==
    /\ job[w].stage = "replay"
    /\ \E got \in SUBSET job[w].list :
          job' = [job EXCEPT ![w] = [stage |-> "tested", market |-> job[w].market,
                                     result |-> [day |-> day, sig |-> got]]]
    /\ UNCHANGED <<on, now, lists, asked, running, holder, prefs, lapses, runs>>

\* Without a result to save: an exception, or the page did not want it saved.
GiveUp(w) ==
    /\ job[w].stage = "replay"
    /\ job' = [job EXCEPT ![w] = NoJob]
    /\ running' = running \ {w}
    /\ UNCHANGED <<on, now, lists, asked, holder, prefs, lapses, runs>>

\* save_from_backtest, as if only the write were under the lock
LoadUnlocked(w) ==
    /\ job[w].stage = "tested"
    /\ job' = [job EXCEPT ![w] = [stage |-> "save", market |-> @.market,
                                  data |-> [prefs EXCEPT ![job[w].market] = job[w].result]]]
    /\ UNCHANGED <<on, now, lists, asked, running, holder, prefs, lapses, runs>>

(* save_from_backtest reads the whole file under the lock ... *)
Load(w) ==
    /\ job[w].stage = "tested" /\ holder = Nobody
    /\ holder' = w
    /\ job' = [job EXCEPT ![w] = [stage |-> "save", market |-> @.market,
                                  data |-> [prefs EXCEPT ![job[w].market] = job[w].result]]]
    /\ UNCHANGED <<on, now, lists, asked, running, prefs, lapses, runs>>

(* ... and writes it back with its own market's part replaced. *)
Save(w) ==
    /\ job[w].stage = "save"
    /\ prefs' = job[w].data
    /\ holder' = Nobody
    /\ job' = [job EXCEPT ![w] = NoJob]
    /\ running' = running \ {w}
    /\ UNCHANGED <<on, now, lists, asked, lapses, runs>>

(* clear: one market, or all. *)
Clear ==
    /\ holder = Nobody
    /\ runs < MaxRun /\ runs' = runs + 1
    /\ \E gone \in {Market} \cup {{m} : m \in Market} :
          prefs' = [m \in Market |-> IF m \in gone THEN NoPrefs ELSE prefs[m]]
    /\ UNCHANGED <<on, now, lists, asked, running, job, holder, lapses>>

------------------------------------------------------------------------------
\* The lists

(* A new list takes the place of the last one; of the list itself only its *)
(* date is kept here, for what it holds goes to the back-test at once.      *)
Picked(source, date) == pickDay' = [pickDay EXCEPT ![source] = date]

\* whether the themes are due, whatever phase they were rated in
ThemesDueByAge == pickDay["themes"] = 0 \/ stale

\* Every phase has themes of its own, and they grow old.
ThemesDue == pickDay["themes"] = 0 \/ themePhase # phase \/ stale

(* _theme_select_if_due: no result, or one without any market data, leaves *)
(* the last list as it is and is asked for again only after a while.       *)
RateThemes ==
    /\ "themes" \in on /\ IsUsTradable /\ ThemesDue /\ "themes" \notin resting
    /\ \/ \E found \in SUBSET Ticker :
             /\ Picked("themes", day)
             /\ themePhase' = phase /\ stale' = FALSE
             /\ UNCHANGED <<resting, lapses>>
             /\ IF found \cup Fixed = {} THEN UNCHANGED tests
                ELSE MaybeTrigger("overseas", found \cup Fixed)
       \/ /\ lapses < MaxLapse /\ lapses' = lapses + 1
          /\ resting' = resting \cup {"themes"}
          /\ UNCHANGED <<pickDay, themePhase, stale, tests>>
    /\ UNCHANGED <<on, now, scan>>

(* _auto_select_if_new_day: once a day, but again and again while it fails. *)
AutoSelect ==
    /\ "auto" \in on /\ IsUsTradable
    /\ pickDay["auto"] # day
    /\ \/ Picked("auto", day) /\ UNCHANGED lapses
       \/ lapses < MaxLapse /\ lapses' = lapses + 1 /\ UNCHANGED <<pickDay>>
    /\ UNCHANGED <<on, now, themePhase, stale, resting, scan, tests>>

(* _maybe_refresh_top_volume: a thread for today's list. *)
BeginScan ==
    /\ "volume" \in on /\ pickDay["volume"] # day /\ scan = 0 /\ "volume" \notin resting
    /\ scan' = day
    /\ UNCHANGED <<on, now, pickDay, themePhase, stale, resting, tests, lapses>>

(* work: the list of the day the thread was started on, or a rest. *)
EndScan ==
    /\ scan # 0 /\ scan' = 0
    /\ \/ \E found \in SUBSET Ticker \ {{}} :
             /\ Picked("volume", scan)
             /\ MaybeTrigger("crypto", found)
             /\ UNCHANGED <<resting, lapses>>
       \/ /\ lapses < MaxLapse /\ lapses' = lapses + 1
          /\ resting' = resting \cup {"volume"}
          /\ UNCHANGED <<pickDay, tests>>
    /\ UNCHANGED <<on, now, themePhase, stale>>

(* run_once of the swing engine, after the domestic close: the day counts  *)
(* as used before anything is looked up.                                   *)
DailyEntryCycle ==
    /\ "swing" \in on /\ pickDay["swing"] # day
    /\ \E found \in SUBSET Ticker :
          /\ Picked("swing", day)
          /\ IF found = {} THEN UNCHANGED tests ELSE MaybeTrigger("swing", found)
    /\ UNCHANGED <<on, now, themePhase, stale, resting, scan, lapses>>

(* rescreen, by the domestic engine's thread or the web's. *)
Rescreened(c) ==
    /\ \E found \in SUBSET Ticker \ {{}} : MaybeTrigger(c, found)
    /\ UNCHANGED <<on, now, lists, lapses>>

------------------------------------------------------------------------------
\* Time

Rested(source) ==
    /\ source \in resting
    /\ resting' = resting \ {source}
    /\ UNCHANGED <<on, now, pickDay, themePhase, stale, scan, tests, lapses>>

Refresh ==
    /\ pickDay["themes"] # 0 /\ ~stale /\ stale' = TRUE
    /\ lapses < MaxLapse /\ lapses' = lapses + 1
    /\ UNCHANGED <<on, now, pickDay, themePhase, resting, scan, tests>>

\* The clock goes on; the phases are New York's, the dates Korean.
Tick ==
    /\ now < Len(Moments) /\ now' = now + 1
    /\ UNCHANGED <<on, lists, tests, lapses>>

TestStep(w) == Replay(w) \/ GiveUp(w) \/ Load(w) \/ Save(w)
ScanStep == BeginScan \/ EndScan

ListsNext ==
    \/ RateThemes \/ AutoSelect \/ ScanStep \/ DailyEntryCycle
    \/ \E c \in {"domestic", "web"} : Rescreened(c)
    \/ \E c \in Caller : Claim(c)
    \/ RunFromPage \/ Clear \/ \E w \in Worker : TestStep(w)
    \/ \E s \in resting : Rested(s)
    \/ Refresh \/ Tick

ListsSpec == ListsInit /\ [][ListsNext]_listsVars

(* The engines' loops and threads go on; a rest ends. *)
ListsFairSpec ==
    /\ ListsSpec
    /\ WF_listsVars(RateThemes) /\ WF_listsVars(ScanStep)
    /\ \A c \in Caller : WF_listsVars(Claim(c))
    /\ \A s \in Source : WF_listsVars(Rested(s))

------------------------------------------------------------------------------
\* Properties

(* A back-test changes its own market's preferences and no other's, however *)
(* many end at once and whatever the page clears meanwhile: the whole file  *)
(* is read and written under one lock (save_from_backtest, clear).          *)
OthersKept ==
    [][\A w \in Worker : job[w].stage = "save" /\ job'[w] = NoJob =>
          \A m \in Market \ {job[w].market} : prefs'[m] = prefs[m]]_listsVars

(* The lists follow the day and the market: the coins' list is in the end   *)
(* of the last day, and the themes are rated anew in every phase that is    *)
(* traded and lasts - in spite of failed lookups, of rests, and of a thread *)
(* that midnight overtakes (_theme_select_if_due, _maybe_refresh_top_volume).*)
ListsFollow ==
    /\ ("volume" \in on /\ day = LastDay) ~> (pickDay["volume"] = LastDay)
    /\ \A p \in Traded :
          ("themes" \in on /\ phase = p) ~> (themePhase = p \/ phase # p)
=============================================================================
