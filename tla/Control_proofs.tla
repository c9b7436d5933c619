--------------------------- MODULE Control_proofs ---------------------------
(***************************************************************************)
(* Proofs about Control, for a simulation of any number of days and a      *)
(* queue of any size from three on, and about NewsGuard, the reader of the *)
(* news that the threads Control starts and stops share.  Of Control, the  *)
(* engine's thread, the settings and the event queue each have their part  *)
(* of the invariant.  Of NewsGuard, NewsInv says what the threads have     *)
(* read of the titles and from when their answers are, CapInv how many     *)
(* questions may have been written down and are still under way.           *)
(***************************************************************************)
EXTENDS Control, NewsGuard, Sums, SequenceTheorems


ThreadOK ==
    /\ thread \in [at : At, day : 0 .. Days, cfg : Version]
    /\ thread.day <= LastDay
    /\ stopReq \in BOOLEAN
    /\ engine \in [made : BOOLEAN, stop : BOOLEAN, close : BOOLEAN]
    /\ web \in [at : {"idle", "stop", "close"}, close : BOOLEAN]
    /\ asked \in 0 .. Days

SettingsOK ==
    /\ file \in Version
    /\ crypto \in BOOLEAN
    /\ differs \in [Market -> BOOLEAN] /\ reviewed \in BOOLEAN
    /\ SettingsHoldStill

Entry == {"note", "event"}

BusType ==
    /\ pub \in [Publisher -> {"idle", "note", "event"}]
    /\ queue \in Seq(Entry) /\ Len(queue) <= MaxQueue
    /\ gap \in BOOLEAN /\ errors \in 0 .. MaxErrors

\* The log appends an event to a full queue only right after a notice.
LogAlone ==
    errors = 0 =>
        /\ pub["error"] = "idle"
        /\ pub["log"] = "event" /\ Full => queue[Len(queue)] = "note"

BusOK == BusType /\ LogAlone /\ LossesAreTold

Inv == ThreadOK /\ SettingsOK /\ BusOK

------------------------------------------------------------------------------
\* The engine's thread and the settings

LEMMA FlagsType == Flags \in [made : BOOLEAN, stop : BOOLEAN, close : BOOLEAN]
BY DEF Flags

\* The thread goes on to another place, on the same day.
LEMMA ReturnsKeeps ==
  ASSUME ThreadOK, NEW at \in At, thread' = [thread EXCEPT !.at = at]
  PROVE  /\ thread' \in [at : At, day : 0 .. Days, cfg : Version]
         /\ thread'.day <= LastDay' /\ thread'.at = at
<1>1. thread'.day = thread.day /\ thread'.cfg = thread.cfg /\ thread'.at = at
  BY DEF ThreadOK
<1> QED
  BY <1>1 DEF ThreadOK, LastDay

\* Nothing begins to run, so nothing differs that did not.
LEMMA EndsKeeps ==
  ASSUME SettingsOK, UNCHANGED settings,
         thread'.at = "off" \/ thread.at # "off"
  PROVE  SettingsOK'
BY DEF SettingsOK, settings, SettingsHoldStill, Running

LEMMA WebKeeps ==
  ASSUME ThreadOK, SettingsOK, Web
  PROVE  ThreadOK' /\ SettingsOK' /\ UNCHANGED bus
<1>1. CASE EngineStart
  <2>1. /\ thread' = [at |-> "days", day |-> NoDay, cfg |-> file] /\ file \in Version
        /\ asked' = NoDay /\ UNCHANGED <<engine, web, file, crypto, bus>>
        /\ differs' = [differs EXCEPT !["domestic"] = FALSE] /\ reviewed' = FALSE
    BY <1>1 DEF EngineStart, SettingsOK
  <2>2. /\ thread' \in [at : At, day : 0 .. Days, cfg : Version]
        /\ thread'.day = 0
    BY <2>1, ControlAssumption DEF NoDay, At
  <2>3. LastDay' \in Nat /\ asked' \in 0 .. Days
    BY <2>1, ControlAssumption DEF LastDay, NoDay
  <2>4. stopReq' \in BOOLEAN
    BY <1>1 DEF EngineStart
  <2>5. ThreadOK'
    BY <2>1, <2>2, <2>3, <2>4 DEF ThreadOK
  <2>6. differs' \in [Market -> BOOLEAN] /\ reviewed' \in BOOLEAN /\ crypto' \in BOOLEAN
    BY <2>1 DEF SettingsOK
  <2>7. SettingsHoldStill'
    BY <2>1 DEF SettingsOK, SettingsHoldStill, Running, Market
  <2> QED
    BY <2>1, <2>5, <2>6, <2>7 DEF SettingsOK
<1>2. ASSUME NEW close \in BOOLEAN, EngineStop(close) PROVE ThreadOK' /\ SettingsOK' /\ UNCHANGED bus
  <2>1. web' \in [at : {"idle", "stop", "close"}, close : BOOLEAN]
    BY <1>2 DEF EngineStop, ThreadOK
  <2>2. stopReq' \in BOOLEAN
    BY <1>2 DEF EngineStop
  <2>3. ThreadOK'
    BY <1>2, <2>1, <2>2 DEF EngineStop, ThreadOK, LastDay
  <2> QED
    BY <1>2, <2>3 DEF EngineStop, settings, SettingsOK, SettingsHoldStill, Running
<1>3. CASE RequestStop
  <2>1. /\ web' \in [at : {"idle", "stop", "close"}, close : BOOLEAN]
        /\ engine' \in [made : BOOLEAN, stop : BOOLEAN, close : BOOLEAN]
        /\ asked' \in 0 .. Days
    BY <1>3 DEF RequestStop, ThreadOK
  <2>2. ThreadOK'
    BY <1>3, <2>1 DEF RequestStop, ThreadOK, LastDay
  <2> QED
    BY <1>3, <2>2 DEF RequestStop, settings, SettingsOK, SettingsHoldStill, Running
<1>4. CASE RequestClose
  <2>1. /\ web' \in [at : {"idle", "stop", "close"}, close : BOOLEAN]
        /\ engine' \in [made : BOOLEAN, stop : BOOLEAN, close : BOOLEAN]
    BY <1>4 DEF RequestClose, ThreadOK
  <2>2. ThreadOK'
    BY <1>4, <2>1 DEF RequestClose, ThreadOK, LastDay
  <2> QED
    BY <1>4, <2>2 DEF RequestClose, settings, SettingsOK, SettingsHoldStill, Running
<1>5. CASE CryptoStart
  <2>1. ThreadOK'
    BY <1>5 DEF CryptoStart, control, ThreadOK, LastDay
  <2>2. crypto' \in BOOLEAN
    BY <1>5 DEF CryptoStart
  <2>3. differs' \in [Market -> BOOLEAN]
    BY <1>5 DEF CryptoStart, SettingsOK
  <2>4. SettingsHoldStill'
    BY <1>5 DEF CryptoStart, control, SettingsOK, SettingsHoldStill, Running, Market
  <2> QED
    BY <1>5, <2>1, <2>2, <2>3, <2>4 DEF CryptoStart, SettingsOK
<1>6. ASSUME NEW new \in Version, Review(new) PROVE ThreadOK' /\ SettingsOK' /\ UNCHANGED bus
  <2>1. ThreadOK' /\ reviewed' \in BOOLEAN
    BY <1>6 DEF Review, control, ThreadOK, LastDay
  <2>2. differs' \in [Market -> BOOLEAN]
    BY <1>6 DEF Review, Written
  <2>3. \A m \in Market : differs'[m] => differs[m] \/ (Running(m) /\ m = "domestic")
    BY <1>6 DEF Review, Written, Sections, Market
  <2>4. SettingsHoldStill'
    BY <1>6, <2>3 DEF Review, control, SettingsOK, SettingsHoldStill, Running
  <2> QED
    BY <1>6, <2>1, <2>2, <2>4 DEF Review, Written, SettingsOK
<1>7. ASSUME NEW S \in SUBSET Section, NEW new \in Version, PostConfig(S, new)
      PROVE  ThreadOK' /\ SettingsOK' /\ UNCHANGED bus
  <2>1. ThreadOK'
    BY <1>7 DEF PostConfig, control, ThreadOK, LastDay
  <2>2. differs' \in [Market -> BOOLEAN]
    BY <1>7 DEF PostConfig, Written
  <2>3. \A m \in Market : Running(m) => S \cap Sections(m) = {}
    BY <1>7 DEF PostConfig, Locked
  <2>4. \A m \in Market : differs'[m] => differs[m]
    BY <1>7, <2>3 DEF PostConfig, Written
  <2>5. SettingsHoldStill'
    BY <1>7, <2>4 DEF PostConfig, control, SettingsOK, SettingsHoldStill, Running
  <2> QED
    BY <1>7, <2>1, <2>2, <2>5 DEF PostConfig, Written, SettingsOK
<1> QED
  BY <1>1, <1>2, <1>3, <1>4, <1>5, <1>6, <1>7 DEF Web

LEMMA RunnerKeeps ==
  ASSUME ThreadOK, SettingsOK, Runner
  PROVE  ThreadOK' /\ SettingsOK'
<1>0. thread \in [at : At, day : 0 .. Days, cfg : Version] /\ thread.day <= LastDay
  BY DEF ThreadOK
<1>1. CASE NextDay
  <2>1. UNCHANGED <<stopReq, engine, web, asked, settings>> /\ thread.at = "days"
    BY <1>1 DEF NextDay
  <2>2. CASE thread' = [thread EXCEPT !.at = "off"]
    <3>1. ThreadOK'
      BY <2>1, <2>2, ReturnsKeeps DEF ThreadOK, At
    <3> QED
      BY <1>0, <2>1, <2>2, <3>1, EndsKeeps
  <2>3. CASE thread' = [thread EXCEPT !.at = "build", !.day = thread.day + 1]
            /\ thread.day # LastDay
    <3>1. thread.day \in 0 .. Days /\ thread.day + 1 <= LastDay /\ thread.day + 1 \in 0 .. Days
      BY <1>0, <2>3, ControlAssumption DEF LastDay
    <3>2. thread'.day = thread.day + 1 /\ thread'.cfg = thread.cfg
      BY <1>0, <2>3
    <3>3. thread' \in [at : At, day : 0 .. Days, cfg : Version]
      BY <1>0, <2>3, <3>1 DEF At
    <3>4. LastDay' = LastDay
      BY <3>2 DEF LastDay
    <3>5. ThreadOK'
      BY <2>1, <3>1, <3>2, <3>3, <3>4 DEF ThreadOK
    <3> QED
      BY <2>1, <3>5, EndsKeeps
  <2> QED
    BY <1>1, <2>2, <2>3 DEF NextDay
<1>2. CASE Build \/ Run
  <2>1. PICK at \in {"ready", "loop"} : thread' = [thread EXCEPT !.at = at]
    BY <1>2 DEF Build, Run
  <2>2. /\ engine' = Flags /\ UNCHANGED <<stopReq, web, asked, settings>>
        /\ thread.at # "off"
    BY <1>2 DEF Build, Run
  <2>3. at \in At
    BY <2>1 DEF At
  <2>4. ThreadOK'
    BY <2>1, <2>2, <2>3, FlagsType, ReturnsKeeps DEF ThreadOK
  <2> QED
    BY <2>2, <2>4, EndsKeeps
<1>3. CASE LoopStops \/ LoopBreaks \/ CloseAll \/ Throws
  <2>1. PICK at \in {"closing", "days", "off"} : thread' = [thread EXCEPT !.at = at]
    BY <1>3 DEF LoopStops, LoopBreaks, CloseAll, Throws, Returns
  <2>2. UNCHANGED <<stopReq, engine, web, asked, settings>> /\ thread.at # "off"
    BY <1>3 DEF LoopStops, LoopBreaks, CloseAll, Throws
  <2>3. at \in At
    BY <2>1 DEF At
  <2>4. ThreadOK'
    BY <2>1, <2>2, <2>3, ReturnsKeeps DEF ThreadOK
  <2> QED
    BY <2>2, <2>4, EndsKeeps
<1> QED
  BY <1>1, <1>2, <1>3 DEF Runner

LEMMA RestKeeps ==
  ASSUME ThreadOK, SettingsOK, UNCHANGED <<thread, stopReq, engine, web, asked>>,
         UNCHANGED settings \/ (crypto' = FALSE /\ UNCHANGED <<file, differs, reviewed>>)
  PROVE  ThreadOK' /\ SettingsOK'
<1>1. ThreadOK'
  BY DEF ThreadOK, LastDay
<1>2. crypto' \in BOOLEAN
  BY DEF SettingsOK, settings
<1>3. SettingsHoldStill'
  BY DEF settings, SettingsOK, SettingsHoldStill, Running
<1> QED
  BY <1>1, <1>2, <1>3 DEF settings, SettingsOK

------------------------------------------------------------------------------
\* The event queue

\* What stays in a queue whose head is taken.
LEMMA TailData ==
  ASSUME NEW q \in Seq(Entry), q # <<>>
  PROVE  /\ Tail(q) \in Seq(Entry) /\ Len(Tail(q)) = Len(q) - 1
         /\ \A i \in DOMAIN Tail(q) : Tail(q)[i] = q[i + 1]
         /\ Len(q) \in Nat \ {0} /\ DOMAIN q = 1 .. Len(q)
         /\ Head(q) = q[1] /\ Head(q) \in Entry
         /\ DOMAIN Tail(q) = 1 .. Len(q) - 1
OBVIOUS

\* What an append makes of a queue.
LEMMA AppendData ==
  ASSUME NEW q \in Seq(Entry), NEW e \in Entry
  PROVE  /\ Append(q, e) \in Seq(Entry) /\ Len(Append(q, e)) = Len(q) + 1
         /\ Append(q, e)[Len(q) + 1] = e
         /\ \A i \in DOMAIN q : Append(q, e)[i] = q[i]
         /\ DOMAIN q = 1 .. Len(q) /\ DOMAIN Append(q, e) = 1 .. Len(q) + 1
         /\ Len(q) \in Nat
OBVIOUS

LEMMA AppendedKeeps ==
  ASSUME BusType, NEW e \in Entry, Appended(e)
  PROVE  /\ queue' \in Seq(Entry) /\ Len(queue') <= MaxQueue /\ queue' # <<>>
         /\ gap' \in BOOLEAN
         /\ queue'[Len(queue')] = e
         /\ ~ Full => gap' = gap /\ \A i \in DOMAIN queue : /\ i \in DOMAIN queue'
                                                            /\ queue'[i] = queue[i]
         /\ Full /\ queue[Len(queue)] = "note" =>
               \E i \in DOMAIN queue' : queue'[i] = "note"
<1>0. MaxQueue \in Nat /\ MaxQueue >= 3 /\ queue \in Seq(Entry) /\ Len(queue) \in Nat
      /\ Len(queue) <= MaxQueue
  BY ControlAssumption DEF BusType
<1>1. CASE Full
  <2>1. Len(queue) = MaxQueue /\ queue # <<>>
    BY <1>0, <1>1 DEF Full
  <2>2. /\ Tail(queue) \in Seq(Entry) /\ Len(Tail(queue)) = MaxQueue - 1
        /\ DOMAIN Tail(queue) = 1 .. MaxQueue - 1
        /\ \A i \in DOMAIN Tail(queue) : Tail(queue)[i] = queue[i + 1]
    BY <1>0, <2>1, TailData
  <2>3. queue' = Append(Tail(queue), e)
    BY <1>1 DEF Appended
  <2>4. /\ queue' \in Seq(Entry) /\ Len(queue') = MaxQueue /\ queue'[MaxQueue] = e
        /\ DOMAIN queue' = 1 .. MaxQueue
        /\ \A i \in 1 .. MaxQueue - 1 : queue'[i] = Tail(queue)[i]
    BY <1>0, <2>2, <2>3, AppendData
  <2>5. /\ MaxQueue - 1 \in 1 .. MaxQueue /\ MaxQueue - 1 \in DOMAIN Tail(queue)
        /\ MaxQueue - 1 \in 1 .. MaxQueue - 1 /\ (MaxQueue - 1) + 1 = MaxQueue
    BY <1>0, <2>2
  <2>6. queue'[MaxQueue - 1] = queue[MaxQueue]
    BY <2>2, <2>4, <2>5
  <2>7. gap' \in BOOLEAN
    BY DEF Appended
  <2>8. queue' # <<>>
    BY <1>0, <2>4
  <2> QED
    BY <1>0, <1>1, <2>1, <2>4, <2>5, <2>6, <2>7, <2>8
<1>2. CASE ~ Full
  <2>1. Len(queue) < MaxQueue
    BY <1>0, <1>2 DEF Full
  <2>2. queue' = Append(queue, e)
    BY <1>2 DEF Appended
  <2>3. /\ queue' \in Seq(Entry) /\ Len(queue') = Len(queue) + 1
        /\ queue'[Len(queue) + 1] = e
        /\ DOMAIN queue = 1 .. Len(queue) /\ DOMAIN queue' = 1 .. Len(queue) + 1
        /\ \A i \in DOMAIN queue : queue'[i] = queue[i]
    BY <1>0, <2>2, AppendData
  <2>4. \A i \in DOMAIN queue : i \in DOMAIN queue'
    BY <1>0, <2>3
  <2>5. gap' = gap /\ gap \in BOOLEAN
    BY <1>2 DEF Appended, BusType
  <2>6. queue' # <<>>
    BY <1>0, <2>3
  <2> QED
    BY <1>0, <1>2, <2>1, <2>3, <2>4, <2>5, <2>6
<1> QED
  BY <1>1, <1>2

LEMMA CheckedType ==
  /\ Checked \in Entry
  /\ Checked = "event" /\ Full => queue[Len(queue)] = "note"
BY DEF Checked, Entry

LEMMA NoticeKeeps ==
  ASSUME BusOK, NEW p \in Publisher, Notice(p)
  PROVE  BusOK'
<1>1. /\ pub[p] = "note" /\ pub' = [pub EXCEPT ![p] = "event"] /\ Appended("note")
      /\ errors' = errors
  BY DEF Notice
<1>2. "note" \in Entry /\ BusType
  BY DEF Entry, BusOK
<1>3. /\ queue' \in Seq(Entry) /\ Len(queue') <= MaxQueue /\ queue' # <<>>
      /\ gap' \in BOOLEAN /\ queue'[Len(queue')] = "note"
  BY <1>1, <1>2, AppendedKeeps
<1>4. BusType'
  BY <1>1, <1>2, <1>3 DEF BusType
<1>5. Len(queue') \in DOMAIN queue'
  BY <1>3, TailData
<1>6. LogAlone'
  BY <1>1, <1>2, <1>3 DEF BusOK, BusType, LogAlone, Publisher
<1> QED
  BY <1>3, <1>4, <1>5, <1>6 DEF BusOK, LossesAreTold

LEMMA EventKeeps ==
  ASSUME BusOK, NEW p \in Publisher, Event(p)
  PROVE  BusOK'
<1>1. /\ pub[p] = "event" /\ pub' = [pub EXCEPT ![p] = "idle"] /\ Appended("event")
      /\ errors' = errors
  BY DEF Event
<1>2. "event" \in Entry /\ BusType
  BY DEF Entry, BusOK
<1>3. /\ queue' \in Seq(Entry) /\ Len(queue') <= MaxQueue
      /\ gap' \in BOOLEAN
      /\ ~ Full => gap' = gap /\ \A i \in DOMAIN queue : /\ i \in DOMAIN queue'
                                                         /\ queue'[i] = queue[i]
      /\ Full /\ queue[Len(queue)] = "note" =>
            \E i \in DOMAIN queue' : queue'[i] = "note"
  BY <1>1, <1>2, AppendedKeeps
<1>4. BusType'
  BY <1>1, <1>2, <1>3 DEF BusType
<1>5. LogAlone'
  BY <1>1, <1>2 DEF BusOK, BusType, LogAlone, Publisher
<1>6. LossesAreTold'
  <2>1. CASE errors = 0
    <3>1. p = "log"
      BY <1>1, <2>1 DEF BusOK, LogAlone, Publisher
    <3>2. Full => queue[Len(queue)] = "note"
      BY <1>1, <2>1, <3>1 DEF BusOK, LogAlone
    <3>3. ~ Full /\ gap => \E i \in DOMAIN queue : queue[i] = "note"
      BY <2>1 DEF BusOK, LossesAreTold
    <3> QED
      BY <1>3, <3>2, <3>3 DEF LossesAreTold
  <2>2. CASE errors # 0
    BY <1>1, <1>2, <2>2, ControlAssumption DEF BusType, LossesAreTold
  <2> QED
    BY <2>1, <2>2
<1> QED
  BY <1>4, <1>5, <1>6 DEF BusOK

LEMMA DeliverKeeps ==
  ASSUME BusOK, Deliver
  PROVE  BusOK'
<1>1. /\ queue # <<>> /\ queue' = Tail(queue) /\ UNCHANGED <<pub, errors>>
      /\ gap' = (gap /\ Head(queue) # "note")
  BY DEF Deliver
<1>2. queue \in Seq(Entry) /\ Len(queue) <= MaxQueue /\ MaxQueue \in Nat
  BY ControlAssumption DEF BusOK, BusType
<1>3. /\ queue' \in Seq(Entry) /\ Len(queue') = Len(queue) - 1
      /\ \A i \in DOMAIN queue' : queue'[i] = queue[i + 1]
      /\ Len(queue) \in Nat \ {0} /\ DOMAIN queue = 1 .. Len(queue)
      /\ Head(queue) = queue[1]
      /\ DOMAIN queue' = 1 .. Len(queue) - 1
  BY <1>1, <1>2, TailData
<1>4. BusType'
  BY <1>1, <1>2, <1>3 DEF BusOK, BusType
<1>5. ~ Full'
  BY <1>2, <1>3 DEF Full
<1>6. LogAlone'
  BY <1>1, <1>5 DEF BusOK, LogAlone
<1>7. LossesAreTold'
  <2> SUFFICES ASSUME gap', errors' = 0
               PROVE  \E i \in DOMAIN queue' : queue'[i] = "note"
    BY <1>4, ControlAssumption DEF LossesAreTold, BusType
  <2>1. gap /\ queue[1] # "note" /\ errors = 0
    BY <1>1, <1>3
  <2>2. PICK i \in DOMAIN queue : queue[i] = "note"
    BY <2>1 DEF BusOK, LossesAreTold
  <2>3. i - 1 \in DOMAIN queue' /\ (i - 1) + 1 = i
    BY <1>3, <2>1, <2>2
  <2> QED
    BY <1>3, <2>2, <2>3
<1> QED
  BY <1>4, <1>6, <1>7 DEF BusOK

LEMMA PublishKeeps ==
  ASSUME BusOK, Publish
  PROVE  BusOK'
<1>1. /\ pub["log"] = "idle" /\ pub' = [pub EXCEPT !["log"] = Checked]
      /\ UNCHANGED <<queue, gap, errors>>
  BY DEF Publish
<1>2. "log" \in Publisher /\ "error" \in Publisher /\ Checked \in {"idle", "note", "event"}
  BY CheckedType DEF Publisher, Entry
<1>3. pub' \in [Publisher -> {"idle", "note", "event"}] /\ pub'["log"] = Checked
      /\ pub'["error"] = pub["error"]
  BY <1>1, <1>2 DEF BusOK, BusType
<1>4. BusType'
  BY <1>1, <1>3 DEF BusOK, BusType
<1>5. LogAlone'
  BY <1>1, <1>3, CheckedType DEF BusOK, LogAlone, Full
<1> QED
  BY <1>1, <1>4, <1>5 DEF BusOK, LossesAreTold

LEMMA ThrowsKeeps ==
  ASSUME BusOK, Throws
  PROVE  BusOK'
<1>1. /\ errors < MaxErrors /\ errors' = errors + 1
      /\ pub' = [pub EXCEPT !["error"] = Checked] /\ UNCHANGED <<queue, gap>>
  BY DEF Throws
<1>2. Checked \in {"idle", "note", "event"} /\ errors \in 0 .. MaxErrors /\ MaxErrors \in Nat
  BY CheckedType, ControlAssumption DEF Entry, BusOK, BusType
<1>3. errors' \in 0 .. MaxErrors /\ errors' > 0
  BY <1>1, <1>2
<1>4. BusType'
  BY <1>1, <1>2, <1>3 DEF BusOK, BusType
<1> QED
  BY <1>3, <1>4 DEF BusOK, LogAlone, LossesAreTold

------------------------------------------------------------------------------
\* Inv is inductive

LEMMA InitInv == Init => Inv
<1> SUFFICES ASSUME Init PROVE Inv
  OBVIOUS
<1>1. thread \in [at : At, day : 0 .. Days, cfg : Version] /\ thread.day = 0
  BY ControlAssumption DEF Init, Loadable, At, NoDay
<1>2. LastDay \in Nat /\ asked \in 0 .. Days
  BY ControlAssumption DEF Init, LastDay, NoDay
<1>3. web \in [at : {"idle", "stop", "close"}, close : BOOLEAN]
  BY DEF Init
<1>4. stopReq \in BOOLEAN
  BY DEF Init
<1>12. engine \in [made : BOOLEAN, stop : BOOLEAN, close : BOOLEAN]
  BY DEF Init, Flags
<1>5. ThreadOK
  BY <1>1, <1>2, <1>3, <1>4, <1>12 DEF Init, ThreadOK
<1>6. crypto \in BOOLEAN /\ reviewed \in BOOLEAN /\ file \in Version
  BY DEF Init, Loadable
<1>7. differs \in [Market -> BOOLEAN]
  BY DEF Init
<1>8. SettingsOK
  BY <1>6, <1>7 DEF Init, SettingsOK, SettingsHoldStill
<1>9. queue \in Seq(Entry) /\ Len(queue) = 0 /\ MaxQueue \in Nat /\ MaxErrors \in Nat
  BY ControlAssumption DEF Init
<1>10. gap \in BOOLEAN
  BY DEF Init
<1>11. BusOK
  BY <1>9, <1>10 DEF Init, BusOK, BusType, LogAlone, LossesAreTold, Publisher
<1> QED
  BY <1>5, <1>8, <1>11 DEF Inv

LEMMA NextInv == Inv /\ [Next]_vars => Inv'
<1> SUFFICES ASSUME Inv, [Next]_vars PROVE Inv'
  OBVIOUS
<1>0. ThreadOK /\ SettingsOK /\ BusOK
  BY DEF Inv
<1>1. ASSUME UNCHANGED bus PROVE BusOK'
  BY <1>0, <1>1 DEF bus, BusOK, BusType, LogAlone, LossesAreTold, Full
<1>2. CASE Web
  BY <1>0, <1>1, <1>2, WebKeeps DEF Inv
<1>3. CASE Runner
  <2>1. ThreadOK' /\ SettingsOK'
    BY <1>0, <1>3, RunnerKeeps
  <2>2. CASE Throws
    BY <1>0, <2>1, <2>2, ThrowsKeeps DEF Inv
  <2>3. CASE ~ Throws
    <3>1. UNCHANGED bus
      BY <1>3, <2>3 DEF Runner, NextDay, Build, Run, LoopStops, LoopBreaks, CloseAll
    <3> QED
      BY <1>1, <2>1, <3>1 DEF Inv
  <2> QED
    BY <2>2, <2>3
<1>4. CASE CryptoEnds
  BY <1>0, <1>1, <1>4, RestKeeps DEF CryptoEnds, control, Inv
<1>5. CASE EventBus
  <2>1. UNCHANGED <<control, settings>>
    BY <1>5 DEF EventBus, Publish, Deliver, Notice, Event
  <2>2. ThreadOK' /\ SettingsOK'
    BY <1>0, <2>1, RestKeeps DEF control
  <2>3. BusOK'
    BY <1>0, <1>5, PublishKeeps, DeliverKeeps, NoticeKeeps, EventKeeps DEF EventBus
  <2> QED
    BY <2>2, <2>3 DEF Inv
<1>6. CASE UNCHANGED vars
  BY <1>0, <1>1, <1>6, RestKeeps DEF vars, control, settings, bus, Inv
<1>7. CASE Account
  <2>1. UNCHANGED <<thread, stopReq, engine, web, asked, settings, bus>>
    BY <1>7 DEF Account, FixPreflight, Trades, Outside
  <2> QED
    BY <1>0, <1>1, <2>1, RestKeeps DEF Inv
<1> QED
  BY <1>2, <1>3, <1>4, <1>5, <1>6, <1>7 DEF Next

------------------------------------------------------------------------------
\* The theorems

(* Inv holds of every state of the program. *)
THEOREM SpecInv == Spec => []Inv
BY InitInv, NextInv, PTL DEF Spec

(* The variables keep their types: no event ever makes the queue longer than its
   bound, and a simulation never runs past its last day. *)
THEOREM SpecTypeOK == Spec => []TypeOK
<1>1. Inv => TypeOK
  BY DEF Inv, ThreadOK, SettingsOK, BusOK, BusType, Entry, TypeOK
<1> QED
  BY <1>1, SpecInv, PTL

(* While an engine runs, only the monthly review changes the settings it reads
   (_trading_locks, post_config). *)
THEOREM SpecSettingsHoldStill == Spec => []SettingsHoldStill
<1>1. Inv => SettingsHoldStill
  BY DEF Inv, SettingsOK
<1> QED
  BY <1>1, SpecInv, PTL

(* Events are never lost silently, as long as no exception was published beside
   the log's lock (EventBus.publish). *)
THEOREM SpecLossesAreTold == Spec => []LossesAreTold
<1>1. Inv => LossesAreTold
  BY DEF Inv, BusOK
<1> QED
  BY <1>1, SpecInv, PTL

------------------------------------------------------------------------------
\* The reader of the news

Verdicts == Verdict \cup {Unknown}

\* A caller of the guard, between gate and its answer.
Gating == [at : {"gate"}, sym : Symbol]
Fetching == [at : {"fetch"}, sym : Symbol, now : Nat, old : Verdicts, linked : BOOLEAN]
Judging == [at : {"judge", "ask", "wait"}, sym : Symbol, now : Nat, titles : Titles]
Answering == [at : {"answer"}, sym : Symbol, now : Nat, verdict : Verdicts]
Reading == {Idle} \cup Gating \cup Fetching \cup Judging \cup Answering

NewsType ==
    /\ time \in Times /\ titles \in [Symbol -> Titles]
    /\ cfg \in Owner \cup {Nobody}
    /\ cache \in [Symbol -> [verdict : Verdicts, at : Nat]]
    /\ calls \in Questions /\ counted \in Questions
    /\ table \in [{Dir[o] : o \in Owner} -> Questions]
    /\ call \in [Caller -> Reading]
    /\ shown \in [Symbol -> [Titles -> Int]]

\* A refusal has its reason.
Warranted(s, v) ==
    v.level = "block" =>
        \/ v.source = "ai" /\ <<s, v.digest>> \in bad
        \/ v.source = "keyword" /\ v.digest \in Risky /\ Avoid # {}

\* What is known of a symbol.
Known(s) ==
    /\ shown[s][titles[s]] = time /\ \A t \in Titles : shown[s][t] <= time
    /\ LET v == cache[s].verdict IN
       /\ v # Unknown => shown[s][v.digest] >= cache[s].at
       /\ Warranted(s, v)

\* What a caller goes by.
Grounded(r) ==
    /\ r.at = "fetch" =>
          /\ r.now <= time /\ Warranted(r.sym, r.old)
          /\ r.linked => cache[r.sym].verdict = r.old
    /\ r.at \in {"judge", "ask", "wait"} => shown[r.sym][r.titles] >= r.now
    /\ r.at = "answer" =>
          /\ r.verdict # Unknown => shown[r.sym][r.verdict.digest] > r.now - TTL
          /\ Warranted(r.sym, r.verdict)

NewsInv ==
    /\ NewsType
    /\ \A s \in Symbol : Known(s)
    /\ \A c \in Caller : Grounded(call[c])

\* Verdicts and callers.
LEMMA VerdictData ==
  /\ Unknown \in Verdicts /\ Unknown.level = "unknown" /\ Unknown \notin Verdict
  /\ \A v \in Verdicts : v # Unknown => v.digest \in Titles
  /\ \A l \in {"block", "none"}, o \in {"ai", "keyword", "none"}, t \in Titles :
        /\ [level |-> l, source |-> o, digest |-> t] \in Verdicts
        /\ [level |-> l, source |-> o, digest |-> t] # Unknown
BY DEF Verdicts, Verdict, Unknown

LEMMA ReadingData ==
  ASSUME NEW r \in Reading
  PROVE  /\ r.at \in {"idle", "gate", "fetch", "judge", "ask", "wait", "answer"}
         /\ r.at = "gate" => r.sym \in Symbol
         /\ r.at = "fetch" => r \in Fetching
         /\ r.at \in {"judge", "ask", "wait"} => r \in Judging
         /\ r.at = "answer" => r.sym \in Symbol /\ r.now \in Nat /\ r.verdict \in Verdicts
BY DEF Reading, Gating, Fetching, Judging, Answering, Idle

\* r lets go of what it found in the cache.
LetsGo(r, q) ==
    /\ r.at = "fetch" /\ q.at = "fetch"
    /\ q.sym = r.sym /\ q.now = r.now /\ q.old = r.old /\ q.linked = FALSE

LEMMA Unlinked ==
  ASSUME NEW r \in Fetching, NEW q, q = [r EXCEPT !.linked = FALSE]
  PROVE  q \in Reading /\ LetsGo(r, q)
BY DEF Reading, Fetching, LetsGo

LEMMA Moved ==
  ASSUME NEW r \in Judging, NEW a \in {"ask", "wait"}, NEW q, q = [r EXCEPT !.at = a]
  PROVE  /\ r.at \in {"judge", "ask", "wait"}
         /\ r.sym \in Symbol /\ r.now \in Nat /\ r.titles \in Titles
         /\ q \in Reading /\ q.at = a /\ q.sym = r.sym /\ q.now = r.now /\ q.titles = r.titles
BY DEF Reading, Judging

LEMMA ReadingMade ==
  ASSUME NEW s \in Symbol
  PROVE  /\ Idle \in Reading /\ [at |-> "gate", sym |-> s] \in Reading
         /\ \A n \in Nat :
               /\ \A v \in Verdicts, l \in BOOLEAN :
                     [at |-> "fetch", sym |-> s, now |-> n, old |-> v, linked |-> l] \in Reading
               /\ \A a \in {"judge", "ask", "wait"}, t \in Titles :
                     [at |-> a, sym |-> s, now |-> n, titles |-> t] \in Reading
               /\ \A v \in Verdicts :
                     [at |-> "answer", sym |-> s, now |-> n, verdict |-> v] \in Reading
BY DEF Reading, Gating, Fetching, Judging, Answering

\* Clocks.
LEMMA TimeIsInt ==
  /\ \A t \in Times : t \in Nat
  /\ TTL \in Nat /\ TTL > 0 /\ DayLength \in Nat /\ DayLength > 0 /\ LastTime \in Nat
BY GuardAssumption DEF GuardAssumption, Times

LEMMA RecentIsQuestions ==
  ASSUME NEW qs \in Questions, NEW first
  PROVE  Since(first, qs) \in Questions
BY DEF Questions, Since

\* A caller that only changes what itself is doing.
LEMMA OneMoves ==
  ASSUME NewsInv, NEW c \in Caller, NEW r \in Reading, Grounded(r),
         call' = [call EXCEPT ![c] = r], UNCHANGED <<time, titles, shown, cache, bad>>
  PROVE  /\ call' \in [Caller -> Reading]
         /\ \A s \in Symbol : Known(s)'
         /\ \A d \in Caller : Grounded(call[d])'
<1> USE DEF NewsInv, NewsType
<1>1. call' \in [Caller -> Reading]
  OBVIOUS
<1>2. ASSUME NEW s \in Symbol PROVE Known(s)'
  BY DEF Known, Warranted
<1>3. ASSUME NEW d \in Caller PROVE Grounded(call[d])'
  <2>1. Grounded(call'[d])
    <3>1. CASE d = c
      BY <3>1
    <3>2. CASE d # c
      BY <3>2
    <3> QED
      BY <3>1, <3>2
  <2> QED
    BY <2>1 DEF Grounded, Warranted
<1> QED
  BY <1>1, <1>2, <1>3

\* The verdict v on s takes its place in the cache, and is the answer r.
Replaces(c, level, source, s, v, r) ==
    /\ s = call[c].sym
    /\ v = [level |-> level, source |-> source, digest |-> call[c].titles]
    /\ r = [at |-> "answer", sym |-> s, now |-> call[c].now, verdict |-> v]
    /\ call[c].titles \in Titles /\ call[c].now \in Nat /\ v # Unknown
    /\ cache' \in [Symbol -> [verdict : Verdicts, at : Nat]]
    /\ cache'[s] = [verdict |-> v, at |-> call[c].now]
    /\ \A x \in Symbol : x # s => cache'[x] = cache[x]
    /\ call' \in [Caller -> Reading] /\ call'[c] = r
    /\ \A d \in Caller : d # c =>
          \/ call'[d] = call[d] /\ (call[d].at = "fetch" => call[d].sym # s)
          \/ call[d].sym = s /\ LetsGo(call[d], call'[d])

LEMMA StoreData ==
  ASSUME NewsType, NEW c \in Caller, call[c].at \in {"judge", "wait"},
         NEW level \in {"block", "none"}, NEW source \in {"ai", "keyword", "none"},
         Store(c, level, source)
  PROVE  \E s \in Symbol, v \in Verdicts, r \in Reading : Replaces(c, level, source, s, v, r)
<1> DEFINE s == call[c].sym
           v == [level |-> level, source |-> source, digest |-> call[c].titles]
           r == [at |-> "answer", sym |-> s, now |-> call[c].now, verdict |-> v]
<1>1. call[c] \in Judging
  BY ReadingData DEF NewsType
<1>2. s \in Symbol /\ call[c].titles \in Titles /\ call[c].now \in Nat
  BY <1>1 DEF Judging
<1>3. v \in Verdicts /\ v # Unknown
  BY <1>2, VerdictData
<1>4. r \in Reading
  BY <1>2, <1>3, ReadingMade
<1>5. cache' = [cache EXCEPT ![s] = [verdict |-> v, at |-> call[c].now]]
  BY DEF Store
<1>6. call'[c] = r
  BY DEF Store
<1>7. ASSUME NEW d \in Caller, d # c
      PROVE  /\ call'[d] \in Reading
             /\ \/ call'[d] = call[d] /\ (call[d].at = "fetch" => call[d].sym # s)
                \/ call[d].sym = s /\ LetsGo(call[d], call'[d])
  <2>1. CASE call[d].at = "fetch" /\ call[d].sym = s
    <3>1. call[d] \in Fetching
      BY <2>1, ReadingData DEF NewsType
    <3>2. call'[d] = [call[d] EXCEPT !.linked = FALSE]
      BY <1>7, <2>1 DEF Store
    <3> QED
      BY <2>1, <3>1, <3>2, Unlinked
  <2>2. CASE ~(call[d].at = "fetch" /\ call[d].sym = s)
    <3>1. call'[d] = call[d]
      BY <1>7, <2>2 DEF Store
    <3> QED
      BY <2>2, <3>1 DEF NewsType
  <2> QED
    BY <2>1, <2>2
<1>8. call' \in [Caller -> Reading]
  <2>1. call' = [d \in Caller |-> call'[d]]
    BY DEF Store
  <2>2. \A d \in Caller : call'[d] \in Reading
    BY <1>4, <1>6, <1>7
  <2> QED
    BY <2>1, <2>2
<1>9. /\ cache' \in [Symbol -> [verdict : Verdicts, at : Nat]]
      /\ cache'[s] = [verdict |-> v, at |-> call[c].now]
      /\ \A x \in Symbol : x # s => cache'[x] = cache[x]
  <2> HIDE DEF s, v
  <2> QED
    BY <1>2, <1>3, <1>5 DEF NewsType
<1>10. s = call[c].sym
  OBVIOUS
<1>11. v = [level |-> level, source |-> source, digest |-> call[c].titles]
  OBVIOUS
<1>12. r = [at |-> "answer", sym |-> s, now |-> call[c].now, verdict |-> v]
  OBVIOUS
<1> HIDE DEF s, v, r
<1> QED
  BY <1>2, <1>3, <1>6, <1>7, <1>8, <1>9, <1>10, <1>11, <1>12 DEF Replaces

LEMMA VerdictKeeps ==
  ASSUME NewsInv, NEW c \in Caller, call[c].at \in {"judge", "wait"},
         NEW level \in {"block", "none"}, NEW source \in {"ai", "keyword", "none"},
         Store(c, level, source), UNCHANGED <<time, titles, shown>>, bad \subseteq bad',
         level = "block" => \/ source = "ai" /\ <<call[c].sym, call[c].titles>> \in bad'
                            \/ source = "keyword" /\ call[c].titles \in Risky /\ Avoid # {}
  PROVE  /\ cache' \in [Symbol -> [verdict : Verdicts, at : Nat]]
         /\ call' \in [Caller -> Reading]
         /\ \A s \in Symbol : Known(s)'
         /\ \A d \in Caller : Grounded(call[d])'
<1>1. NewsType
  BY DEF NewsInv
<1>2. PICK s \in Symbol, v \in Verdicts, r \in Reading : Replaces(c, level, source, s, v, r)
  BY <1>1, StoreData
<1> USE DEF Replaces
<1>3. shown[s][call[c].titles] >= call[c].now
  BY <1>2 DEF NewsInv, Grounded
<1>4. v.level = level /\ v.source = source /\ v.digest = call[c].titles
  BY <1>2
<1>5. /\ r.at = "answer" /\ r.sym = s /\ r.now = call[c].now /\ r.verdict = v
      /\ cache'[s].verdict = v /\ cache'[s].at = call[c].now
  BY <1>2
<1>6. Warranted(s, v)'
  BY <1>2, <1>4 DEF Warranted
<1>7. shown[s][call[c].titles] \in Int /\ TTL \in Nat /\ TTL > 0
  BY <1>1, <1>2, TimeIsInt DEF NewsType
<1>8. ASSUME NEW x \in Symbol PROVE Known(x)'
  <2>1. Known(x)
    BY DEF NewsInv
  <2>2. CASE x = s
    BY <1>3, <1>4, <1>5, <1>6, <2>1, <2>2 DEF Known
  <2>3. CASE x # s
    <3>1. cache'[x] = cache[x]
      BY <1>2, <2>3
    <3> QED
      BY <2>1, <3>1 DEF Known, Warranted
  <2> QED
    BY <2>2, <2>3
<1>9. ASSUME NEW d \in Caller PROVE Grounded(call[d])'
  <2>1. Grounded(call[d])
    BY DEF NewsInv
  <2>2. CASE d = c
    <3>1. call'[d] = r
      BY <1>2, <2>2
    <3>2. shown[s][v.digest] > call[c].now - TTL
      BY <1>2, <1>3, <1>4, <1>7
    <3> QED
      BY <1>5, <1>6, <3>1, <3>2 DEF Grounded
  <2>3. CASE d # c /\ call'[d] = call[d] /\ (call[d].at = "fetch" => call[d].sym # s)
    <3>1. call[d].at = "fetch" => call[d].sym \in Symbol
      BY <1>1, ReadingData DEF NewsType, Fetching
    <3>2. call[d].at = "fetch" => cache'[call[d].sym] = cache[call[d].sym]
      BY <1>2, <2>3, <3>1
    <3> QED
      BY <2>1, <2>3, <3>2 DEF Grounded, Warranted
  <2>4. CASE d # c /\ LetsGo(call[d], call'[d])
    BY <2>1, <2>4 DEF Grounded, Warranted, LetsGo
  <2> QED
    BY <1>2, <2>2, <2>3, <2>4
<1> QED
  BY <1>2, <1>8, <1>9

\* The callers' steps.
LEMMA BeginKeeps ==
  ASSUME NewsInv, NEW c \in Caller, NEW s \in Symbol, Begin(c, s)
  PROVE  NewsInv'
<1>1. [at |-> "gate", sym |-> s] \in Reading
  BY ReadingMade
<1>2. Grounded([at |-> "gate", sym |-> s])
  BY DEF Grounded
<1>3. UNCHANGED <<time, titles, shown, cache, bad, counted, table>>
  BY DEF Begin, GetGuard, guard, world
<1>4. /\ call' \in [Caller -> Reading]
      /\ \A x \in Symbol : Known(x)'
      /\ \A d \in Caller : Grounded(call[d])'
  BY <1>1, <1>2, <1>3, OneMoves DEF Begin
<1>5. cfg' \in Owner \cup {Nobody} /\ calls' \in Questions
  <2>1. CASE c \in Engine
    <3>1. c \in Owner /\ table[Dir[c]] \in Questions
      BY <2>1 DEF NewsInv, NewsType, Owner
    <3>2. calls' \in Questions /\ cfg' = c
      BY <2>1, <3>1, RecentIsQuestions DEF Begin, GetGuard, Recent, NewsInv, NewsType
    <3> QED
      BY <3>1, <3>2
  <2>2. CASE c \notin Engine
    BY <2>2 DEF Begin, guard, NewsInv, NewsType
  <2> QED
    BY <2>1, <2>2
<1> QED
  BY <1>3, <1>4, <1>5 DEF NewsInv, NewsType

LEMMA LookupKeeps ==
  ASSUME NewsInv, NEW c \in Caller, LookInCache(c)
  PROVE  NewsInv'
<1> DEFINE s == call[c].sym
           old == cache[s].verdict
<1>1. s \in Symbol
  BY ReadingData DEF NewsInv, NewsType, LookInCache
<1>2. /\ time \in Nat /\ old \in Verdicts /\ cache[s].at \in Nat /\ TTL \in Nat /\ TTL > 0
      /\ \A t \in Titles : shown[s][t] \in Int
  BY <1>1, TimeIsInt DEF NewsInv, NewsType
<1>3. Known(s)
  BY <1>1 DEF NewsInv
<1>4. UNCHANGED <<time, titles, shown, cache, bad, counted, table, cfg, calls>>
  BY DEF LookInCache, guard, world
<1>5. ASSUME NEW r \in Reading, Grounded(r), call' = [call EXCEPT ![c] = r]
      PROVE  NewsInv'
  <2>1. /\ call' \in [Caller -> Reading]
        /\ \A x \in Symbol : Known(x)'
        /\ \A d \in Caller : Grounded(call[d])'
    BY <1>4, <1>5, OneMoves
  <2> QED
    BY <1>4, <2>1 DEF NewsInv, NewsType
<1>6. CASE Concludes(c, Unknown, time)
  <2> DEFINE r == [at |-> "answer", sym |-> s, now |-> time, verdict |-> Unknown]
  <2>1. r \in Reading
    BY <1>1, <1>2, VerdictData, ReadingMade
  <2>2. Grounded(r)
    BY VerdictData DEF Grounded, Warranted
  <2>3. call' = [call EXCEPT ![c] = r]
    BY <1>6 DEF Concludes
  <2> QED
    BY <1>5, <2>1, <2>2, <2>3
<1>7. CASE Fresh(s) /\ Concludes(c, old, time)
  <2> DEFINE r == [at |-> "answer", sym |-> s, now |-> time, verdict |-> old]
  <2>1. r \in Reading
    BY <1>1, <1>2, ReadingMade
  <2>2. old # Unknown /\ time - cache[s].at < TTL
    BY <1>7 DEF Fresh
  <2>3. shown[s][old.digest] \in Int /\ shown[s][old.digest] >= cache[s].at
    BY <1>2, <1>3, <2>2, VerdictData DEF Known
  <2>4. shown[s][old.digest] > time - TTL
    BY <1>2, <2>2, <2>3
  <2>5. Warranted(s, old)
    BY <1>3 DEF Known
  <2>6. Grounded(r)
    BY <2>4, <2>5 DEF Grounded
  <2>7. call' = [call EXCEPT ![c] = r]
    BY <1>7 DEF Concludes
  <2> QED
    BY <1>5, <2>1, <2>6, <2>7
<1>8. CASE call' = [call EXCEPT ![c] = [at |-> "fetch", sym |-> s, now |-> time,
                                       old |-> old, linked |-> old # Unknown]]
  <2> DEFINE r == [at |-> "fetch", sym |-> s, now |-> time, old |-> old,
                   linked |-> old # Unknown]
  <2>1. r \in Reading
    BY <1>1, <1>2, ReadingMade
  <2>2. Warranted(s, old)
    BY <1>3 DEF Known
  <2>3. Grounded(r)
    BY <1>2, <2>2 DEF Grounded
  <2> QED
    BY <1>5, <1>8, <2>1, <2>3
<1> QED
  BY <1>6, <1>7, <1>8 DEF LookInCache

LEMMA FetchKeeps ==
  ASSUME NewsInv, NEW c \in Caller, Fetch(c)
  PROVE  NewsInv'
<1> DEFINE t == titles[call[c].sym]
<1>1. NewsType /\ call[c].at = "fetch" /\ call[c] \in Fetching
  BY ReadingData DEF NewsInv, NewsType, Fetch
<1>2. PICK s \in Symbol, n \in Nat, old \in Verdicts :
         s = call[c].sym /\ n = call[c].now /\ old = call[c].old
  BY <1>1 DEF Fetching
<1>3. /\ TTL \in Nat /\ TTL > 0 /\ time \in Nat /\ titles[s] \in Titles
      /\ \A u \in Titles : shown[s][u] \in Int
  BY <1>1, TimeIsInt DEF NewsType
<1>4. UNCHANGED <<time, titles, shown, bad, counted, table, cfg, calls>>
  BY DEF Fetch, world
<1>5. Known(s) /\ Grounded(call[c])
  BY DEF NewsInv
<1>6. n <= time /\ Warranted(s, old) /\ (call[c].linked => cache[s].verdict = old)
  BY <1>1, <1>2, <1>5 DEF Grounded
<1>7. ASSUME NEW r \in Reading, Grounded(r), call' = [call EXCEPT ![c] = r], UNCHANGED cache
      PROVE  NewsInv'
  <2>1. /\ call' \in [Caller -> Reading]
        /\ \A x \in Symbol : Known(x)'
        /\ \A d \in Caller : Grounded(call[d])'
    BY <1>4, <1>7, OneMoves
  <2> QED
    BY <1>4, <1>7, <2>1 DEF NewsInv, NewsType
<1>8. CASE Concludes(c, Unknown, n) /\ UNCHANGED cache
  <2> DEFINE r == [at |-> "answer", sym |-> s, now |-> n, verdict |-> Unknown]
  <2>1. r \in Reading
    BY VerdictData, ReadingMade
  <2>2. Grounded(r)
    BY VerdictData DEF Grounded, Warranted
  <2>3. call' = [call EXCEPT ![c] = r]
    BY <1>2, <1>8 DEF Concludes
  <2> QED
    BY <1>7, <1>8, <2>1, <2>2, <2>3
<1>9. CASE Extends(c, t) /\ Extend(c)
  <2> DEFINE r == [at |-> "answer", sym |-> s, now |-> n, verdict |-> old]
  <2>1. r \in Reading
    BY ReadingMade
  <2>2. old # Unknown /\ old.digest = titles[s]
    BY <1>2, <1>9 DEF Extends
  <2>3. shown[s][old.digest] = time
    BY <1>5, <2>2 DEF Known
  <2>4. shown[s][old.digest] > n - TTL
    BY <1>3, <1>6, <2>3
  <2>5. Grounded(r)
    BY <1>6, <2>4 DEF Grounded
  <2>6. call' = [call EXCEPT ![c] = r]
    BY <1>2, <1>9 DEF Extend, Concludes
  <2>7. CASE ~call[c].linked
    BY <1>7, <1>9, <2>1, <2>5, <2>6, <2>7 DEF Extend
  <2>8. CASE call[c].linked
    <3>1. cache' = [cache EXCEPT ![s].at = n]
      BY <1>2, <1>9, <2>8 DEF Extend
    <3>2. /\ cache' \in [Symbol -> [verdict : Verdicts, at : Nat]]
          /\ cache'[s].at = n
          /\ \A x \in Symbol : /\ cache'[x].verdict = cache[x].verdict
                               /\ x # s => cache'[x] = cache[x]
      BY <1>1, <3>1 DEF NewsType
    <3>3. ASSUME NEW x \in Symbol PROVE Known(x)'
      <4>1. Known(x)
        BY DEF NewsInv
      <4>2. CASE x = s
        BY <1>3, <1>4, <1>6, <2>3, <2>8, <3>2, <4>1, <4>2 DEF Known, Warranted
      <4>3. CASE x # s
        BY <1>4, <3>2, <4>1, <4>3 DEF Known, Warranted
      <4> QED
        BY <4>2, <4>3
    <3>4. call' \in [Caller -> Reading] /\ call'[c] = r
      BY <1>1, <2>1, <2>6 DEF NewsType
    <3>5. ASSUME NEW d \in Caller PROVE Grounded(call[d])'
      <4>1. Grounded(call'[d])
        BY <2>5, <2>6, <3>4 DEF NewsInv, NewsType
      <4>2. call'[d].at = "fetch" => call'[d].sym \in Symbol
        BY <3>4, ReadingData DEF Fetching
      <4> QED
        BY <1>4, <3>2, <4>1, <4>2 DEF Grounded, Warranted
    <3> QED
      BY <1>1, <1>4, <3>2, <3>3, <3>4, <3>5 DEF NewsInv, NewsType
  <2> QED
    BY <2>7, <2>8
<1>10. CASE /\ call' = [call EXCEPT ![c] = [at |-> "judge", sym |-> s, now |-> n, titles |-> t]]
            /\ UNCHANGED cache
  <2> DEFINE r == [at |-> "judge", sym |-> s, now |-> n, titles |-> titles[s]]
  <2>1. r \in Reading
    BY <1>3, ReadingMade
  <2>2. shown[s][titles[s]] >= n
    BY <1>3, <1>5, <1>6 DEF Known
  <2>3. Grounded(r)
    BY <2>2 DEF Grounded
  <2> QED
    BY <1>2, <1>7, <1>10, <2>1, <2>3
<1> QED
  BY <1>2, <1>8, <1>9, <1>10 DEF Fetch

LEMMA ByKeywordKeeps ==
  ASSUME NewsInv, NEW c \in Caller, call[c].at \in {"judge", "wait"},
         ByKeyword(c), UNCHANGED <<time, titles, shown, bad>>
  PROVE  /\ cache' \in [Symbol -> [verdict : Verdicts, at : Nat]]
         /\ call' \in [Caller -> Reading]
         /\ \A s \in Symbol : Known(s)'
         /\ \A d \in Caller : Grounded(call[d])'
<1>1. CASE call[c].titles \in Risky /\ cfg \in Avoid
  <2>1. Store(c, "block", "keyword")
    BY <1>1 DEF ByKeyword
  <2> QED
    BY <1>1, <2>1, VerdictKeeps
<1>2. CASE ~(call[c].titles \in Risky /\ cfg \in Avoid)
  <2>1. Store(c, "none", "keyword")
    BY <1>2 DEF ByKeyword
  <2> QED
    BY <2>1, VerdictKeeps
<1> QED
  BY <1>1, <1>2

\* The call of c goes on, with what it has.
LEMMA GoesKeeps ==
  ASSUME NewsInv, NEW c \in Caller, call[c].at \in {"judge", "ask"},
         NEW at \in {"ask", "wait"}, Goes(c, at),
         UNCHANGED <<time, titles, shown, cache, bad>>
  PROVE  /\ call' \in [Caller -> Reading]
         /\ \A s \in Symbol : Known(s)'
         /\ \A d \in Caller : Grounded(call[d])'
<1> DEFINE r == [call[c] EXCEPT !.at = at]
<1>1. call[c] \in Judging
  BY ReadingData DEF NewsInv, NewsType
<1>2. /\ r \in Reading /\ r.at = at /\ r.sym = call[c].sym /\ r.now = call[c].now
      /\ r.titles = call[c].titles
  BY <1>1, Moved
<1>3. call' = [call EXCEPT ![c] = r]
  BY DEF Goes
<1> HIDE DEF r
<1>4. Grounded(r)
  BY <1>2 DEF NewsInv, Grounded
<1> QED
  BY <1>2, <1>3, <1>4, OneMoves

LEMMA JudgeKeeps ==
  ASSUME NewsInv, NEW c \in Caller, Judge(c)
  PROVE  NewsInv'
<1>1. call[c].at = "judge" /\ UNCHANGED <<time, titles, shown, bad, counted, table, cfg>>
  BY DEF Judge, world
<1>2. calls' \in Questions
  BY RecentIsQuestions DEF Judge, Recent, NewsInv, NewsType
<1>3. /\ cache' \in [Symbol -> [verdict : Verdicts, at : Nat]]
      /\ call' \in [Caller -> Reading]
      /\ \A s \in Symbol : Known(s)'
      /\ \A d \in Caller : Grounded(call[d])'
  <2>1. CASE Store(c, "none", "none")
    BY <1>1, <2>1, VerdictKeeps
  <2>2. CASE ByKeyword(c)
    BY <1>1, <2>2, ByKeywordKeeps
  <2>3. CASE Goes(c, "ask") /\ UNCHANGED cache
    <3>1. cache' \in [Symbol -> [verdict : Verdicts, at : Nat]]
      BY <2>3 DEF NewsInv, NewsType
    <3> QED
      BY <1>1, <2>3, <3>1, GoesKeeps
  <2> QED
    BY <2>1, <2>2, <2>3 DEF Judge
<1> QED
  BY <1>1, <1>2, <1>3 DEF NewsInv, NewsType

LEMMA AskKeeps ==
  ASSUME NewsInv, NEW c \in Caller, Ask(c)
  PROVE  NewsInv'
<1>1. /\ call[c].at = "ask" /\ Goes(c, "wait")
      /\ UNCHANGED <<time, titles, shown, cache, bad, cfg>>
  BY DEF Ask, world
<1>2. /\ call' \in [Caller -> Reading]
      /\ \A s \in Symbol : Known(s)'
      /\ \A d \in Caller : Grounded(call[d])'
  BY <1>1, GoesKeeps
<1>3. ASSUME NEW qs \in Questions PROVE Asks(qs) \in Questions
  <2>1. time \in Times
    BY DEF NewsInv, NewsType
  <2> QED
    BY <2>1 DEF Asks, Questions
<1>4. calls' \in Questions
  BY <1>3 DEF Ask, NewsInv, NewsType
<1>5. counted' \in Questions
  BY <1>3 DEF Ask, NewsInv, NewsType
<1>6. table' \in [{Dir[o] : o \in Owner} -> Questions]
  <2> DEFINE D == {Dir[o] : o \in Owner}
  <2>1. table \in [D -> Questions]
    BY DEF NewsInv, NewsType
  <2>2. table' = [table EXCEPT ![Dir[cfg]] = Asks(@)] \/ table' = table
    BY DEF Ask
  <2> HIDE DEF D
  <2>3. table' \in [D -> Questions]
    BY <1>3, <2>1, <2>2
  <2> QED
    BY <2>3 DEF D
<1> QED
  BY <1>1, <1>2, <1>4, <1>5, <1>6 DEF NewsInv, NewsType

LEMMA ReplyKeeps ==
  ASSUME NewsInv, NEW c \in Caller, Reply(c)
  PROVE  NewsInv'
<1>1. call[c].at = "wait" /\ UNCHANGED <<time, titles, shown, counted, table, cfg, calls>>
  BY DEF Reply, world
<1>2. /\ cache' \in [Symbol -> [verdict : Verdicts, at : Nat]]
      /\ call' \in [Caller -> Reading]
      /\ \A s \in Symbol : Known(s)'
      /\ \A d \in Caller : Grounded(call[d])'
  <2>1. CASE Store(c, "block", "ai") /\ bad' = bad \cup {<<call[c].sym, call[c].titles>>}
    <3>1. bad \subseteq bad' /\ <<call[c].sym, call[c].titles>> \in bad'
      BY <2>1
    <3> QED
      BY <1>1, <2>1, <3>1, VerdictKeeps
  <2>2. CASE Store(c, "none", "ai") /\ UNCHANGED bad
    <3>1. bad \subseteq bad'
      BY <2>2
    <3> QED
      BY <1>1, <2>2, <3>1, VerdictKeeps
  <2>3. CASE ByKeyword(c) /\ UNCHANGED bad
    BY <1>1, <2>3, ByKeywordKeeps
  <2> QED
    BY <2>1, <2>2, <2>3 DEF Reply
<1> QED
  BY <1>1, <1>2 DEF NewsInv, NewsType

LEMMA HandedOverKeeps ==
  ASSUME NewsInv, NEW c \in Caller, Answer(c)
  PROVE  NewsInv'
<1>1. UNCHANGED <<time, titles, shown, cache, bad, counted, table, cfg, calls>>
  BY DEF Answer, guard, world
<1>2. Idle \in Reading /\ Grounded(Idle)
  BY DEF Reading, Grounded, Idle
<1>3. /\ call' \in [Caller -> Reading]
      /\ \A s \in Symbol : Known(s)'
      /\ \A d \in Caller : Grounded(call[d])'
  BY <1>1, <1>2, OneMoves DEF Answer
<1> QED
  BY <1>1, <1>3 DEF NewsInv, NewsType

\* What goes on around the guard.
LEMMA ShowKeeps ==
  ASSUME NewsInv, ShowGuard
  PROVE  NewsInv'
<1>1. UNCHANGED <<time, titles, shown, cache, bad, counted, table, call>>
  BY DEF ShowGuard, GetGuard, world
<1>2. Page \in Owner
  BY DEF Owner
<1>3. cfg' \in Owner \cup {Nobody} /\ calls' \in Questions
  BY <1>2, RecentIsQuestions DEF ShowGuard, GetGuard, Recent, NewsInv, NewsType
<1> QED
  BY <1>1, <1>3 DEF NewsInv, NewsType, Known, Grounded, Warranted

LEMMA TickKeeps ==
  ASSUME NewsInv, Tick
  PROVE  NewsInv'
<1>1. UNCHANGED <<titles, cache, bad, table, call, cfg, calls>>
  BY DEF Tick, guard
<1>2. NewsType /\ time \in Nat /\ time' = time + 1 /\ time' \in Times
  BY TimeIsInt DEF Tick, Times, NewsInv, NewsType
<1>3. shown' \in [Symbol -> [Titles -> Int]]
  BY <1>2 DEF Tick, NewsType
<1>4. ASSUME NEW s \in Symbol
      PROVE  /\ shown'[s][titles[s]] = time + 1
             /\ \A t \in Titles : shown'[s][t] >= shown[s][t] /\ shown'[s][t] <= time + 1
  <2>1. shown'[s] = [shown[s] EXCEPT ![titles[s]] = time + 1]
    BY DEF Tick
  <2>2. /\ shown[s] \in [Titles -> Int] /\ titles[s] \in Titles
        /\ \A t \in Titles : shown[s][t] <= time
    BY <1>2 DEF NewsType, NewsInv, Known
  <2> QED
    BY <1>2, <2>1, <2>2
<1>5. counted' \in Questions
  BY <1>2, RecentIsQuestions DEF Tick, NewsType
<1>6. ASSUME NEW s \in Symbol PROVE Known(s)'
  <2>1. /\ Known(s) /\ cache[s].verdict \in Verdicts /\ cache[s].at \in Nat
        /\ shown[s] \in [Titles -> Int]
    BY <1>2 DEF NewsInv, NewsType
  <2>2. shown'[s] \in [Titles -> Int]
    BY <1>3
  <2> QED
    BY <1>1, <1>2, <1>4, <2>1, <2>2, VerdictData DEF Known, Warranted
<1>7. ASSUME NEW d \in Caller PROVE Grounded(call[d])'
  <2> DEFINE r == call[d]
  <2>1. Grounded(r) /\ r \in Reading
    BY <1>2 DEF NewsInv, NewsType
  <2>2. /\ r.at = "fetch" => r.now \in Nat
        /\ r.at \in {"judge", "ask", "wait"} =>
              r.now \in Nat /\ r.sym \in Symbol /\ r.titles \in Titles
        /\ r.at = "answer" => r.now \in Nat /\ r.sym \in Symbol /\ r.verdict \in Verdicts
    BY <2>1, ReadingData DEF Fetching, Judging
  <2>3. \A s \in Symbol, t \in Titles : shown'[s][t] \in Int /\ shown[s][t] \in Int
    BY <1>2, <1>3 DEF NewsType
  <2>4. TTL \in Nat
    BY TimeIsInt
  <2>5. r' = r
    BY <1>1
  <2> HIDE DEF r
  <2>6. Grounded(r)'
    BY <1>1, <1>2, <1>4, <2>1, <2>2, <2>3, <2>4, <2>5, VerdictData DEF Grounded, Warranted
  <2> QED
    BY <2>6 DEF r
<1> QED
  BY <1>1, <1>2, <1>3, <1>5, <1>6, <1>7 DEF NewsInv, NewsType

LEMMA HeadlinesKeep ==
  ASSUME NewsInv, NEW s \in Symbol, NEW t \in Titles, News(s, t)
  PROVE  NewsInv'
<1>1. UNCHANGED <<time, cache, bad, table, call, cfg, calls, counted>>
  BY DEF News, guard
<1>2. NewsType /\ time \in Nat
  BY TimeIsInt DEF NewsInv, NewsType
<1>3. titles' \in [Symbol -> Titles] /\ titles'[s] = t
  BY <1>2 DEF News, NewsType
<1>4. shown' = [shown EXCEPT ![s][t] = time]
  BY DEF News
<1>5. /\ shown' \in [Symbol -> [Titles -> Int]] /\ shown'[s][t] = time
      /\ \A x \in Symbol : x # s => shown'[x] = shown[x] /\ titles'[x] = titles[x]
      /\ \A u \in Titles : u # t => shown'[s][u] = shown[s][u]
  <2>1. shown \in [Symbol -> [Titles -> Int]] /\ titles \in [Symbol -> Titles]
    BY <1>2 DEF NewsType
  <2>2. titles' = [titles EXCEPT ![s] = t]
    BY DEF News
  <2> QED
    BY <1>2, <1>4, <2>1, <2>2
<1>6. ASSUME NEW x \in Symbol, NEW u \in Titles
      PROVE  /\ shown[x][u] \in Int /\ shown'[x][u] \in Int
             /\ shown'[x][u] >= shown[x][u] /\ shown'[x][u] <= time
  <2>1. shown[x][u] \in Int /\ shown'[x][u] \in Int /\ shown[x][u] <= time
    BY <1>2, <1>5 DEF NewsInv, NewsType, Known
  <2>2. shown'[x][u] = shown[x][u] \/ shown'[x][u] = time
    BY <1>5
  <2> QED
    BY <1>2, <2>1, <2>2
<1>7. ASSUME NEW x \in Symbol PROVE shown'[x][titles'[x]] = time
  BY <1>3, <1>5 DEF NewsInv, Known
<1>8. ASSUME NEW x \in Symbol PROVE Known(x)'
  <2>1. Known(x) /\ cache[x].verdict \in Verdicts /\ cache[x].at \in Nat
    BY <1>2 DEF NewsInv, NewsType
  <2>2. cache[x].verdict # Unknown => cache[x].verdict.digest \in Titles
    BY <2>1, VerdictData
  <2> QED
    BY <1>1, <1>2, <1>6, <1>7, <2>1, <2>2 DEF Known, Warranted
<1>9. ASSUME NEW d \in Caller PROVE Grounded(call[d])'
  <2> DEFINE r == call[d]
  <2>1. Grounded(r) /\ r \in Reading
    BY <1>2 DEF NewsInv, NewsType
  <2>2. /\ r.at \in {"judge", "ask", "wait"} =>
              r.now \in Nat /\ r.sym \in Symbol /\ r.titles \in Titles
        /\ r.at = "answer" => r.now \in Nat /\ r.sym \in Symbol /\ r.verdict \in Verdicts
    BY <2>1, ReadingData DEF Judging
  <2>3. TTL \in Nat /\ r' = r
    BY <1>1, TimeIsInt
  <2> HIDE DEF r
  <2>4. Grounded(r)'
    BY <1>1, <1>6, <2>1, <2>2, <2>3, VerdictData DEF Grounded, Warranted
  <2> QED
    BY <2>4 DEF r
<1> QED
  BY <1>1, <1>2, <1>3, <1>5, <1>8, <1>9 DEF NewsInv, NewsType

LEMMA CrashKeeps ==
  ASSUME NewsInv, Crash
  PROVE  NewsInv'
<1>1. /\ UNCHANGED <<table, time, titles, shown, counted, bad>>
      /\ cfg' = Nobody /\ calls' = NoQuestions /\ cache' = NothingCached
      /\ call' = [c \in Caller |-> Idle]
  BY DEF Crash
<1>2. Idle \in Reading /\ Idle.at = "idle"
  BY DEF Reading, Idle
<1>3. cache' \in [Symbol -> [verdict : Verdicts, at : Nat]]
  BY <1>1, VerdictData DEF NothingCached
<1>4. calls' \in Questions
  BY <1>1 DEF NoQuestions, Questions
<1>5. ASSUME NEW s \in Symbol PROVE Known(s)'
  <2>1. Known(s) /\ cache'[s].verdict = Unknown
    BY <1>1 DEF NewsInv, NothingCached
  <2> QED
    BY <1>1, <2>1, VerdictData DEF Known, Warranted
<1>6. ASSUME NEW d \in Caller PROVE Grounded(call[d])'
  BY <1>1, <1>2 DEF Grounded
<1> QED
  BY <1>1, <1>2, <1>3, <1>4, <1>5, <1>6 DEF NewsInv, NewsType

LEMMA NewsInit ==
  ASSUME GuardInit
  PROVE  NewsInv
<1>1. time = 0 /\ time \in Times /\ titles \in [Symbol -> Titles]
  BY TimeIsInt DEF GuardInit, Times
<1>2. Idle \in Reading /\ Idle.at = "idle"
  BY DEF Reading, Idle
<1>3. cache \in [Symbol -> [verdict : Verdicts, at : Nat]]
  BY VerdictData DEF GuardInit, NothingCached
<1>4. /\ calls \in Questions /\ counted \in Questions
      /\ table \in [{Dir[o] : o \in Owner} -> Questions]
  BY DEF GuardInit, NoQuestions, Questions
<1>5. shown \in [Symbol -> [Titles -> Int]]
  BY DEF GuardInit, Never
<1>6. ASSUME NEW s \in Symbol PROVE Known(s)
  <2>1. cache[s].verdict = Unknown
    BY DEF GuardInit, NothingCached
  <2>2. shown[s] = [t \in Titles |-> IF t = titles[s] THEN 0 ELSE -1]
    BY DEF GuardInit, Never
  <2> QED
    BY <1>1, <2>1, <2>2, VerdictData DEF Known, Warranted
<1>7. ASSUME NEW d \in Caller PROVE Grounded(call[d])
  BY <1>2 DEF Grounded, GuardInit
<1> QED
  BY <1>1, <1>2, <1>3, <1>4, <1>5, <1>6, <1>7 DEF NewsInv, NewsType, GuardInit

LEMMA NewsNext ==
  ASSUME NewsInv, [GuardNext]_guardVars
  PROVE  NewsInv'
<1>1. CASE UNCHANGED guardVars
  BY <1>1 DEF guardVars, guard, world, NewsInv, NewsType, Known, Grounded, Warranted
<1>2. CASE GuardNext
  BY <1>2, BeginKeeps, LookupKeeps, FetchKeeps, JudgeKeeps, AskKeeps, ReplyKeeps, HandedOverKeeps,
     HeadlinesKeep, ShowKeeps, TickKeeps, CrashKeeps DEF GuardNext
<1> QED
  BY <1>1, <1>2

(* NewsInv holds of every state of the guard, its threads and what they were told. *)
THEOREM NewsInvHolds == GuardSpec => []NewsInv
<1>1. GuardInit => NewsInv
  BY NewsInit
<1>2. NewsInv /\ [GuardNext]_guardVars => NewsInv'
  BY NewsNext
<1> QED
  BY <1>1, <1>2, PTL DEF GuardSpec

\* An engine never buys or refrains on news older than the time to live of a verdict
\* (news_guard.py: evaluate and the renewal of what is cached).
THEOREM AnswersRecent == GuardSpec => []AnswersAreRecent
<1>1. NewsInv => AnswersAreRecent
  BY DEF NewsInv, Grounded, AnswersAreRecent
<1> QED
  BY <1>1, NewsInvHolds, PTL

\* A symbol is refused only for headlines the model called bad, or for a risk word where
\* somebody wants keywords to count: whatever fails lets the purchase pass.
THEOREM RefusalsFounded == GuardSpec => []OnlyBadNewsRefuses
<1>1. NewsInv => OnlyBadNewsRefuses
  BY DEF NewsInv, Grounded, Warranted, Refused, OnlyBadNewsRefuses
<1> QED
  BY <1>1, NewsInvHolds, PTL

\* The limit of the day's questions, where everybody keeps one database.
Asking == {c \in Caller : call[c].at = "ask"}
Book == table[Dir[Page]]
Kept == IF cfg = Nobody THEN Book ELSE calls

CapInv ==
    /\ \A t \in Times : /\ counted[t] <= Recent(Book)[t]
                          /\ Recent(Book)[t] <= Recent(Kept)[t]
    /\ cfg = Nobody => Asking = {}
    /\ Cap # 0 =>
          Count(Recent(Kept)) + Cardinality(Asking) <= Cap + Cardinality(Caller) - 1

OneBook ==
    /\ IsFiniteSet(Caller)
    /\ \A o, p \in Owner : Dir[o] = Dir[p]

\* How many questions.
LEMMA Counted ==
  ASSUME NEW qs \in Questions
  PROVE  /\ IsFiniteSet(Times) /\ \A t \in Times : qs[t] \in Int
         /\ Count(qs) = SumFunctionOnSet(qs, Times) /\ Count(qs) \in Int
<1>1. IsFiniteSet(Times)
  BY TimeIsInt, FS_Interval DEF Times
<1>2. DOMAIN qs = Times /\ \A t \in Times : qs[t] \in Int
  BY DEF Questions
<1>3. SumFunction(qs) = SumFunctionOnSet(qs, DOMAIN qs)
  BY DEF SumFunction, SumFunctionOnSet, FoldFunctionOnSet, MapThenFoldSet
<1>4. SumFunctionOnSet(qs, Times) \in Int
  BY <1>1, <1>2, SumType
<1> QED
  BY <1>1, <1>2, <1>3, <1>4 DEF Count

LEMMA FewerCount ==
  ASSUME NEW p \in Questions, NEW q \in Questions,
         \A t \in Times : p[t] <= q[t]
  PROVE  Count(p) <= Count(q)
BY Counted, SumMonotone

LEMMA OneMoreCounts ==
  ASSUME time \in Times, NEW q \in Questions
  PROVE  /\ Asks(q) \in Questions /\ Asks(q)[time] = q[time] + 1
         /\ \A t \in Times : t # time => Asks(q)[t] = q[t]
         /\ Count(Asks(q)) = Count(q) + 1
<1>1. /\ Asks(q) \in Questions /\ Asks(q)[time] = q[time] + 1
      /\ \A t \in Times : t # time => Asks(q)[t] = q[t]
  BY DEF Asks, Questions
<1> DEFINE a == Asks(q)
<1>2. /\ a \in Questions /\ a[time] = q[time] + 1
      /\ \A t \in Times \ {time} : a[t] = q[t]
  BY <1>1
<1> HIDE DEF a
<1>3. SumFunctionOnSet(a, Times) = SumFunctionOnSet(q, Times) + 1
  <2>1. IsFiniteSet(Times) /\ \A t \in Times : q[t] \in Int
    BY Counted
  <2>2. 1 \in Int
    OBVIOUS
  <2> QED
    BY <1>2, <2>1, <2>2, SumRaise
<1>4. Count(a) = Count(q) + 1
  BY <1>2, <1>3, Counted
<1> QED
  BY <1>1, <1>4 DEF a

LEMMA SinceData ==
  ASSUME NEW q \in Questions, NEW first
  PROVE  /\ Since(first, q) \in Questions
         /\ \A t \in Times : Since(first, q)[t] = IF t >= first THEN q[t] ELSE 0
         /\ Since(first, Since(first, q)) = Since(first, q)
BY DEF Questions, Since

LEMMA BookType ==
  ASSUME OneBook, NewsInv
  PROVE  /\ Book \in Questions /\ Kept \in Questions
         /\ counted \in Questions /\ calls \in Questions
         /\ time \in Times /\ time \in Nat /\ DayLength \in Nat
         /\ Recent(Book) \in Questions /\ Recent(Kept) \in Questions
         /\ \A o \in Owner : table[Dir[o]] = Book
<1>1. Page \in Owner
  BY DEF Owner
<1>2. Dir[Page] \in {Dir[o] : o \in Owner}
  BY <1>1
<1>3. Book \in Questions
  BY <1>2 DEF Book, NewsInv, NewsType
<1>4. /\ Kept \in Questions /\ counted \in Questions /\ calls \in Questions
      /\ time \in Times
  BY <1>3 DEF Kept, NewsInv, NewsType
<1>5. time \in Nat /\ DayLength \in Nat
  BY <1>4, TimeIsInt
<1>6. \A o \in Owner : table[Dir[o]] = Book
  BY <1>1 DEF OneBook, Book
<1> QED
  BY <1>3, <1>4, <1>5, <1>6, SinceData DEF Recent

LEMMA AskingCounted ==
  ASSUME OneBook
  PROVE  /\ IsFiniteSet(Asking) /\ Cardinality(Asking) \in Nat
         /\ Cardinality(Caller) \in Nat /\ Cardinality(Asking) <= Cardinality(Caller)
<1>1. Asking \subseteq Caller
  BY DEF Asking
<1> QED
  BY <1>1, FS_Subset, FS_CardinalityType DEF OneBook

\* Nobody asks, or comes to ask, and what is counted stays.
LEMMA CountKept ==
  ASSUME OneBook, NewsInv, CapInv, UNCHANGED <<time, counted, table>>, Asking' \subseteq Asking,
         Recent(Kept)' = Recent(Kept), cfg' = Nobody => cfg = Nobody
  PROVE  CapInv'
<1>1. Book' = Book /\ Recent(Book)' = Recent(Book)
  BY DEF Book, Recent, Since
<1>2. /\ Cardinality(Asking') \in Nat /\ Cardinality(Asking) \in Nat
      /\ Cardinality(Asking') <= Cardinality(Asking)
  BY AskingCounted, FS_Subset, FS_CardinalityType
<1>3. Count(Recent(Kept)) \in Int /\ Cap \in Nat /\ Cardinality(Caller) \in Nat
  BY BookType, Counted, AskingCounted, GuardAssumption DEF OneBook, GuardAssumption
<1>4. cfg' = Nobody => Asking' = {}
  BY DEF CapInv
<1>5. Cap # 0 =>
         Count(Recent(Kept)') + Cardinality(Asking') <= Cap + Cardinality(Caller) - 1
  BY <1>2, <1>3 DEF CapInv
<1>6. \A t \in Times : counted'[t] <= Recent(Book)'[t] /\ Recent(Book)'[t] <= Recent(Kept)'[t]
  BY <1>1 DEF CapInv
<1> HIDE DEF Asking, Kept, Book, Recent
<1> QED
  BY <1>4, <1>5, <1>6 DEF CapInv

\* The guard, and what is counted, when somebody comes with his settings.
LEMMA ComingKeeps ==
  ASSUME OneBook, NewsInv, NEW o \in Owner, GetGuard(o), UNCHANGED time
  PROVE  Recent(Kept)' = Recent(Kept) /\ table' = table /\ cfg' # Nobody
<1>1. o # Nobody
  BY GuardAssumption DEF OneBook, GuardAssumption, Owner, Caller, Page, Nobody
<1>2. cfg' = o /\ Kept' = calls' /\ table' = table
  BY <1>1 DEF GetGuard, Kept
<1>3. CASE cfg = Nobody
  <2>1. calls' = Recent(Book) /\ Kept = Book
    BY <1>3, BookType DEF GetGuard, Kept
  <2>2. Recent(Recent(Book)) = Recent(Book)
    BY BookType, SinceData DEF Recent
  <2>3. Recent(Kept)' = Since(time - DayLength, Kept')
    BY DEF Recent
  <2> QED
    BY <1>1, <1>2, <2>1, <2>2, <2>3 DEF Recent
<1>4. CASE cfg # Nobody
  <2>1. Kept' = Kept
    BY <1>2, <1>4 DEF GetGuard, Kept
  <2> QED
    BY <1>1, <1>2, <2>1 DEF Recent
<1> QED
  BY <1>3, <1>4

LEMMA BeginCounts ==
  ASSUME OneBook, NewsInv, CapInv, NEW c \in Caller, NEW s \in Symbol, Begin(c, s)
  PROVE  CapInv'
<1>1. UNCHANGED <<time, counted>> /\ Asking' \subseteq Asking
  <2>1. call \in [Caller -> Reading]
    BY DEF NewsInv, NewsType
  <2> QED
    BY <2>1 DEF Begin, world, Asking
<1>2. CASE c \in Engine
  <2>1. c \in Owner /\ GetGuard(c)
    BY <1>2 DEF Begin, Owner
  <2> QED
    BY <1>1, <2>1, ComingKeeps, CountKept
<1>3. CASE c \notin Engine
  <2>1. UNCHANGED <<cfg, calls, table>>
    BY <1>3 DEF Begin, guard
  <2>2. Recent(Kept)' = Recent(Kept)
    BY <1>1, <2>1 DEF Recent, Kept, Book
  <2> QED
    BY <1>1, <2>1, <2>2, CountKept
<1> QED
  BY <1>2, <1>3

\* A step that leaves what is counted alone.
LEMMA QuietStep ==
  ASSUME OneBook, NewsInv, CapInv, UNCHANGED <<time, counted, table, cfg, calls>>,
         Asking' \subseteq Asking
  PROVE  CapInv'
<1>1. Recent(Kept)' = Recent(Kept)
  BY DEF Recent, Kept, Book
<1> QED
  BY <1>1, CountKept

LEMMA StoreAsksNothing ==
  ASSUME NewsInv, NEW c \in Caller, call[c].at \in {"judge", "wait"},
         NEW level \in {"block", "none"}, NEW source \in {"ai", "keyword", "none"},
         Store(c, level, source)
  PROVE  Asking' \subseteq Asking
<1>1. PICK s \in Symbol, v \in Verdicts, r \in Reading : Replaces(c, level, source, s, v, r)
  BY StoreData DEF NewsInv
<1>2. call'[c].at = "answer"
  BY <1>1 DEF Replaces
<1>3. ASSUME NEW d \in Caller, d # c PROVE call'[d].at = call[d].at
  BY <1>1, <1>3 DEF Replaces, LetsGo
<1> QED
  BY <1>2, <1>3 DEF Asking

LEMMA KeywordAsksNothing ==
  ASSUME NewsInv, NEW c \in Caller, call[c].at \in {"judge", "wait"}, ByKeyword(c)
  PROVE  Asking' \subseteq Asking
<1>1. Store(c, "block", "keyword") \/ Store(c, "none", "keyword")
  BY DEF ByKeyword
<1> QED
  BY <1>1, StoreAsksNothing

LEMMA QuietCallers ==
  ASSUME OneBook, NewsInv, CapInv, NEW c \in Caller,
         LookInCache(c) \/ Fetch(c) \/ Reply(c) \/ Answer(c)
  PROVE  CapInv'
<1>1. UNCHANGED <<time, counted, table, cfg, calls>>
  BY DEF LookInCache, Fetch, Reply, Answer, guard, world
<1>2. call \in [Caller -> Reading]
  BY DEF NewsInv, NewsType
<1>3. Asking' \subseteq Asking
  <2>1. CASE LookInCache(c)
    BY <1>2, <2>1 DEF LookInCache, Concludes, Asking
  <2>2. CASE Fetch(c)
    BY <1>2, <2>2 DEF Fetch, Extend, Concludes, Asking
  <2>3. CASE Reply(c)
    BY <2>3, StoreAsksNothing, KeywordAsksNothing DEF Reply
  <2>4. CASE Answer(c)
    BY <1>2, <2>4 DEF Answer, Idle, Asking
  <2> QED
    BY <2>1, <2>2, <2>3, <2>4
<1> QED
  BY <1>1, <1>3, QuietStep

LEMMA JudgeCounts ==
  ASSUME OneBook, NewsInv, CapInv, NEW c \in Caller, Judge(c)
  PROVE  CapInv'
<1>1. UNCHANGED <<time, counted, table, cfg>> /\ call[c].at = "judge"
  BY DEF Judge, world
<1>2. call \in [Caller -> Reading]
  BY DEF NewsInv, NewsType
<1>3. CASE Store(c, "none", "none") /\ UNCHANGED calls
  BY <1>1, <1>3, StoreAsksNothing, QuietStep
<1>4. CASE ByKeyword(c) /\ UNCHANGED calls
  BY <1>1, <1>4, KeywordAsksNothing, QuietStep
<1>5. CASE /\ AiEnabled /\ calls' = Recent(calls)
           /\ ByKeyword(c) \/ (~OverCap /\ Goes(c, "ask"))
  <2>1. cfg # Nobody
    BY <1>5, GuardAssumption DEF OneBook, GuardAssumption, AiEnabled, Owner, Caller, Page, Nobody
  <2>2. Kept = calls /\ Kept' = Recent(calls) /\ cfg' # Nobody
    BY <1>1, <1>5, <2>1 DEF Kept
  <2>3. Recent(Kept)' = Recent(Kept)
    <3>1. Recent(Kept)' = Since(time - DayLength, Kept')
      BY <1>1 DEF Recent
    <3>2. Recent(Recent(calls)) = Recent(calls)
      BY BookType, SinceData DEF Recent
    <3> QED
      BY <2>2, <3>1, <3>2 DEF Recent
  <2>4. CASE ByKeyword(c)
    BY <1>1, <2>2, <2>3, <2>4, KeywordAsksNothing, CountKept
  <2>5. CASE ~OverCap /\ Goes(c, "ask")
    <3> DEFINE n == Count(Recent(Kept))
    <3>1. Cap \in Nat /\ n \in Int /\ (Cap # 0 => n < Cap)
      BY <2>2, <2>5, BookType, Counted, GuardAssumption DEF OverCap, OneBook, GuardAssumption
    <3>2. /\ Cardinality(Asking') \in Nat /\ Cardinality(Caller) \in Nat
          /\ Cardinality(Asking') <= Cardinality(Caller)
      <4>1. Asking' \subseteq Caller
        BY DEF Asking
      <4> QED
        BY <4>1, FS_Subset, FS_CardinalityType DEF OneBook
    <3>3. n' = n
      BY <2>3
    <3> HIDE DEF n
    <3>4. Cap # 0 => n' + Cardinality(Asking') <= Cap + Cardinality(Caller) - 1
      BY <3>1, <3>2, <3>3
    <3>5. \A t \in Times : /\ counted'[t] <= Recent(Book)'[t]
                             /\ Recent(Book)'[t] <= Recent(Kept)'[t]
      <4>1. Recent(Book)' = Recent(Book)
        BY <1>1 DEF Recent, Book
      <4> QED
        BY <1>1, <2>3, <4>1 DEF CapInv
    <3> QED
      BY <2>2, <3>4, <3>5 DEF CapInv, n
  <2> QED
    BY <1>5, <2>4, <2>5
<1> QED
  <2>1. CASE OverCap
    <3>1. \/ Store(c, "none", "none") /\ UNCHANGED calls
          \/ ByKeyword(c) /\ UNCHANGED calls
          \/ AiEnabled /\ calls' = Recent(calls) /\ ByKeyword(c)
      BY <2>1 DEF Judge
    <3>2. CASE AiEnabled /\ calls' = Recent(calls) /\ ByKeyword(c)
      BY <1>5, <3>2
    <3> QED
      BY <1>3, <1>4, <3>1, <3>2
  <2>2. CASE ~OverCap
    BY <1>3, <1>4, <1>5, <2>2 DEF Judge
  <2> QED
    BY <2>1, <2>2

LEMMA AskCounts ==
  ASSUME OneBook, NewsInv, CapInv, NEW c \in Caller, Ask(c)
  PROVE  CapInv'
<1>1. /\ UNCHANGED <<time, cfg>> /\ call[c].at = "ask" /\ Goes(c, "wait")
      /\ calls' = Asks(calls)
  BY DEF Ask, world
<1>2. call \in [Caller -> Reading] /\ c \in Asking
  BY <1>1 DEF NewsInv, NewsType, Asking
<1>3. cfg # Nobody /\ cfg \in Owner
  BY <1>2 DEF CapInv, NewsInv, NewsType
<1>4. Kept = calls /\ Kept' = calls'
  BY <1>1, <1>3 DEF Kept
<1>5. /\ Book \in Questions /\ calls \in Questions /\ counted \in Questions
      /\ time \in Times /\ time \in Nat /\ DayLength \in Nat /\ DayLength > 0
      /\ Recent(calls) \in Questions
  BY <1>4, BookType, TimeIsInt DEF OneBook
<1>6. Asking' = Asking \ {c}
  <2>1. call'[c].at = "wait" /\ \A d \in Caller : d # c => call'[d] = call[d]
    <3>1. call[c] \in Judging
      BY <1>1, <1>2, ReadingData
    <3>2. call'[c] = [call[c] EXCEPT !.at = "wait"]
      BY <1>1, <1>2 DEF Goes
    <3> QED
      BY <1>1, <1>2, <3>1, <3>2, Moved DEF Goes
  <2> QED
    BY <1>2, <2>1 DEF Asking
<1>7. /\ Cardinality(Asking') = Cardinality(Asking) - 1
      /\ Cardinality(Asking') \in Nat /\ Cardinality(Asking) \in Nat
      /\ Cardinality(Caller) \in Nat
  BY <1>2, <1>6, AskingCounted, FS_RemoveElement, FS_CardinalityType
\* The question joins the others of the day.
<1>8. Recent(calls)' = Asks(Recent(calls))
  <2>1. Recent(calls)' = Since(time - DayLength, Asks(calls))
    BY <1>1 DEF Recent
  <2>2. Asks(calls) \in Questions /\ Asks(Recent(calls)) \in Questions
    BY <1>5, OneMoreCounts DEF OneBook
  <2>3. Recent(calls)' \in Questions
    BY <2>1, <2>2, SinceData
  <2>4. ASSUME NEW t \in Times
        PROVE  Recent(calls)'[t] = Asks(Recent(calls))[t]
    <3>1. /\ Recent(calls)'[t] = IF t >= time - DayLength THEN Asks(calls)[t] ELSE 0
          /\ Recent(calls)[t] = IF t >= time - DayLength THEN calls[t] ELSE 0
      BY <1>5, <2>1, <2>2, SinceData DEF Recent
    <3>2. /\ Asks(calls)[t] = IF t = time THEN calls[t] + 1 ELSE calls[t]
          /\ Asks(Recent(calls))[t] =
                IF t = time THEN Recent(calls)[t] + 1 ELSE Recent(calls)[t]
      BY <1>5, OneMoreCounts DEF OneBook
    <3> QED
      BY <1>5, <3>1, <3>2
  <2> QED
    BY <2>2, <2>3, <2>4 DEF Questions
<1>9. Count(Recent(Kept)') = Count(Recent(Kept)) + 1
  BY <1>4, <1>5, <1>8, OneMoreCounts DEF OneBook
<1>10. Count(Recent(Kept)) \in Int /\ Cap \in Nat
  BY <1>4, <1>5, Counted, GuardAssumption DEF OneBook, GuardAssumption
<1>11. Cap # 0 =>
         Count(Recent(Kept)') + Cardinality(Asking') <= Cap + Cardinality(Caller) - 1
  BY <1>7, <1>9, <1>10 DEF CapInv
<1>12. \/ Book' = Asks(Book) /\ counted' = Asks(counted)
       \/ Book' = Book /\ counted' = counted
  <2>1. Dir[cfg] = Dir[Page] /\ Dir[Page] \in {Dir[o] : o \in Owner}
    BY <1>3 DEF OneBook, Owner
  <2>2. table \in [{Dir[o] : o \in Owner} -> Questions]
    BY DEF NewsInv, NewsType
  <2> QED
    BY <2>1, <2>2 DEF Ask, Book
<1>13. ASSUME NEW t \in Times
       PROVE  /\ counted'[t] <= Recent(Book)'[t]
              /\ Recent(Book)'[t] <= Recent(Kept)'[t]
  <2> counted[t] \in Nat /\ Book[t] \in Nat /\ calls[t] \in Nat /\ t \in Nat
    BY <1>5 DEF Questions, Times
  <2>1. /\ Recent(Book)[t] = IF t >= time - DayLength THEN Book[t] ELSE 0
        /\ Recent(calls)[t] = IF t >= time - DayLength THEN calls[t] ELSE 0
    BY <1>5, SinceData DEF Recent
  <2>2. counted[t] <= Recent(Book)[t] /\ Recent(Book)[t] <= Recent(calls)[t]
    BY <1>4 DEF CapInv
  <2>3. /\ Recent(Book)'[t] = IF t >= time - DayLength THEN Book'[t] ELSE 0
        /\ Recent(Kept)'[t] = IF t >= time - DayLength THEN calls'[t] ELSE 0
    BY <1>1, <1>4 DEF Recent, Since
  <2>4. /\ calls'[t] = IF t = time THEN calls[t] + 1 ELSE calls[t]
        /\ \/ /\ Book'[t] = IF t = time THEN Book[t] + 1 ELSE Book[t]
              /\ counted'[t] = IF t = time THEN counted[t] + 1 ELSE counted[t]
           \/ Book'[t] = Book[t] /\ counted'[t] = counted[t]
    BY <1>1, <1>5, <1>12, OneMoreCounts DEF OneBook
  <2> QED
    BY <1>5, <2>1, <2>2, <2>3, <2>4
<1> HIDE DEF Asking, Kept, Book
<1> QED
  BY <1>1, <1>3, <1>11, <1>13 DEF CapInv

LEMMA TickCounts ==
  ASSUME OneBook, NewsInv, CapInv, Tick
  PROVE  CapInv'
<1>1. /\ UNCHANGED <<cfg, calls, table, call>> /\ time' = time + 1
      /\ counted' = Since(time + 1 - DayLength, counted)
  BY DEF Tick, guard
<1>2. Kept' = Kept /\ Book' = Book /\ Asking' = Asking
  BY <1>1 DEF Kept, Book, Asking
<1>3. /\ Book \in Questions /\ Kept \in Questions /\ counted \in Questions
      /\ time \in Nat /\ DayLength \in Nat
  BY BookType
<1>4. /\ Recent(Book)' = Since(time + 1 - DayLength, Book)
      /\ Recent(Kept)' = Since(time + 1 - DayLength, Kept)
  <2>1. time' - DayLength = time + 1 - DayLength
    BY <1>1, <1>3
  <2>2. /\ Recent(Book)' = Since(time' - DayLength, Book')
        /\ Recent(Kept)' = Since(time' - DayLength, Kept')
    BY DEF Recent
  <2> QED
    BY <1>2, <2>1, <2>2
<1>5. ASSUME NEW t \in Times
      PROVE  /\ counted'[t] <= Recent(Book)'[t]
             /\ Recent(Book)'[t] <= Recent(Kept)'[t]
             /\ Recent(Kept)'[t] <= Recent(Kept)[t]
  <2>1. /\ counted[t] \in Nat /\ Book[t] \in Nat /\ Kept[t] \in Nat /\ t \in Nat
        /\ counted[t] <= Recent(Book)[t] /\ Recent(Book)[t] <= Recent(Kept)[t]
    BY <1>3 DEF CapInv, Questions, Times
  <2>2. /\ Recent(Book)[t] = IF t >= time - DayLength THEN Book[t] ELSE 0
        /\ Recent(Kept)[t] = IF t >= time - DayLength THEN Kept[t] ELSE 0
        /\ Recent(Book)'[t] = IF t >= time + 1 - DayLength THEN Book[t] ELSE 0
        /\ Recent(Kept)'[t] = IF t >= time + 1 - DayLength THEN Kept[t] ELSE 0
        /\ counted'[t] = IF t >= time + 1 - DayLength THEN counted[t] ELSE 0
    BY <1>1, <1>3, <1>4, SinceData DEF Recent
  <2> QED
    BY <1>3, <2>1, <2>2
<1>6. Recent(Kept)' \in Questions /\ Recent(Kept) \in Questions
  BY <1>3, <1>4, SinceData DEF Recent
<1>7. /\ Count(Recent(Kept)') <= Count(Recent(Kept))
      /\ Count(Recent(Kept)') \in Int /\ Count(Recent(Kept)) \in Int
  BY <1>5, <1>6, FewerCount, Counted DEF OneBook
<1>8. Cardinality(Asking) \in Nat /\ Cardinality(Caller) \in Nat /\ Cap \in Nat
  BY AskingCounted, GuardAssumption DEF OneBook, GuardAssumption
<1>9. Cap # 0 =>
         Count(Recent(Kept)') + Cardinality(Asking') <= Cap + Cardinality(Caller) - 1
  BY <1>2, <1>7, <1>8 DEF CapInv
<1> HIDE DEF Asking, Kept, Book
<1> QED
  BY <1>1, <1>2, <1>5, <1>9 DEF CapInv

LEMMA CrashCounts ==
  ASSUME OneBook, NewsInv, CapInv, Crash
  PROVE  CapInv'
<1>1. /\ UNCHANGED <<table, time, counted>> /\ cfg' = Nobody
      /\ call' = [c \in Caller |-> Idle]
  BY DEF Crash
<1>2. Book' = Book /\ Kept' = Book /\ Recent(Book)' = Recent(Book)
  BY <1>1 DEF Book, Kept, Recent
<1>3. Asking' = {}
  BY <1>1 DEF Asking, Idle
<1>4. Recent(Kept)' = Recent(Book)
  <2>1. Recent(Kept)' = Since(time' - DayLength, Kept')
    BY DEF Recent
  <2> QED
    BY <1>1, <1>2, <2>1 DEF Recent
<1>5. /\ Count(Recent(Book)) <= Count(Recent(Kept))
      /\ Count(Recent(Book)) \in Int /\ Count(Recent(Kept)) \in Int
  BY BookType, FewerCount, Counted DEF OneBook, CapInv
<1>6. /\ Cardinality(Asking) \in Nat /\ Cardinality(Caller) \in Nat /\ Cap \in Nat
      /\ Cardinality(Asking') = 0
  BY <1>3, AskingCounted, FS_EmptySet, GuardAssumption DEF OneBook, GuardAssumption
<1>7. Cap # 0 =>
         Count(Recent(Kept)') + Cardinality(Asking') <= Cap + Cardinality(Caller) - 1
  BY <1>4, <1>5, <1>6 DEF CapInv
<1>8. ASSUME NEW t \in Times
      PROVE  /\ counted'[t] <= Recent(Book)'[t]
             /\ Recent(Book)'[t] <= Recent(Kept)'[t]
  <2>1. counted[t] <= Recent(Book)[t]
    BY DEF CapInv
  <2>2. Recent(Book)[t] \in Nat
    BY BookType DEF Questions
  <2> QED
    BY <1>1, <1>2, <1>4, <2>1, <2>2
<1> HIDE DEF Asking, Kept, Book
<1> QED
  BY <1>3, <1>7, <1>8 DEF CapInv

LEMMA CapInit ==
  ASSUME OneBook, GuardInit
  PROVE  CapInv
<1>1. /\ cfg = Nobody /\ counted = NoQuestions /\ time = 0
      /\ table = [d \in {Dir[o] : o \in Owner} |-> NoQuestions]
      /\ call = [c \in Caller |-> Idle]
  BY DEF GuardInit
<1>2. NoQuestions \in Questions /\ Book = NoQuestions /\ Kept = Book
  BY <1>1 DEF Book, Kept, NoQuestions, Questions, Owner
<1>3. Recent(Book) = NoQuestions
  BY <1>1, <1>2 DEF Recent, Since, NoQuestions
<1>4. Asking = {}
  BY <1>1 DEF Asking, Idle
<1>5. Count(NoQuestions) = 0
  <2>1. Count(NoQuestions) = SumFunctionOnSet(NoQuestions, Times) /\ IsFiniteSet(Times)
    BY <1>2, Counted DEF OneBook
  <2>2. \A t \in Times : NoQuestions[t] = 0
    BY DEF NoQuestions
  <2> QED
    BY <2>1, <2>2, SumOfZeroes
<1>6. Cap \in Nat /\ Cardinality(Caller) \in Nat /\ Cardinality(Asking) = 0
  BY <1>4, AskingCounted, FS_EmptySet, GuardAssumption DEF OneBook, GuardAssumption
<1>7. Cap # 0 =>
         Count(Recent(Kept)) + Cardinality(Asking) <= Cap + Cardinality(Caller) - 1
  BY <1>2, <1>3, <1>5, <1>6
<1>8. \A t \in Times : counted[t] <= Recent(Book)[t] /\ Recent(Book)[t] <= Recent(Kept)[t]
  BY <1>1, <1>2, <1>3 DEF NoQuestions
<1> QED
  BY <1>4, <1>7, <1>8 DEF CapInv

LEMMA CapNext ==
  ASSUME OneBook, NewsInv, CapInv, [GuardNext]_guardVars
  PROVE  CapInv'
<1>1. CASE UNCHANGED guardVars
  <2>1. UNCHANGED <<time, counted, table, cfg, calls, call>>
    BY <1>1 DEF guardVars, guard, world
  <2>2. Asking' = Asking
    BY <2>1 DEF Asking
  <2> QED
    BY <2>1, <2>2, QuietStep
<1>2. ASSUME NEW s \in Symbol, NEW t \in Titles, News(s, t) PROVE CapInv'
  <2>1. UNCHANGED <<time, counted, table, cfg, calls, call>>
    BY <1>2 DEF News, guard
  <2>2. Asking' = Asking
    BY <2>1 DEF Asking
  <2> QED
    BY <2>1, <2>2, QuietStep
<1>3. CASE ShowGuard
  <2>1. Page \in Owner /\ GetGuard(Page) /\ UNCHANGED <<time, counted, call>>
    BY <1>3 DEF ShowGuard, world, Owner
  <2>2. Asking' = Asking
    BY <2>1 DEF Asking
  <2> QED
    BY <2>1, <2>2, ComingKeeps, CountKept
<1>4. CASE GuardNext
  BY <1>2, <1>3, <1>4, BeginCounts, QuietCallers, JudgeCounts, AskCounts, TickCounts, CrashCounts
     DEF GuardNext
<1> QED
  BY <1>1, <1>4

\* However the threads come between each other and however often the program is started
\* again, the day's written questions exceed the limit by less than the number of threads:
\* each of them may have passed the check (calls_today) before another one counted its own.
THEOREM CapHolds == ASSUME OneBook PROVE GuardSpec => []CapPerThread
<1>1. GuardInit => NewsInv /\ CapInv
  BY NewsInit, CapInit DEF OneBook
<1>2. NewsInv /\ CapInv /\ [GuardNext]_guardVars => NewsInv' /\ CapInv'
  BY NewsNext, CapNext DEF OneBook
<1>3. NewsInv /\ CapInv => CapPerThread
  <2> SUFFICES ASSUME NewsInv, CapInv, Cap # 0
               PROVE  Count(counted) <= Cap + Cardinality(Caller) - 1
    BY DEF CapPerThread
  <2>1. /\ Count(counted) <= Count(Recent(Book))
        /\ Count(Recent(Book)) <= Count(Recent(Kept))
    BY BookType, FewerCount DEF OneBook, CapInv
  <2>2. /\ Count(counted) \in Int /\ Count(Recent(Book)) \in Int
        /\ Count(Recent(Kept)) \in Int
    BY BookType, Counted DEF OneBook
  <2>3. /\ Cardinality(Asking) \in Nat /\ Cardinality(Caller) \in Nat /\ Cap \in Nat
    BY AskingCounted, GuardAssumption DEF OneBook, GuardAssumption
  <2>4. Count(Recent(Kept)) + Cardinality(Asking) <= Cap + Cardinality(Caller) - 1
    BY DEF CapInv
  <2> QED
    BY <2>1, <2>2, <2>3, <2>4
<1> QED
  BY <1>1, <1>2, <1>3, PTL DEF GuardSpec

\* When a verdict was begun is a time of the clock.
Working == {"fetch", "judge", "ask", "wait"}
Begun(r) == r.at \in Working => r.now \in Times

BegunInv ==
    /\ \A s \in Symbol : cache[s].at \in Times
    /\ \A c \in Caller : Begun(call[c])

\* A caller that is elsewhere, or where it was, or began now.
Follows(d) ==
    \/ call'[d].at \notin Working
    \/ call[d].at \in Working /\ call'[d].now = call[d].now
    \/ call'[d].now = time

\* A verdict in the cache is from the time a caller began.
Dated(s) ==
    \/ cache'[s].at = cache[s].at
    \/ \E c \in Caller : call[c].at \in Working /\ cache'[s].at = call[c].now

LEMMA FollowsIsEnough ==
  ASSUME BegunInv, time \in Times,
         \A d \in Caller : Follows(d), \A s \in Symbol : Dated(s)
  PROVE  BegunInv'
BY DEF BegunInv, Begun, Follows, Dated

LEMMA StoreFollows ==
  ASSUME NewsInv, NEW c \in Caller, call[c].at \in {"judge", "wait"},
         NEW level \in {"block", "none"}, NEW source \in {"ai", "keyword", "none"},
         Store(c, level, source)
  PROVE  (\A d \in Caller : Follows(d)) /\ (\A s \in Symbol : Dated(s))
<1>1. PICK s \in Symbol, v \in Verdicts, r \in Reading : Replaces(c, level, source, s, v, r)
  BY StoreData DEF NewsInv
<1>2. call'[c].at \notin Working
  BY <1>1 DEF Replaces, Working
<1>3. ASSUME NEW d \in Caller, d # c PROVE Follows(d)
  <2>1. call'[d] = call[d] \/ LetsGo(call[d], call'[d])
    BY <1>1, <1>3 DEF Replaces
  <2> QED
    BY <2>1 DEF Follows, LetsGo, Working
<1>4. \A x \in Symbol : Dated(x)
  BY <1>1 DEF Replaces, Dated, Working
<1> QED
  BY <1>2, <1>3, <1>4 DEF Follows

\* Only the caller c moves, to r.
LEMMA OneFollows ==
  ASSUME NewsInv, NEW c \in Caller, NEW r, call' = [call EXCEPT ![c] = r],
         \/ r.at \notin Working
         \/ call[c].at \in Working /\ r.now = call[c].now
         \/ r.now = time
  PROVE  \A d \in Caller : Follows(d)
<1>1. \A d \in Caller : call'[d] = IF d = c THEN r ELSE call[d]
  BY DEF NewsInv, NewsType
<1> QED
  BY <1>1 DEF Follows

LEMMA GoesFollows ==
  ASSUME NewsInv, NEW c \in Caller, call[c].at \in {"judge", "ask"},
         NEW at \in {"ask", "wait"}, Goes(c, at)
  PROVE  \A d \in Caller : Follows(d)
<1>1. call[c] \in Judging
  BY ReadingData DEF NewsInv, NewsType
<1> DEFINE r == [call[c] EXCEPT !.at = at]
<1>2. r.now = call[c].now /\ call[c].at \in Working
  BY <1>1, Moved DEF Working
<1>3. call' = [call EXCEPT ![c] = r]
  BY DEF Goes
<1> HIDE DEF r
<1> QED
  BY <1>2, <1>3, OneFollows

LEMMA CallersFollow ==
  ASSUME NewsInv, NEW c \in Caller,
         \/ \E s \in Symbol : Begin(c, s)
         \/ LookInCache(c) \/ Fetch(c) \/ Judge(c) \/ Ask(c) \/ Reply(c) \/ Answer(c)
  PROVE  (\A d \in Caller : Follows(d)) /\ (\A s \in Symbol : Dated(s))
<1>1. ASSUME UNCHANGED cache PROVE \A s \in Symbol : Dated(s)
  BY <1>1 DEF Dated
<1>2. ASSUME NEW s \in Symbol, Begin(c, s) PROVE \A d \in Caller : Follows(d)
  BY <1>2, OneFollows DEF Begin, Working
<1>3. CASE LookInCache(c)
  <2>1. PICK r : call' = [call EXCEPT ![c] = r] /\ (r.at \notin Working \/ r.now = time)
    BY <1>3 DEF LookInCache, Concludes, Working
  <2>2. \A d \in Caller : Follows(d)
    BY <2>1, OneFollows
  <2> QED
    BY <1>1, <1>3, <2>2 DEF LookInCache, guard
<1>4. CASE Fetch(c)
  <2>1. call[c].at \in Working
    BY <1>4 DEF Fetch, Working
  <2>2. PICK r : /\ call' = [call EXCEPT ![c] = r]
                 /\ r.at \notin Working \/ r.now = call[c].now
    BY <1>4 DEF Fetch, Extend, Concludes, Working
  <2>3. \A d \in Caller : Follows(d)
    BY <2>1, <2>2, OneFollows
  <2>4. cache' = cache \/ cache' = [cache EXCEPT ![call[c].sym].at = call[c].now]
    BY <1>4 DEF Fetch, Extend
  <2>5. \A s \in Symbol : Dated(s)
    BY <2>1, <2>4 DEF Dated, NewsInv, NewsType
  <2> QED
    BY <2>3, <2>5
<1>5. CASE Judge(c) \/ Reply(c)
  <2>1. call[c].at \in {"judge", "wait"}
    BY <1>5 DEF Judge, Reply
  <2>2. CASE \E level \in {"block", "none"}, source \in {"ai", "keyword", "none"} :
               Store(c, level, source)
    BY <2>1, <2>2, StoreFollows
  <2>3. CASE Judge(c) /\ Goes(c, "ask") /\ UNCHANGED cache
    BY <1>1, <2>3, GoesFollows DEF Judge
  <2> QED
    BY <1>5, <2>2, <2>3 DEF Judge, Reply, ByKeyword
<1>6. CASE Ask(c)
  BY <1>1, <1>6, GoesFollows DEF Ask
<1>7. CASE Answer(c)
  <2>1. \A d \in Caller : Follows(d)
    BY <1>7, OneFollows DEF Answer, Idle, Working
  <2> QED
    BY <1>1, <1>7, <2>1 DEF Answer, guard
<1> QED
  BY <1>1, <1>2, <1>3, <1>4, <1>5, <1>6, <1>7 DEF Begin, GetGuard, guard

LEMMA BegunNext ==
  ASSUME NewsInv, BegunInv, [GuardNext]_guardVars
  PROVE  BegunInv'
<1>1. time \in Times /\ 0 \in Times
  BY GuardAssumption DEF GuardAssumption, NewsInv, NewsType, Times
<1>2. ASSUME NEW c \in Caller,
             \/ \E s \in Symbol : Begin(c, s)
             \/ LookInCache(c) \/ Fetch(c) \/ Judge(c) \/ Ask(c) \/ Reply(c) \/ Answer(c)
      PROVE  BegunInv'
  BY <1>1, <1>2, CallersFollow, FollowsIsEnough
<1>3. CASE Crash
  BY <1>1, <1>3 DEF Crash, NothingCached, Idle, BegunInv, Begun, Working
<1>4. ASSUME UNCHANGED <<cache, call>> PROVE BegunInv'
  BY <1>4 DEF BegunInv, Begun
<1> QED
  BY <1>2, <1>3, <1>4 DEF GuardNext, guardVars, guard, News, ShowGuard, GetGuard, Tick

(* The guard's cache, its lists of questions, the database's and what each
   thread is doing are of their types, whatever the threads, the clock, the
   headlines and the restarts do (news_guard.py). *)
THEOREM GuardTypes == GuardSpec => []GuardTypeOK
<1>1. GuardInit => BegunInv
  BY GuardAssumption
  DEF GuardAssumption, GuardInit, NothingCached, Idle, BegunInv, Begun, Working, Times
<1>2. NewsInv /\ BegunInv /\ [GuardNext]_guardVars => BegunInv'
  BY BegunNext
<1>3. NewsInv /\ BegunInv => GuardTypeOK
  <2> SUFFICES ASSUME NewsInv, BegunInv PROVE GuardTypeOK
    OBVIOUS
  <2>1. cache \in [Symbol -> [verdict : Verdicts, at : Times]]
    BY DEF NewsInv, NewsType, BegunInv
  <2>2. \A c \in Caller :
          call[c].at \in {"idle", "gate", "fetch", "judge", "ask", "wait", "answer"}
    BY ReadingData DEF NewsInv, NewsType
  <2> QED
    BY <2>1, <2>2 DEF GuardTypeOK, NewsInv, NewsType, Verdicts
<1> QED
  BY <1>1, <1>2, <1>3, NewsInvHolds, PTL DEF GuardSpec
==============================================================================
