---------------------------- MODULE BreaksProofs ----------------------------
(***************************************************************************)
(* What the break endpoints promise for every set of requests, sessions    *)
(* and scheduled kinds, any length of the day and any number of requests:  *)
(* presence and records agree, an ended day is quiet, records stand.       *)
(*                                                                         *)
(* What ends a break takes no lock, so the invariant says what a request   *)
(* still knows of a record it read before (Knows): that it is a taken      *)
(* break, and that the end it will write is one of a segment of it.  That  *)
(* stays so because sessions and taken breaks only grow.  Under the lock a *)
(* resume knows besides that nothing runs and that the day is not ended.   *)
(***************************************************************************)
EXTENDS Breaks, FiniteSetTheorems, WellFoundedInduction, TLAPS

-----------------------------------------------------------------------------
(* The inductive invariant *)

\* A presence session: within the bound of the day.
SessionRow == [type : {"BREAK", "MEETING"}, by : {"BREAKS", "STATUS"},
               from : Times, to : Times \cup {None}]
WorkRow == [from : Times, to : Times \cup {None}]

Tables ==
  /\ clock \in Times /\ holder \in Actors \cup {None} /\ asked \in 0 .. MaxRequests
  /\ work \subseteq WorkRow /\ marked \subseteq Days
  /\ presence \in [SessionIds -> SessionRow \cup {None}]
  /\ records \in [Keys -> Record \cup {None}]
  /\ DOMAIN act = Actors

\* A record r under key beside the sessions: of its segments only the last may
\* run, and none while it reads as paused.
RecordHolds(key, r) ==
  /\ r \in Record
  /\ r.outcome # "TAKEN" =>
       /\ r.segs = {} /\ r.link = None /\ r.ended = None /\ r.state # "PAUSED"
       /\ key[1] \in Scheduled
  /\ r.outcome = "TAKEN" => r.link \in r.segs
  /\ \A s \in r.segs : /\ presence[s] # None
                       /\ s \in Running => s = r.link /\ r.state # "PAUSED"
  /\ r.state = "PAUSED" => key[1] \in Scheduled
  /\ r.ended # None => \E s \in r.segs : presence[s].to = r.ended
RecordsHold == \A key \in Keys : Exists(key) => RecordHolds(key, records[key])

OneRuns == \A s, u \in Running : s = u

\* A break that was taken, under one of the scheduled kinds, and an end of it.
Taken(key) == key \in Keys /\ Exists(key) /\ records[key].outcome = "TAKEN"
TakenEnd(key, end) ==
  /\ Taken(key) /\ key[1] \in Scheduled
  /\ end \in Times /\ \E s \in records[key].segs : presence[s].to = end

Fields == {"step", "move", "at", "key", "todo", "plan", "ending"}
LockSteps == {"pause", "resume", "endLate"}

\* What a request knows that needs no lock.
Knows(x) ==
  /\ DOMAIN x = Fields /\ x.at \in Times
  /\ x.step \in {"endPaused", "writePaused"} =>
       /\ \A key \in x.todo : Taken(key)
       /\ x.move = "start" => \E k \in Scheduled : x.key = Key(k)
  /\ x.step = "writePaused" => TakenEnd(x.ending.key, x.ending.end)
  /\ x.step \in LockSteps => Taken(x.key) /\ x.key[1] \in Scheduled
  /\ x.step \in {"markEnded", "mark"} => Taken(x.key)
  /\ x.step \in {"endOpen", "markEnded"} => x.todo = {} /\ x.move = "end"
  /\ x.step = "endOpen" => x.key = None \/ Taken(x.key)
  /\ x.step = "switch" => x.move \in {"BREAK", "MEETING"}
  /\ x.step \in {"judgeStatus", "recordStatus"} =>
       \E s \in SessionIds : x.key = <<"OFF", s>> /\ presence[s] # None
  /\ x.step \in {"autoSkip", "recordStatus"} => x.plan \subseteq Scheduled
  /\ x.step = "skip" => \E k \in Scheduled : x.key = Key(k)

\* What the person's row lock keeps from changing between a read and a write.
LockHolds(a, x) ==
  /\ x.step \in LockSteps => holder = a
  /\ x.step = "resume" => Running = {} /\ DayOf(x.at) \notin marked

Inv ==
  /\ Tables /\ RecordsHold /\ OneRuns /\ EndedDayIsQuiet
  /\ \A a \in Actors : Knows(act[a]) /\ LockHolds(a, act[a])

-----------------------------------------------------------------------------
(* Sessions and taken breaks only grow *)

\* A session stays what it is, and once ended it stays ended then.
PresenceGrows ==
  \A s \in SessionIds : presence[s] # None =>
    /\ presence'[s] # None
    /\ presence'[s].by = presence[s].by /\ presence'[s].from = presence[s].from
    /\ presence[s].to # None => presence'[s].to = presence[s].to

\* A taken break stays one, and a scheduled one keeps its segments.
TakenGrow ==
  \A key \in Keys : Taken(key) =>
    /\ Taken(key)'
    /\ key[1] \in Scheduled => records[key].segs \subseteq records'[key].segs

Stands ==
  \A key \in Keys : Exists(key) =>
    \/ records'[key] # None /\ records'[key].outcome = records[key].outcome
    \/ /\ records[key].outcome = "AUTO_SKIPPED"
       /\ IF records'[key] = None THEN ~records[key].decided ELSE ~records[key].reason

LEMMA RecordStays ==
  ASSUME PresenceGrows, NEW key, NEW r, RecordHolds(key, r)
  PROVE  RecordHolds(key, r)'
<1>1. r.segs \subseteq SessionIds /\ (r.ended # None => r.ended \in Nat)
  BY DEF RecordHolds, Record
<1>2. ASSUME NEW s \in r.segs
      PROVE  /\ presence'[s] # None
             /\ s \in Running' => s = r.link /\ r.state # "PAUSED"
  <2>1. s \in SessionIds /\ presence[s] # None BY <1>1 DEF RecordHolds
  <2>2. s \in Running' => s \in Running BY <2>1 DEF PresenceGrows, Running
  <2> QED BY <2>1, <2>2 DEF PresenceGrows, RecordHolds
<1>3. ASSUME r.ended # None PROVE \E s \in r.segs : presence'[s].to = r.ended
  <2>1. PICK s \in r.segs : presence[s].to = r.ended BY <1>3 DEF RecordHolds
  <2>2. s \in SessionIds /\ presence[s] # None BY <1>1 DEF RecordHolds
  <2> QED BY <1>3, <2>1, <2>2 DEF PresenceGrows
<1> QED BY <1>2, <1>3 DEF RecordHolds

LEMMA KnowsStill ==
  ASSUME PresenceGrows, TakenGrow, Tables, Tables', RecordsHold, NEW x, Knows(x)
  PROVE  Knows(x)'
<1>1. \A key : Taken(key) => Taken(key)' BY DEF TakenGrow, Taken
<1>2. ASSUME NEW key, NEW end, TakenEnd(key, end) PROVE TakenEnd(key, end)'
  <2>1. PICK s \in records[key].segs : presence[s].to = end BY <1>2 DEF TakenEnd
  <2>2. RecordHolds(key, records[key]) BY <1>2 DEF TakenEnd, Taken, RecordsHold
  <2>3. s \in SessionIds /\ presence[s] # None BY <2>2 DEF RecordHolds, Record
  <2>4. end # None BY <1>2, BreaksAssumption DEF TakenEnd, Times
  <2>5. presence'[s].to = end BY <2>1, <2>3, <2>4 DEF PresenceGrows
  <2>6. s \in records'[key].segs BY <1>2 DEF TakenEnd, TakenGrow, Taken
  <2> QED BY <1>1, <1>2, <2>5, <2>6 DEF TakenEnd
<1>3. \A s \in SessionIds : presence[s] # None => presence'[s] # None BY DEF PresenceGrows
<1>4. /\ DOMAIN x = Fields /\ x.at \in Times
      /\ x.step \in {"endOpen", "markEnded"} => x.todo = {} /\ x.move = "end"
  BY DEF Knows
<1>5. x.step \in {"endPaused", "writePaused"} =>
        /\ \A key \in x.todo : Taken(key)'
        /\ x.move = "start" => \E k \in Scheduled : x.key = Key(k)
  BY <1>1 DEF Knows
<1>6. x.step = "writePaused" => TakenEnd(x.ending.key, x.ending.end)'
  <2>1. PICK key, end : key = x.ending.key /\ end = x.ending.end OBVIOUS
  <2> QED BY <1>2, <2>1 DEF Knows
<1>7. /\ x.step \in LockSteps => Taken(x.key)' /\ x.key[1] \in Scheduled
      /\ x.step \in {"markEnded", "mark"} => Taken(x.key)'
      /\ x.step = "endOpen" => x.key = None \/ Taken(x.key)'
  <2>1. PICK key : key = x.key OBVIOUS
  <2> QED BY <1>1, <2>1 DEF Knows
<1>8. x.step \in {"judgeStatus", "recordStatus"} =>
        \E s \in SessionIds : x.key = <<"OFF", s>> /\ presence'[s] # None
  BY <1>3 DEF Knows
<1> QED BY <1>4, <1>5, <1>6, <1>7, <1>8 DEF Knows

\* Whoever else holds the lock, or is nobody's, goes on undisturbed.
LEMMA OthersGoOn ==
  ASSUME Inv, Tables', PresenceGrows, TakenGrow, NEW b \in Actors, act'[b] = act[b],
         \/ holder = None
         \/ holder # b /\ holder # None
         \/ holder' = holder /\ Running' \subseteq Running /\ marked' \subseteq marked
  PROVE  (Knows(act[b]) /\ LockHolds(b, act[b]))'
<1>1. PICK x : x = act[b] OBVIOUS
<1>2. Knows(x) /\ LockHolds(b, x) BY <1>1 DEF Inv
<1>3. Knows(x)' BY <1>2, KnowsStill DEF Inv
<1>4. None \notin Actors BY BreaksAssumption
<1>5. LockHolds(b, x)' BY <1>2, <1>4 DEF LockHolds, LockSteps, DayOf
<1> QED BY <1>1, <1>3, <1>5 DEF Knows, LockHolds

-----------------------------------------------------------------------------
(* What a write does to the sessions *)

\* Nothing new runs: what ran, ran alone and on a day that has not ended.
LEMMA FewerRun ==
  ASSUME Inv, PresenceGrows, Running' \subseteq Running, marked' \subseteq marked
  PROVE  OneRuns' /\ EndedDayIsQuiet'
<1>1. OneRuns' BY DEF Inv, OneRuns
<1>2. ASSUME NEW s \in Running', presence'[s].by = "BREAKS"
      PROVE  DayOf(presence'[s].from) \notin marked'
  <2>1. s \in Running /\ s \in SessionIds /\ presence[s] # None BY DEF Running
  <2>2. presence'[s].by = presence[s].by /\ presence'[s].from = presence[s].from
    BY <2>1 DEF PresenceGrows
  <2> QED BY <1>2, <2>1, <2>2 DEF Inv, EndedDayIsQuiet
<1> QED BY <1>1, <1>2 DEF EndedDayIsQuiet

LEMMA NoneRun ==
  ASSUME Running' = {} PROVE OneRuns' /\ EndedDayIsQuiet'
BY DEF OneRuns, EndedDayIsQuiet

LEMMA SessionsSame ==
  ASSUME Inv, presence' = presence
  PROVE  /\ PresenceGrows /\ Running' = Running
         /\ presence' \in [SessionIds -> SessionRow \cup {None}]
BY DEF Inv, Tables, PresenceGrows, Running

LEMMA RowEnds ==
  ASSUME NEW p \in SessionRow, NEW t \in Times, NEW q, q = [p EXCEPT !.to = t]
  PROVE  q \in SessionRow /\ q.to = t /\ q.by = p.by /\ q.from = p.from /\ q # None /\ t # None
BY BreaksAssumption, RowsAssumption DEF SessionRow, Session, Times

\* Rows that are as they were, or ran and end now.
LEMMA SomeEnd ==
  ASSUME Inv, presence' = [s \in SessionIds |-> presence'[s]],
         \A s \in SessionIds :
           \/ presence'[s] = presence[s]
           \/ s \in Running /\ \E t \in Times : presence'[s] = [presence[s] EXCEPT !.to = t]
  PROVE  /\ PresenceGrows /\ Running' \subseteq Running
         /\ presence' \in [SessionIds -> SessionRow \cup {None}]
         /\ \A s \in SessionIds : presence'[s] # presence[s] => s \notin Running'
<1>1. ASSUME NEW s \in SessionIds
      PROVE  /\ presence'[s] \in SessionRow \cup {None}
             /\ presence[s] # None =>
                  /\ presence'[s] # None
                  /\ presence'[s].by = presence[s].by /\ presence'[s].from = presence[s].from
                  /\ presence[s].to # None => presence'[s].to = presence[s].to
             /\ s \in Running' => s \in Running
             /\ presence'[s] # presence[s] => s \notin Running'
  <2>0. presence[s] \in SessionRow \cup {None} BY DEF Inv, Tables
  <2>1. CASE presence'[s] = presence[s] BY <2>0, <2>1 DEF Running
  <2>2. CASE s \in Running /\ \E t \in Times : presence'[s] = [presence[s] EXCEPT !.to = t]
    <3>1. presence[s] \in SessionRow /\ presence[s].to = None BY <2>0, <2>2 DEF Running
    <3>2. PICK t \in Times : presence'[s] = [presence[s] EXCEPT !.to = t] BY <2>2
    <3>3. PICK q : q = presence'[s] OBVIOUS
    <3>4. /\ presence'[s] \in SessionRow /\ presence'[s] # None /\ presence'[s].to # None
          /\ presence'[s].by = presence[s].by /\ presence'[s].from = presence[s].from
      BY <3>1, <3>2, <3>3, RowEnds
    <3> QED BY <2>2, <3>1, <3>4 DEF Running
  <2> QED BY <2>1, <2>2
<1>2. PresenceGrows BY <1>1 DEF PresenceGrows
<1>3. Running' \subseteq Running BY <1>1 DEF Running
<1>4. presence' \in [SessionIds -> SessionRow \cup {None}] BY <1>1
<1>5. \A s \in SessionIds : presence'[s] # presence[s] => s \notin Running' BY <1>1
<1> QED BY <1>2, <1>3, <1>4, <1>5

\* Everything that runs is closed (closeOpenPresence, endOpenForUser).
LEMMA AllEnd ==
  ASSUME Inv, NEW t \in Times, presence' = CloseRunning(t)
  PROVE  /\ PresenceGrows /\ Running' = {}
         /\ presence' \in [SessionIds -> SessionRow \cup {None}]
<1>1. ASSUME NEW s \in SessionIds
      PROVE  \/ s \notin Running /\ presence'[s] = presence[s]
             \/ s \in Running /\ \E u \in Times : presence'[s] = [presence[s] EXCEPT !.to = u]
  <2>1. CASE s \in Running
    <3>1. presence[s] \in SessionRow BY <2>1 DEF Inv, Tables, Running
    <3>2. Later(t, presence[s].from) \in Times BY <3>1 DEF Later, SessionRow
    <3> QED BY <2>1, <3>2 DEF CloseRunning
  <2>2. CASE s \notin Running BY <2>2 DEF CloseRunning
  <2> QED BY <2>1, <2>2
<1>2. presence' = [s \in SessionIds |-> presence'[s]] BY DEF CloseRunning
<1>3. /\ PresenceGrows /\ Running' \subseteq Running
      /\ presence' \in [SessionIds -> SessionRow \cup {None}]
      /\ \A s \in SessionIds : presence'[s] # presence[s] => s \notin Running'
  BY <1>1, <1>2, SomeEnd
<1>4. ASSUME NEW s \in Running PROVE s \notin Running'
  <2>1. s \in SessionIds /\ presence[s] \in SessionRow /\ presence[s].to = None
    BY DEF Running, Inv, Tables
  <2>2. PICK u \in Times : presence'[s] = [presence[s] EXCEPT !.to = u] BY <1>1, <2>1
  <2>3. presence'[s].to # None BY <2>1, <2>2, RowEnds
  <2> QED BY <2>3 DEF Running
<1> QED BY <1>3, <1>4

\* One that runs is closed, if it still runs.
LEMMA OneEnds ==
  ASSUME Inv, NEW s, NEW t \in Times,
         presence' = IF s \in Running THEN [presence EXCEPT ![s].to = t] ELSE presence
  PROVE  /\ PresenceGrows /\ Running' = Running \ {s}
         /\ presence' \in [SessionIds -> SessionRow \cup {None}]
         /\ s \in Running => presence'[s].to = t
<1>0. presence \in [SessionIds -> SessionRow \cup {None}] BY DEF Inv, Tables
<1>1. CASE s \in Running
  <2>1. s \in SessionIds /\ presence[s] \in SessionRow BY <1>0, <1>1 DEF Running
  <2>2. /\ presence' = [u \in SessionIds |-> presence'[u]]
        /\ presence'[s] = [presence[s] EXCEPT !.to = t]
        /\ \A u \in SessionIds \ {s} : presence'[u] = presence[u]
    BY <1>0, <1>1, <2>1
  <2>3. /\ PresenceGrows /\ Running' \subseteq Running
        /\ presence' \in [SessionIds -> SessionRow \cup {None}]
    BY <1>1, <2>2, SomeEnd
  <2>4. presence'[s].to = t /\ t # None
    <3>1. PICK q : q = presence'[s] OBVIOUS
    <3> QED BY <2>1, <2>2, <3>1, RowEnds
  <2>5. Running' = Running \ {s} BY <2>2, <2>3, <2>4 DEF Running
  <2> QED BY <2>3, <2>4, <2>5
<1>2. CASE s \notin Running BY <1>2, SessionsSame
<1> QED BY <1>1, <1>2

\* A session is opened, and what ran is closed or nothing did.
LEMMA OneOpens ==
  ASSUME Inv, NEW s \in SessionIds, presence[s] = None,
         presence' = [u \in SessionIds |-> presence'[u]],
         NEW type \in {"BREAK", "MEETING"}, NEW by \in {"BREAKS", "STATUS"}, NEW t \in Times,
         presence'[s] = NewSession(type, by, t),
         \A u \in SessionIds \ {s} :
           \/ u \notin Running /\ presence'[u] = presence[u]
           \/ u \in Running /\ \E v \in Times : presence'[u] = [presence[u] EXCEPT !.to = v],
         by = "BREAKS" => DayOf(t) \notin marked, marked' = marked
  PROVE  /\ PresenceGrows /\ Running' = {s}
         /\ presence' \in [SessionIds -> SessionRow \cup {None}] /\ presence'[s] # None
         /\ OneRuns' /\ EndedDayIsQuiet'
<1>0. presence \in [SessionIds -> SessionRow \cup {None}] BY DEF Inv, Tables
<1>1. /\ presence'[s] \in SessionRow /\ presence'[s] # None
      /\ presence'[s].to = None /\ presence'[s].by = by /\ presence'[s].from = t
  <2>1. NewSession(type, by, t) \in SessionRow BY DEF NewSession, SessionRow
  <2>2. NewSession(type, by, t) \in Session BY DEF NewSession, Session, Times
  <2> QED BY <2>1, <2>2, RowsAssumption DEF NewSession
<1>2. ASSUME NEW u \in SessionIds, u # s
      PROVE  /\ presence'[u] \in SessionRow \cup {None} /\ u \notin Running'
             /\ presence[u] # None =>
                  /\ presence'[u] # None
                  /\ presence'[u].by = presence[u].by /\ presence'[u].from = presence[u].from
                  /\ presence[u].to # None => presence'[u].to = presence[u].to
  <2>1. CASE u \notin Running /\ presence'[u] = presence[u]
    BY <1>0, <2>1 DEF Running
  <2>2. CASE u \in Running /\ \E v \in Times : presence'[u] = [presence[u] EXCEPT !.to = v]
    <3>1. presence[u] \in SessionRow /\ presence[u].to = None BY <1>0, <2>2 DEF Running
    <3>2. PICK v \in Times : presence'[u] = [presence[u] EXCEPT !.to = v] BY <2>2
    <3>3. /\ presence'[u] \in SessionRow /\ presence'[u] # None /\ presence'[u].to # None
          /\ presence'[u].by = presence[u].by /\ presence'[u].from = presence[u].from
      <4>1. PICK q : q = presence'[u] OBVIOUS
      <4> QED BY <3>1, <3>2, <4>1, RowEnds
    <3> QED BY <3>1, <3>3 DEF Running
  <2>3. \/ u \notin Running /\ presence'[u] = presence[u]
        \/ u \in Running /\ \E v \in Times : presence'[u] = [presence[u] EXCEPT !.to = v]
    BY <1>2
  <2> QED BY <2>1, <2>2, <2>3
<1>3. presence' \in [SessionIds -> SessionRow \cup {None}] BY <1>1, <1>2
<1>4. Running' = {s} BY <1>1, <1>2 DEF Running
<1>5. PresenceGrows BY <1>2 DEF PresenceGrows
<1>6. OneRuns' BY <1>4 DEF OneRuns
<1>7. EndedDayIsQuiet' BY <1>1, <1>4 DEF EndedDayIsQuiet
<1> QED BY <1>1, <1>3, <1>4, <1>5, <1>6, <1>7

-----------------------------------------------------------------------------
(* What a write does to the records *)

RecordsGood ==
  /\ records' \in [Keys -> Record \cup {None}]
  /\ RecordsHold' /\ TakenGrow /\ Stands

LEMMA RecordsSame ==
  ASSUME Inv, PresenceGrows, records' = records
  PROVE  RecordsGood
<1>1. RecordsHold'
  <2> SUFFICES ASSUME NEW key \in Keys, records'[key] # None
               PROVE  RecordHolds(key, records[key])'
    BY DEF RecordsHold, Exists
  <2>1. PICK r : r = records[key] OBVIOUS
  <2>2. RecordHolds(key, r)' BY <2>1, RecordStays DEF Inv, RecordsHold, Exists
  <2> QED BY <2>1, <2>2 DEF RecordHolds
<1>2. TakenGrow BY DEF TakenGrow, Taken, Exists
<1>3. Stands BY DEF Stands, Exists
<1> QED BY <1>1, <1>2, <1>3 DEF RecordsGood, Inv, Tables

LEMMA RecordWritten ==
  ASSUME Inv, PresenceGrows, NEW key \in Keys, NEW r, records' = [records EXCEPT ![key] = r],
         RecordHolds(key, r)',
         Exists(key) => \/ r.outcome = records[key].outcome
                        \/ records[key].outcome = "AUTO_SKIPPED" /\ ~records[key].reason,
         Taken(key) /\ key[1] \in Scheduled => records[key].segs \subseteq r.segs
  PROVE  RecordsGood
<1>1. r \in Record /\ r # None BY RowsAssumption DEF RecordHolds
<1>2. /\ records' \in [Keys -> Record \cup {None}] /\ records'[key] = r
      /\ \A k \in Keys \ {key} : records'[k] = records[k]
  BY <1>1 DEF Inv, Tables
<1>3. ASSUME NEW k \in Keys, records'[k] # None PROVE RecordHolds(k, records[k])'
  <2>1. PICK v : v = records'[k] OBVIOUS
  <2>2. RecordHolds(k, v)'
    <3>1. CASE k = key BY <1>2, <2>1, <3>1
    <3>2. CASE k # key
      <4>1. v = records[k] BY <1>2, <2>1, <3>2
      <4> QED BY <1>3, <2>1, <4>1, RecordStays DEF Inv, RecordsHold, Exists
    <3> QED BY <3>1, <3>2
  <2> QED BY <2>1, <2>2 DEF RecordHolds
<1>4. RecordsHold' BY <1>3 DEF RecordsHold, Exists
<1>5. ASSUME NEW k \in Keys, Taken(k)
      PROVE  Taken(k)' /\ (k[1] \in Scheduled => records[k].segs \subseteq records'[k].segs)
  BY <1>1, <1>2, <1>5 DEF Taken, Exists
<1>6. Stands BY <1>1, <1>2 DEF Stands, Exists
<1> QED BY <1>2, <1>4, <1>5, <1>6 DEF RecordsGood, TakenGrow

-----------------------------------------------------------------------------
(* How a step keeps the invariant *)

\* A request that only reads: what it goes on with it knows, and it has the lock
\* or needs none.
LEMMA Asks ==
  ASSUME Inv, NEW a \in Actors, NEW x, act' = [act EXCEPT ![a] = x],
         UNCHANGED <<clock, work, marked, presence, records>>, asked' \in 0 .. MaxRequests,
         Knows(x),
         \/ holder' = holder /\ x.step \notin LockSteps
         \/ /\ holder = None /\ holder' = a
            /\ x.step = "resume" => Running = {} /\ DayOf(x.at) \notin marked
  PROVE  Inv' /\ Stands
<1>1. PresenceGrows /\ Running' = Running BY SessionsSame
<1>2. RecordsGood BY <1>1, RecordsSame
<1>3. Tables' /\ OneRuns' /\ EndedDayIsQuiet'
  <2>1. OneRuns' /\ EndedDayIsQuiet' BY <1>1, FewerRun
  <2>2. Tables' BY DEF Inv, Tables
  <2> QED BY <2>1, <2>2
<1>4. Knows(x)' /\ LockHolds(a, x)'
  <2>1. Knows(x)' BY <1>1, <1>2, <1>3, KnowsStill DEF Inv, RecordsGood
  <2>2. LockHolds(a, x)' BY <1>1 DEF LockHolds, LockSteps, DayOf
  <2> QED BY <2>1, <2>2
<1>5. ASSUME NEW b \in Actors PROVE (Knows(act[b]) /\ LockHolds(b, act[b]))'
  <2>1. CASE b = a
    <3>1. act'[b] = x BY <2>1 DEF Inv, Tables
    <3> QED BY <1>4, <2>1, <3>1 DEF Knows, LockHolds
  <2>2. CASE b # a
    <3>1. act'[b] = act[b] BY <2>2 DEF Inv, Tables
    <3> QED BY <1>1, <1>2, <1>3, <3>1, OthersGoOn DEF RecordsGood
  <2> QED BY <2>1, <2>2
<1> QED BY <1>2, <1>3, <1>5 DEF Inv, RecordsGood

\* A request that writes, under the lock, or what needs none.
LEMMA Writes ==
  ASSUME Inv, NEW a \in Actors, NEW x, act' = [act EXCEPT ![a] = x],
         clock' \in Times, asked' \in 0 .. MaxRequests,
         work' \subseteq WorkRow, marked' \subseteq Days,
         presence' \in [SessionIds -> SessionRow \cup {None}],
         PresenceGrows, RecordsGood, OneRuns', EndedDayIsQuiet',
         Knows(x)', x.step \notin LockSteps,
         \/ holder = None /\ holder' = None
         \/ holder = a /\ holder' = None
         \/ holder' = holder /\ Running' \subseteq Running /\ marked' \subseteq marked
  PROVE  Inv' /\ Stands
<1>1. Tables' BY DEF Inv, Tables, RecordsGood
<1>2. LockHolds(a, x)' BY DEF LockHolds, LockSteps
<1>3. ASSUME NEW b \in Actors PROVE (Knows(act[b]) /\ LockHolds(b, act[b]))'
  <2>1. CASE b = a
    <3>1. act'[b] = x BY <2>1 DEF Inv, Tables
    <3> QED BY <1>2, <2>1, <3>1 DEF Knows, LockHolds
  <2>2. CASE b # a
    <3>1. act'[b] = act[b] BY <2>2 DEF Inv, Tables
    <3>2. None \notin Actors BY BreaksAssumption
    <3> QED BY <1>1, <2>2, <3>1, <3>2, OthersGoOn DEF RecordsGood
  <2> QED BY <2>1, <2>2
<1> QED BY <1>1, <1>3 DEF Inv, RecordsGood

\* A write that is no step of a request under way.
LEMMA WritesAtOnce ==
  ASSUME Inv, act' = act, clock' \in Times, asked' \in 0 .. MaxRequests,
         work' \subseteq WorkRow, marked' \subseteq Days,
         presence' \in [SessionIds -> SessionRow \cup {None}],
         PresenceGrows, RecordsGood, OneRuns', EndedDayIsQuiet', holder' = holder,
         holder = None \/ (Running' \subseteq Running /\ marked' \subseteq marked)
  PROVE  Inv' /\ Stands
<1>1. Tables' BY DEF Inv, Tables, RecordsGood
<1>2. ASSUME NEW b \in Actors PROVE (Knows(act[b]) /\ LockHolds(b, act[b]))'
  BY <1>1, OthersGoOn DEF RecordsGood
<1> QED BY <1>1, <1>2 DEF Inv, RecordsGood

-----------------------------------------------------------------------------
(* Requests that begin, read, or are done *)

\* A request that waits for nothing: idle, or at the start of a step.
LEMMA Begun ==
  ASSUME Inv, NEW a \in Actors, NEW move, NEW step, NEW key, NEW todo, NEW plan,
         Begin(a, move, step, key, todo, plan)
  PROVE  \E x : /\ act' = [act EXCEPT ![a] = x] /\ DOMAIN x = Fields /\ x.at = clock
                /\ x.at \in Times /\ x.step = step /\ x.move = move /\ x.key = key
                /\ x.todo = todo /\ x.plan = plan
<1>1. PICK x : x = [Idle EXCEPT !.step = step, !.move = move, !.at = clock,
                                !.key = key, !.todo = todo, !.plan = plan]
  OBVIOUS
<1>2. act' = [act EXCEPT ![a] = x] BY <1>1 DEF Begin
<1>3. DOMAIN x = Fields /\ x.at = clock /\ x.step = step /\ x.move = move /\ x.key = key
      /\ x.todo = todo /\ x.plan = plan
  BY <1>1 DEF Idle, Fields
<1> QED BY <1>2, <1>3 DEF Inv, Tables

LEMMA IdleKnows == Inv => Knows(Idle) /\ Idle.step \notin LockSteps
<1> SUFFICES ASSUME Inv PROVE Knows(Idle) /\ Idle.step \notin LockSteps OBVIOUS
<1>1. DOMAIN Idle = Fields /\ Idle.at = 0 /\ Idle.step = "idle" BY DEF Idle, Fields
<1>2. 0 \in Times BY BreaksAssumption DEF Times
<1> QED BY <1>1, <1>2 DEF Knows, LockSteps

\* The record of a running session, and a paused one, are breaks that were taken.
LEMMA FoundIsTaken ==
  ASSUME Inv, NEW key \in Keys, Exists(key)
  PROVE  /\ records[key].link \in Running => Taken(key)
         /\ records[key].state = "PAUSED" => Taken(key) /\ key[1] \in Scheduled
<1>1. RecordHolds(key, records[key]) BY DEF Inv, RecordsHold
<1>2. None \notin Running BY BreaksAssumption DEF Running
<1> QED BY <1>1, <1>2 DEF RecordHolds, Taken

LEMMA PausedIsTaken ==
  ASSUME Inv, NEW key \in Paused PROVE Taken(key) /\ key[1] \in Scheduled
BY FoundIsTaken DEF Paused

LEMMA KeyOf == ASSUME NEW k \in Scheduled PROVE Key(k) \in Keys /\ Key(k)[1] = k
<1>1. <<k, 0>> \in Scheduled \X {0} OBVIOUS
<1> QED BY <1>1 DEF Key, Keys

\* A nonempty set of moments of the day has a last one.
LEMMA HasLast ==
  ASSUME NEW ends \in SUBSET Times, ends # {}
  PROVE  \E t \in ends : \A u \in ends : u <= t
<1> DEFINE gaps == {MaxTime - t : t \in ends}
<1>1. MaxTime \in Nat /\ \A t \in ends : t \in Nat /\ MaxTime - t \in Nat
  BY BreaksAssumption DEF Times
<1>2. gaps \subseteq Nat /\ gaps # {} BY <1>1
<1>3. PICK g \in gaps : \A h \in gaps : <<h, g>> \notin OpToRel(<, Nat)
  BY <1>2, WFMin, NatLessThanWellFounded
<1>4. PICK t \in ends : g = MaxTime - t BY <1>3
<1>5. ASSUME NEW u \in ends PROVE u <= t
  <2>1. MaxTime - u \in gaps OBVIOUS
  <2>2. ~(MaxTime - u < g) BY <1>2, <1>3, <2>1 DEF OpToRel
  <2> QED BY <1>1, <1>4, <2>2
<1> QED BY <1>5

LEMMA LastEndHolds ==
  ASSUME Inv, NEW key \in Keys, Exists(key), records[key].state = "PAUSED"
  PROVE  TakenEnd(key, LastEnd(records[key]))
<1>1. PICK r : r = records[key] OBVIOUS
<1>2. RecordHolds(key, r) /\ r.outcome = "TAKEN" /\ Taken(key) /\ key[1] \in Scheduled
  BY <1>1, FoundIsTaken DEF Inv, RecordsHold, Taken
<1> DEFINE ended == {x \in r.segs : presence[x].to # None}
           ends == {presence[s].to : s \in ended}
<1>3. \A s \in ended : presence[s].to \in Times
  <2>1. \A s \in r.segs : s \in SessionIds /\ presence[s] # None
    BY <1>2 DEF RecordHolds, Record
  <2>2. \A s \in r.segs : presence[s] \in SessionRow BY <2>1 DEF Inv, Tables
  <2> QED BY <2>2 DEF SessionRow
<1>4. r.link \in ended
  <2>1. /\ r.link \in r.segs /\ r.link \in SessionIds
        /\ r.link \notin Running /\ presence[r.link] # None
    BY <1>1, <1>2 DEF RecordHolds, Record
  <2> QED BY <2>1 DEF Running
<1>5. ends \in SUBSET Times /\ ends # {} BY <1>3, <1>4
<1>6. LastEnd(r) = CHOOSE t \in ends : \A u \in ends : u <= t BY <1>5 DEF LastEnd
<1>7. LastEnd(r) \in ends
  <2> HIDE DEF ends
  <2>1. \E t \in ends : \A u \in ends : u <= t BY <1>5, HasLast
  <2> QED BY <1>6, <2>1
<1>8. PICK s \in ended : presence[s].to = LastEnd(r) BY <1>7
<1> QED BY <1>1, <1>2, <1>3, <1>8 DEF TakenEnd

\* The requests that are judged, find what they are about, and begin.
LEMMA BeginsToAsk ==
  ASSUME Inv, asked' \in 0 .. MaxRequests, NEW a \in Actors,
         \/ JudgeStart(a) \/ JudgeQuick(a) \/ JudgeAway(a) \/ ReadForPause(a) \/ ReadForResume(a)
         \/ FindBreak(a) \/ FindMark(a) \/ JudgeSkip(a) \/ JudgeEndDay(a) \/ Sweep(a)
  PROVE  Inv' /\ Stands
<1>0. clock \in Times BY DEF Inv, Tables
<1>1. CASE JudgeStart(a)
  <2>1. PICK k \in Scheduled : Begin(a, "start", "endPaused", Key(k), Paused, {})
    BY <1>1 DEF JudgeStart, SlotsAt
  <2>2. PICK x : /\ act' = [act EXCEPT ![a] = x] /\ DOMAIN x = Fields /\ x.at \in Times
                 /\ x.step = "endPaused" /\ x.key = Key(k) /\ x.todo = Paused
    BY <2>1, Begun
  <2>3. Knows(x) BY <2>2, PausedIsTaken DEF Knows, LockSteps
  <2> QED BY <1>1, <2>2, <2>3, Asks DEF JudgeStart, tables, LockSteps
<1>2. CASE JudgeQuick(a)
  <2>1. PICK x : /\ act' = [act EXCEPT ![a] = x] /\ DOMAIN x = Fields /\ x.at \in Times
                 /\ x.step = "startQuick"
    BY <1>2, Begun DEF JudgeQuick
  <2>2. Knows(x) BY <2>1 DEF Knows, LockSteps
  <2> QED BY <1>2, <2>1, <2>2, Asks DEF JudgeQuick, tables, LockSteps
<1>3. CASE JudgeAway(a)
  <2>1. PICK t \in AwayStarts(clock) :
          act' = [act EXCEPT ![a] = [Idle EXCEPT !.step = "startQuick", !.move = "away", !.at = t]]
    BY <1>3 DEF JudgeAway
  <2>2. t \in Times BY <1>0, BreaksAssumption DEF AwayStarts, Times
  <2>3. PICK x : x = [Idle EXCEPT !.step = "startQuick", !.move = "away", !.at = t] OBVIOUS
  <2>4. DOMAIN x = Fields /\ x.at = t /\ x.step = "startQuick" BY <2>3 DEF Idle, Fields
  <2>5. Knows(x) BY <2>2, <2>4 DEF Knows, LockSteps
  <2> QED BY <1>3, <2>1, <2>3, <2>4, <2>5, Asks DEF JudgeAway, tables, LockSteps
<1>4. CASE ReadForPause(a)
  <2>1. PICK key \in Keys :
          Exists(key) /\ IsPausable(key) /\ Begin(a, "pause", "pause", key, {}, {})
    BY <1>4 DEF ReadForPause
  <2>2. PICK x : /\ act' = [act EXCEPT ![a] = x] /\ DOMAIN x = Fields /\ x.at \in Times
                 /\ x.step = "pause" /\ x.key = key
    BY <2>1, Begun
  <2>3. Taken(key) /\ key[1] \in Scheduled BY <2>1, FoundIsTaken DEF IsPausable
  <2>4. Knows(x) BY <2>2, <2>3 DEF Knows
  <2> QED BY <1>4, <2>2, <2>4, Asks DEF ReadForPause, tables, Unlocked
<1>5. CASE ReadForResume(a)
  <2>1. PICK key \in Paused :
          IF clock > Closes[key[1]]
          THEN Begin(a, "resume", "endLate", key, {}, {})
          ELSE /\ DayOf(clock) \notin marked /\ Running = {}
               /\ Begin(a, "resume", "resume", key, {}, {})
    BY <1>5 DEF ReadForResume
  <2>2. PICK step \in {"endLate", "resume"} :
          /\ Begin(a, "resume", step, key, {}, {})
          /\ step = "resume" => Running = {} /\ DayOf(clock) \notin marked
    BY <2>1
  <2>3. PICK x : /\ act' = [act EXCEPT ![a] = x] /\ DOMAIN x = Fields /\ x.at \in Times
                 /\ x.at = clock /\ x.step = step /\ x.key = key
    BY <2>2, Begun
  <2>4. Knows(x) BY <2>3, PausedIsTaken DEF Knows
  <2> QED BY <1>5, <2>2, <2>3, <2>4, Asks DEF ReadForResume, tables, Unlocked
<1>6. CASE FindBreak(a)
  <2>1. PICK step, key : /\ Begin(a, "end", step, key, {}, {})
                         /\ \/ step = "endOpen" /\ key = None
                            \/ step \in {"endOpen", "markEnded"} /\ Taken(key)
    <3>1. \A key \in OpenRecords : Taken(key) BY FoundIsTaken DEF OpenRecords
    <3>2. \A key \in Paused : Taken(key) BY PausedIsTaken
    <3> QED BY <1>6, <3>1, <3>2 DEF FindBreak
  <2>2. PICK x : /\ act' = [act EXCEPT ![a] = x] /\ DOMAIN x = Fields /\ x.at \in Times
                 /\ x.step = step /\ x.key = key /\ x.todo = {} /\ x.move = "end"
    BY <2>1, Begun
  <2>3. Knows(x) BY <2>1, <2>2 DEF Knows, LockSteps
  <2>4. x.step \notin LockSteps BY <2>1, <2>2 DEF LockSteps
  <2> QED BY <1>6, <2>2, <2>3, <2>4, Asks DEF FindBreak, tables
<1>7. CASE FindMark(a)
  <2>1. PICK type \in {"BREAK", "MEETING"} :
          act' = [act EXCEPT ![a] = [Idle EXCEPT !.step = "switch", !.move = type, !.at = clock]]
    BY <1>7 DEF FindMark
  <2>2. PICK x : x = [Idle EXCEPT !.step = "switch", !.move = type, !.at = clock] OBVIOUS
  <2>3. DOMAIN x = Fields /\ x.at = clock /\ x.step = "switch" /\ x.move = type
    BY <2>2 DEF Idle, Fields
  <2>4. Knows(x) BY <1>0, <2>3 DEF Knows, LockSteps
  <2> QED BY <1>7, <2>1, <2>2, <2>3, <2>4, Asks DEF FindMark, tables, LockSteps
<1>8. CASE JudgeSkip(a)
  <2>1. PICK k \in Scheduled : Begin(a, "skip", "skip", Key(k), {}, {})
    BY <1>8 DEF JudgeSkip, SlotsAt
  <2>2. PICK x : /\ act' = [act EXCEPT ![a] = x] /\ DOMAIN x = Fields /\ x.at \in Times
                 /\ x.step = "skip" /\ x.key = Key(k)
    BY <2>1, Begun
  <2>3. Knows(x) BY <2>2 DEF Knows, LockSteps
  <2> QED BY <1>8, <2>2, <2>3, Asks DEF JudgeSkip, tables, LockSteps
<1>9. ASSUME NEW move, NEW ending,
             Begin(a, move, "autoSkip", None, {}, PlannedSkips(clock, ending)),
             UNCHANGED <<clock, work, marked, presence, records, holder>>
      PROVE  Inv' /\ Stands
  <2>1. PICK x : /\ act' = [act EXCEPT ![a] = x] /\ DOMAIN x = Fields /\ x.at \in Times
                 /\ x.step = "autoSkip" /\ x.plan = PlannedSkips(clock, ending)
    BY <1>9, Begun
  <2>2. x.plan \subseteq Scheduled BY <2>1 DEF PlannedSkips, SlotsAt
  <2>3. Knows(x) BY <2>1, <2>2 DEF Knows, LockSteps
  <2> QED BY <1>9, <2>1, <2>3, Asks DEF LockSteps
<1>10. CASE JudgeEndDay(a) BY <1>9, <1>10 DEF JudgeEndDay, tables
<1>11. CASE Sweep(a) BY <1>9, <1>11 DEF Sweep, tables
<1> QED BY <1>1, <1>2, <1>3, <1>4, <1>5, <1>6, <1>7, <1>8, <1>10, <1>11

\* The steps that read on, or have nothing more to do.
LEMMA ReadsOn ==
  ASSUME Inv, asked' \in 0 .. MaxRequests, NEW a \in Actors,
         \/ ReadPaused(a) \/ ReadForMark(a) \/ BreakEnded(a) \/ JudgeStatus(a)
         \/ ListExpired(a) \/ ListPaused(a) \/ Swept(a)
  PROVE  Inv' /\ Stands
<1>0. PICK w : w = act[a] OBVIOUS
<1>1. Knows(w) /\ DOMAIN act = Actors BY <1>0 DEF Inv, Tables
<1>2. DOMAIN w = Fields /\ w.at \in Times BY <1>1 DEF Knows
<1>3. CASE Done(a) /\ UNCHANGED <<clock, tables, holder>>
  BY <1>3, IdleKnows, Asks DEF Done, tables
<1>4. ASSUME NEW x, act' = [act EXCEPT ![a] = x], Knows(x), x.step \notin LockSteps,
             UNCHANGED <<clock, tables, holder>>
      PROVE  Inv' /\ Stands
  BY <1>4, Asks DEF tables
<1>5. CASE ReadPaused(a)
  <2>1. w.step = "endPaused" /\ UNCHANGED <<clock, tables, holder>>
    BY <1>0, <1>5 DEF ReadPaused, At
  <2>2. PICK key \in act[a].todo : act' = [act EXCEPT ![a] =
                 IF records[key].state = "PAUSED"
                 THEN [@ EXCEPT !.step = "writePaused", !.todo = act[a].todo \ {key},
                                !.ending = [key |-> key, end |-> LastEnd(records[key])]]
                 ELSE [@ EXCEPT !.todo = act[a].todo \ {key}]]
    BY <1>5 DEF ReadPaused
  <2>3. Taken(key) BY <1>0, <1>1, <2>1, <2>2 DEF Knows
  <2>4. CASE records[key].state = "PAUSED"
    <3>1. PICK x : x = [act[a] EXCEPT !.step = "writePaused", !.todo = act[a].todo \ {key},
                                      !.ending = [key |-> key, end |-> LastEnd(records[key])]]
      OBVIOUS
    <3>2. /\ DOMAIN x = Fields /\ x.at = w.at /\ x.step = "writePaused" /\ x.move = w.move
          /\ x.todo = w.todo \ {key} /\ x.key = w.key /\ x.ending.key = key
          /\ x.ending.end = LastEnd(records[key])
      BY <1>0, <1>2, <3>1 DEF Fields
    <3>3. TakenEnd(key, LastEnd(records[key])) BY <2>3, <2>4, LastEndHolds DEF Taken
    <3>4. Knows(x) BY <1>1, <2>1, <3>2, <3>3 DEF Knows, LockSteps
    <3>5. act' = [act EXCEPT ![a] = x] BY <2>4, <2>2, <3>1
    <3> QED BY <1>4, <2>1, <3>2, <3>4, <3>5 DEF LockSteps
  <2>5. CASE records[key].state # "PAUSED"
    <3>1. PICK x : x = [act[a] EXCEPT !.todo = act[a].todo \ {key}] OBVIOUS
    <3>2. /\ DOMAIN x = Fields /\ x.at = w.at /\ x.step = "endPaused" /\ x.move = w.move
          /\ x.todo = w.todo \ {key} /\ x.key = w.key
      BY <1>0, <1>2, <2>1, <3>1 DEF Fields
    <3>3. Knows(x) BY <1>1, <2>1, <3>2 DEF Knows, LockSteps
    <3>4. act' = [act EXCEPT ![a] = x] BY <2>5, <2>2, <3>1
    <3> QED BY <1>4, <2>1, <3>2, <3>3, <3>4 DEF LockSteps
  <2> QED BY <2>4, <2>5
<1>6. CASE ReadForMark(a)
  <2>1. w.step = "markEnded" /\ Taken(w.key) /\ UNCHANGED <<clock, tables, holder>>
    BY <1>0, <1>1, <1>6 DEF ReadForMark, At, Knows
  <2>2. CASE records[w.key].state = "PAUSED"
    <3>1. PICK x : x = [w EXCEPT !.step = "writePaused",
                                 !.ending = [key |-> w.key, end |-> LastEnd(records[w.key])]]
      OBVIOUS
    <3>2. /\ DOMAIN x = Fields /\ x.at = w.at /\ x.step = "writePaused" /\ x.todo = w.todo
          /\ x.move = w.move
          /\ x.ending.key = w.key /\ x.ending.end = LastEnd(records[w.key])
      BY <1>2, <3>1 DEF Fields
    <3>3. TakenEnd(w.key, LastEnd(records[w.key])) BY <2>1, <2>2, LastEndHolds DEF Taken
    <3>4. act' = [act EXCEPT ![a] = x] BY <1>0, <1>1, <1>6, <2>2, <3>1 DEF ReadForMark
    <3>5. w.todo = {} /\ w.move = "end" BY <1>1, <2>1 DEF Knows
    <3>6. Knows(x) BY <1>2, <3>2, <3>3, <3>5 DEF Knows, LockSteps
    <3> QED BY <1>4, <2>1, <3>2, <3>4, <3>6 DEF LockSteps
  <2>3. CASE records[w.key].state # "PAUSED"
    <3>1. CASE records[w.key].state = "ENDED" /\ records[w.key].ended # None
      <4>1. Done(a) BY <1>0, <1>1, <1>6, <2>3, <3>1 DEF ReadForMark, Done
      <4> QED BY <1>3, <2>1, <4>1
    <3>2. CASE ~(records[w.key].state = "ENDED" /\ records[w.key].ended # None)
      <4>1. PICK x : x = [w EXCEPT !.step = "mark"] OBVIOUS
      <4>2. DOMAIN x = Fields /\ x.at = w.at /\ x.step = "mark" /\ x.key = w.key
        BY <1>2, <4>1 DEF Fields
      <4>3. act' = [act EXCEPT ![a] = x] BY <1>0, <1>1, <1>6, <2>3, <3>2, <4>1 DEF ReadForMark
      <4>4. Knows(x) BY <1>2, <2>1, <4>2 DEF Knows, LockSteps
      <4> QED BY <1>4, <2>1, <4>2, <4>3, <4>4 DEF LockSteps
    <3> QED BY <3>1, <3>2
  <2> QED BY <2>2, <2>3
<1>7. CASE JudgeStatus(a)
  <2> DEFINE fits == {k \in Scheduled : ~Exists(Key(k)) /\ InWindow(k, w.at)}
             first == {k \in fits : \A j \in fits : ~Before(j, k)}
  <2>1. PICK x : x = [w EXCEPT !.step = "recordStatus",
                               !.plan = IF first = {} THEN {} ELSE {CHOOSE k \in first : TRUE}]
    OBVIOUS
  <2>2. /\ w.step = "judgeStatus" /\ act' = [act EXCEPT ![a] = x]
        /\ UNCHANGED <<clock, tables, holder>>
    BY <1>0, <1>1, <1>7, <2>1 DEF JudgeStatus, At
  <2>3. /\ DOMAIN x = Fields /\ x.at = w.at /\ x.step = "recordStatus" /\ x.key = w.key
        /\ x.plan = IF first = {} THEN {} ELSE {CHOOSE k \in first : TRUE}
    BY <1>2, <2>1 DEF Fields
  <2>4. first \subseteq Scheduled OBVIOUS
  <2> HIDE DEF first
  <2>5. x.plan \subseteq Scheduled BY <2>3, <2>4
  <2>6. Knows(x) BY <1>1, <2>2, <2>3, <2>5 DEF Knows, LockSteps
  <2> QED BY <1>4, <2>2, <2>3, <2>6 DEF LockSteps
<1>8. ASSUME NEW keys, keys \subseteq Paused, w.step = "autoSkip", w.move # "start",
             act' = [act EXCEPT ![a].step = "endPaused", ![a].todo = keys],
             UNCHANGED <<clock, tables, holder>>
      PROVE  Inv' /\ Stands
  <2>1. PICK x : x = [w EXCEPT !.step = "endPaused", !.todo = keys] OBVIOUS
  <2>2. act' = [act EXCEPT ![a] = x] BY <1>0, <1>1, <1>8, <2>1
  <2>3. /\ DOMAIN x = Fields /\ x.at = w.at /\ x.step = "endPaused" /\ x.move = w.move
        /\ x.todo = keys
    BY <1>2, <2>1 DEF Fields
  <2>4. Knows(x) BY <1>2, <1>8, <2>3, PausedIsTaken DEF Knows, LockSteps
  <2> QED BY <1>4, <1>8, <2>2, <2>3, <2>4 DEF LockSteps
<1>9. CASE ListExpired(a)
  <2>1. {key \in Paused : Closes[key[1]] < act[a].at} \subseteq Paused OBVIOUS
  <2> QED BY <1>0, <1>8, <1>9, <2>1 DEF ListExpired, At
<1>10. CASE ListPaused(a) BY <1>0, <1>8, <1>10 DEF ListPaused, At
<1>11. CASE BreakEnded(a) \/ Swept(a) BY <1>3, <1>11 DEF BreakEnded, Swept
<1> QED BY <1>5, <1>6, <1>7, <1>9, <1>10, <1>11

-----------------------------------------------------------------------------
(* What the writers put in the tables *)

LEMMA RequestKnows ==
  ASSUME Inv, NEW a \in Actors, NEW w, w = act[a]
  PROVE  /\ Knows(w) /\ LockHolds(a, w) /\ DOMAIN w = Fields /\ w.at \in Times
         /\ DOMAIN act = Actors /\ clock \in Times
BY DEF Inv, Tables, Knows

\* A request that is done leaves nothing to know.
LEMMA DoneWrites ==
  ASSUME Inv, NEW a \in Actors, Done(a), clock' = clock, asked' \in 0 .. MaxRequests,
         work' \subseteq WorkRow, marked' \subseteq Days,
         presence' \in [SessionIds -> SessionRow \cup {None}],
         PresenceGrows, RecordsGood, OneRuns', EndedDayIsQuiet',
         \/ holder = None /\ holder' = None
         \/ holder = a /\ holder' = None
         \/ holder' = holder /\ Running' \subseteq Running /\ marked' \subseteq marked
  PROVE  Inv' /\ Stands
<1>1. PICK x : x = Idle OBVIOUS
<1>2. DOMAIN x = Fields /\ x.at = 0 /\ x.step = "idle" BY <1>1 DEF Idle, Fields
<1>3. 0 \in Times BY BreaksAssumption DEF Times
<1>4. Knows(x)' BY <1>2, <1>3 DEF Knows, LockSteps
<1>5. act' = [act EXCEPT ![a] = x] BY <1>1 DEF Done
<1>6. clock' \in Times BY DEF Inv, Tables
<1>7. x.step \notin LockSteps BY <1>2 DEF LockSteps
<1> QED BY <1>4, <1>5, <1>6, <1>7, Writes

\* A taken break of session s, as it is stored.
LEMMA TakenHolds ==
  ASSUME NEW key, NEW s \in SessionIds, presence'[s] # None, NEW t \in Times, NEW r,
         \/ r = TakenRecord(s, t)
         \/ r = [TakenRecord(s, t) EXCEPT !.state = "ENDED"]
  PROVE  RecordHolds(key, r)' /\ r.outcome = "TAKEN" /\ r.segs = {s}
<1>1. PICK p : p = TakenRecord(s, t) OBVIOUS
<1>2. t \in Nat BY BreaksAssumption DEF Times
<1>3. /\ p \in Record /\ p.outcome = "TAKEN" /\ p.link = s /\ p.segs = {s}
      /\ p.ended = None /\ p.state = "ACTIVE"
  BY <1>1, <1>2 DEF TakenRecord, Record
<1>4. r = p \/ r = [p EXCEPT !.state = "ENDED"] BY <1>1
<1>5. /\ r \in Record /\ r.outcome = "TAKEN" /\ r.link = s /\ r.segs = {s}
      /\ r.ended = None /\ r.state # "PAUSED"
  BY <1>3, <1>4 DEF Record
<1> QED BY <1>5 DEF RecordHolds

LEMMA SkipHolds ==
  ASSUME NEW outcome \in {"SKIPPED", "AUTO_SKIPPED"}, NEW t \in Nat, NEW reason \in BOOLEAN,
         NEW k \in Scheduled, NEW r, r = SkipRecord(outcome, t, reason)
  PROVE  RecordHolds(Key(k), r)'
<1>1. r \in Record BY DEF SkipRecord, Record
<1>2. /\ r.outcome # "TAKEN" /\ r.link = None /\ r.segs = {} /\ r.ended = None
      /\ r.state # "PAUSED"
  BY DEF SkipRecord
<1>3. Key(k)[1] = k BY KeyOf
<1>4. PICK key : key = Key(k) OBVIOUS
<1>5. RecordHolds(key, r)' BY <1>1, <1>2, <1>3, <1>4 DEF RecordHolds
<1> QED BY <1>4, <1>5 DEF RecordHolds, Key

\* A break that was taken ends where a segment of it does.
LEMMA EndsAs ==
  ASSUME Inv, PresenceGrows, NEW key, Taken(key), NEW end \in Times,
         \E s \in records[key].segs : presence'[s].to = end, records' = Ended(key, end)
  PROVE  RecordsGood
<1>0. end \in Nat BY BreaksAssumption DEF Times
<1>1. PICK q : q = records[key] OBVIOUS
<1>2. key \in Keys /\ Exists(key) /\ RecordHolds(key, q) BY <1>1 DEF Taken, Inv, RecordsHold
<1>3. RecordHolds(key, q)' BY <1>2, RecordStays
<1>4. PICK r : r = [q EXCEPT !.state = "ENDED", !.ended = end] OBVIOUS
<1>5. records' = [records EXCEPT ![key] = r] BY <1>1, <1>2, <1>4 DEF Ended, Inv, Tables
<1>6. q \in Record /\ q.outcome = "TAKEN" BY <1>1, <1>2 DEF RecordHolds, Taken
<1>7. /\ r \in Record /\ r.outcome = q.outcome /\ r.segs = q.segs /\ r.link = q.link
      /\ r.state = "ENDED" /\ r.ended = end
  BY <1>0, <1>4, <1>6 DEF Record
<1>8. RecordHolds(key, r)' BY <1>1, <1>3, <1>6, <1>7 DEF RecordHolds
<1> QED BY <1>1, <1>2, <1>5, <1>7, <1>8, RecordWritten

\* What is closed at t stays a work session.
LEMMA WorkCloses ==
  ASSUME Inv, NEW t \in Times
  PROVE  ClosedWork(t) \subseteq WorkRow /\ OpenDates \subseteq Days
<1>1. OpenDates \subseteq Days BY DEF OpenDates, DayOf, Days
<1>2. ASSUME NEW w \in work
      PROVE  (IF w.to = None THEN [w EXCEPT !.to = Later(t, w.from)] ELSE w) \in WorkRow
  BY <1>2 DEF Inv, Tables, WorkRow, Later
<1> QED BY <1>1, <1>2 DEF ClosedWork

-----------------------------------------------------------------------------
(* The steps that open a session *)

LEMMA StartScheduledKeeps ==
  ASSUME Inv, asked' \in 0 .. MaxRequests, NEW a \in Actors, StartScheduled(a)
  PROVE  Inv' /\ Stands
<1>0. PICK w : w = act[a] OBVIOUS
<1>1. Knows(w) /\ w.at \in Times /\ clock \in Times BY <1>0, RequestKnows
<1>2. /\ holder = None /\ holder' = None /\ Done(a) /\ UNCHANGED <<clock, work, marked>>
      /\ w.step = "endPaused" /\ w.move = "start"
  BY <1>0 DEF StartScheduled, PausedEnded, At, Unlocked
<1>3. PICK k \in Scheduled : w.key = Key(k) BY <1>1, <1>2 DEF Knows
<1>4. PICK key \in Keys : key = Key(k) BY KeyOf
<1>5. work' \subseteq WorkRow /\ marked' \subseteq Days BY <1>2 DEF Inv, Tables
<1>6. CASE MayStart(key, w.at)
  <2>1. PICK s \in SessionIds :
          /\ presence[s] = None
          /\ presence' = [x \in SessionIds |->
                            IF x = s THEN NewSession("BREAK", "BREAKS", w.at)
                            ELSE IF x \in Running THEN [presence[x] EXCEPT !.to = w.at]
                            ELSE presence[x]]
          /\ records' = [records EXCEPT ![key] = TakenRecord(s, w.at)]
    BY <1>0, <1>3, <1>4, <1>6 DEF StartScheduled
  <2>2. /\ presence' = [u \in SessionIds |-> presence'[u]]
        /\ presence'[s] = NewSession("BREAK", "BREAKS", w.at)
    BY <2>1
  <2>3. ASSUME NEW u \in SessionIds \ {s}
        PROVE  \/ u \notin Running /\ presence'[u] = presence[u]
               \/ u \in Running /\ \E v \in Times : presence'[u] = [presence[u] EXCEPT !.to = v]
    BY <1>1, <2>1
  <2>4. /\ PresenceGrows /\ presence' \in [SessionIds -> SessionRow \cup {None}]
        /\ presence'[s] # None /\ OneRuns' /\ EndedDayIsQuiet'
    BY <1>1, <1>2, <1>6, <2>1, <2>2, <2>3, OneOpens DEF MayStart
  <2>5. PICK r : r = TakenRecord(s, w.at) OBVIOUS
  <2>6. RecordHolds(key, r)' /\ r.outcome = "TAKEN"
    <3>1. presence'[s] # None /\ w.at \in Times BY <1>1, <2>4
    <3> QED BY <2>5, <3>1, TakenHolds
  <2>7. Exists(key) => records[key].outcome = "AUTO_SKIPPED" /\ ~records[key].reason
    BY <1>6 DEF MayStart, IsReplaceable
  <2>8. ~Taken(key) BY <2>7 DEF Taken
  <2>9. records' = [records EXCEPT ![key] = r] BY <2>1, <2>5
  <2>10. RecordsGood BY <2>4, <2>6, <2>7, <2>8, <2>9, RecordWritten
  <2> QED BY <1>2, <1>5, <2>4, <2>10, DoneWrites
<1>7. CASE ~MayStart(key, w.at)
  <2>1. presence' = presence /\ records' = records
    BY <1>0, <1>3, <1>4, <1>7 DEF StartScheduled
  <2>2. /\ PresenceGrows /\ Running' = Running
        /\ presence' \in [SessionIds -> SessionRow \cup {None}]
    BY <2>1, SessionsSame
  <2>3. RecordsGood BY <2>1, <2>2, RecordsSame
  <2>4. OneRuns' /\ EndedDayIsQuiet' BY <1>2, <2>2, FewerRun
  <2> QED BY <1>2, <1>5, <2>2, <2>3, <2>4, DoneWrites
<1> QED BY <1>6, <1>7

LEMMA StartQuickKeeps ==
  ASSUME Inv, asked' \in 0 .. MaxRequests, NEW a \in Actors, StartQuick(a)
  PROVE  Inv' /\ Stands
<1>0. PICK w : w = act[a] OBVIOUS
<1>1. w.at \in Times BY <1>0, RequestKnows
<1>2. holder = None /\ holder' = None /\ Done(a) /\ UNCHANGED <<clock, work, marked>>
  BY DEF StartQuick, Unlocked
<1>3. PICK key : key = <<"QUICK", Cardinality(QuickKeys) + 1>> OBVIOUS
<1>4. work' \subseteq WorkRow /\ marked' \subseteq Days BY <1>2 DEF Inv, Tables
<1>5. CASE MayStartQuick(w.at)
  <2>1. PICK s \in SessionIds :
          /\ presence[s] = None /\ key \in Keys
          /\ presence' = [presence EXCEPT ![s] = NewSession("BREAK", "BREAKS", w.at)]
          /\ records' = [records EXCEPT ![key] = TakenRecord(s, w.at)]
    BY <1>0, <1>3, <1>5 DEF StartQuick
  <2>2. presence \in [SessionIds -> SessionRow \cup {None}] BY DEF Inv, Tables
  <2>3. /\ presence' = [u \in SessionIds |-> presence'[u]]
        /\ presence'[s] = NewSession("BREAK", "BREAKS", w.at)
        /\ \A u \in SessionIds \ {s} : u \notin Running /\ presence'[u] = presence[u]
    BY <1>5, <2>1, <2>2 DEF MayStartQuick
  <2>4. /\ PresenceGrows /\ presence' \in [SessionIds -> SessionRow \cup {None}]
        /\ presence'[s] # None /\ OneRuns' /\ EndedDayIsQuiet'
    BY <1>1, <1>2, <1>5, <2>1, <2>3, OneOpens DEF MayStartQuick
  <2>5. PICK r : r = TakenRecord(s, w.at) OBVIOUS
  <2>6. RecordHolds(key, r)' /\ r.outcome = "TAKEN"
    <3>1. presence'[s] # None /\ w.at \in Times BY <1>1, <2>4
    <3> QED BY <2>5, <3>1, TakenHolds
  <2>7. key[1] \notin Scheduled BY <1>3, BreaksAssumption
  <2>8. Exists(key) => r.outcome = records[key].outcome
    BY <2>1, <2>6, <2>7 DEF Inv, RecordsHold, RecordHolds
  <2>9. records' = [records EXCEPT ![key] = r] BY <2>1, <2>5
  <2>10. RecordsGood BY <2>1, <2>4, <2>6, <2>7, <2>8, <2>9, RecordWritten
  <2> QED BY <1>2, <1>4, <2>4, <2>10, DoneWrites
<1>6. CASE ~MayStartQuick(w.at)
  <2>1. presence' = presence /\ records' = records BY <1>0, <1>6 DEF StartQuick
  <2>2. /\ PresenceGrows /\ Running' = Running
        /\ presence' \in [SessionIds -> SessionRow \cup {None}]
    BY <2>1, SessionsSame
  <2>3. RecordsGood BY <2>1, <2>2, RecordsSame
  <2>4. OneRuns' /\ EndedDayIsQuiet' BY <1>2, <2>2, FewerRun
  <2> QED BY <1>2, <1>4, <2>2, <2>3, <2>4, DoneWrites
<1> QED BY <1>5, <1>6

LEMMA ResumeKeeps ==
  ASSUME Inv, asked' \in 0 .. MaxRequests, NEW a \in Actors, Resume(a)
  PROVE  Inv' /\ Stands
<1>0. PICK w : w = act[a] OBVIOUS
<1>1. Knows(w) /\ LockHolds(a, w) /\ w.at \in Times BY <1>0, RequestKnows
<1>2. /\ w.step = "resume" /\ holder' = None /\ Done(a)
      /\ UNCHANGED <<clock, work, marked>>
  BY <1>0 DEF Resume, At
<1>3. /\ holder = a /\ Running = {} /\ DayOf(w.at) \notin marked
  BY <1>1, <1>2 DEF LockHolds, LockSteps
<1>4. PICK key : key = w.key OBVIOUS
<1>5. Taken(key) /\ key \in Keys /\ Exists(key) /\ key[1] \in Scheduled
  BY <1>1, <1>2, <1>4 DEF Knows, LockSteps, Taken
<1>6. PICK s \in SessionIds :
        /\ presence[s] = None
        /\ presence' = [presence EXCEPT ![s] = NewSession("BREAK", "BREAKS", w.at)]
        /\ records' = Resumed(key, s)
  BY <1>0, <1>4 DEF Resume
<1>7. presence \in [SessionIds -> SessionRow \cup {None}] BY DEF Inv, Tables
<1>8. /\ presence' = [u \in SessionIds |-> presence'[u]]
      /\ presence'[s] = NewSession("BREAK", "BREAKS", w.at)
      /\ \A u \in SessionIds \ {s} : u \notin Running /\ presence'[u] = presence[u]
  BY <1>3, <1>6, <1>7
<1>9. /\ PresenceGrows /\ presence' \in [SessionIds -> SessionRow \cup {None}]
      /\ Running' = {s} /\ presence'[s] # None /\ OneRuns' /\ EndedDayIsQuiet'
  BY <1>1, <1>2, <1>3, <1>6, <1>8, OneOpens
<1>10. PICK q : q = records[key] OBVIOUS
<1>11. RecordHolds(key, q) BY <1>5, <1>10 DEF Inv, RecordsHold
<1>12. RecordHolds(key, q)' BY <1>9, <1>11, RecordStays
<1>13. PICK r : r = [q EXCEPT !.state = "ACTIVE", !.link = s, !.segs = q.segs \cup {s}] OBVIOUS
<1>14. q \in Record /\ q.outcome = "TAKEN" BY <1>5, <1>10, <1>11 DEF RecordHolds, Taken
<1>15. /\ r \in Record /\ r.outcome = "TAKEN" /\ r.segs = q.segs \cup {s} /\ r.link = s
       /\ r.state = "ACTIVE" /\ r.ended = q.ended
  BY <1>13, <1>14 DEF Record
<1>16. RecordHolds(key, r)' BY <1>9, <1>12, <1>15 DEF RecordHolds
<1>17. records' = [records EXCEPT ![key] = r]
  BY <1>5, <1>6, <1>10, <1>13 DEF Resumed, Inv, Tables
<1>18. RecordsGood BY <1>5, <1>9, <1>10, <1>14, <1>15, <1>16, <1>17, RecordWritten
<1>19. work' \subseteq WorkRow /\ marked' \subseteq Days BY <1>2 DEF Inv, Tables
<1> QED BY <1>2, <1>3, <1>9, <1>18, <1>19, DoneWrites

\* What runs is closed; a session of a status is no break endpoint's.
LEMMA SwitchKeeps ==
  ASSUME Inv, asked' \in 0 .. MaxRequests, NEW a \in Actors, Switch(a)
  PROVE  Inv' /\ Stands
<1>0. PICK w : w = act[a] OBVIOUS
<1>1. Knows(w) /\ DOMAIN w = Fields /\ w.at \in Times /\ DOMAIN act = Actors /\ clock \in Times
  BY <1>0, RequestKnows
<1>2. /\ w.step = "switch" /\ holder = None /\ holder' = None
      /\ UNCHANGED <<clock, work, marked, records>>
  BY <1>0 DEF Switch, At, Unlocked
<1>3. w.move \in {"BREAK", "MEETING"} BY <1>1, <1>2 DEF Knows
<1>4. PICK s \in SessionIds :
        /\ presence[s] = None
        /\ presence' = [CloseRunning(w.at) EXCEPT ![s] = NewSession(w.move, "STATUS", w.at)]
        /\ \/ act' = [act EXCEPT ![a].step = "judgeStatus", ![a].key = <<"OFF", s>>]
           \/ Done(a)
  BY <1>0 DEF Switch
<1>5. ASSUME NEW u \in SessionIds \ {s}
      PROVE  \/ u \notin Running /\ presence'[u] = presence[u]
             \/ u \in Running /\ \E v \in Times : presence'[u] = [presence[u] EXCEPT !.to = v]
  <2>1. presence'[u] = CloseRunning(w.at)[u] BY <1>4 DEF CloseRunning
  <2>2. CASE u \notin Running BY <2>1, <2>2 DEF CloseRunning
  <2>3. CASE u \in Running
    <3>1. presence[u] \in SessionRow BY <2>3 DEF Inv, Tables, Running
    <3>2. Later(w.at, presence[u].from) \in Times BY <1>1, <3>1 DEF Later, SessionRow
    <3> QED BY <2>1, <2>3, <3>2 DEF CloseRunning
  <2> QED BY <2>2, <2>3
<1>6. /\ presence' = [u \in SessionIds |-> presence'[u]]
      /\ presence'[s] = NewSession(w.move, "STATUS", w.at)
  BY <1>4 DEF CloseRunning
<1>7. /\ PresenceGrows /\ presence' \in [SessionIds -> SessionRow \cup {None}]
      /\ presence'[s] # None /\ OneRuns' /\ EndedDayIsQuiet'
  BY <1>1, <1>2, <1>3, <1>4, <1>5, <1>6, OneOpens
<1>8. RecordsGood BY <1>2, <1>7, RecordsSame
<1>9. work' \subseteq WorkRow /\ marked' \subseteq Days BY <1>2 DEF Inv, Tables
<1>10. CASE act' = [act EXCEPT ![a].step = "judgeStatus", ![a].key = <<"OFF", s>>]
  <2>1. PICK x : x = [w EXCEPT !.step = "judgeStatus", !.key = <<"OFF", s>>] OBVIOUS
  <2>2. act' = [act EXCEPT ![a] = x] BY <1>0, <1>1, <1>10, <2>1
  <2>3. /\ DOMAIN x = Fields /\ x.at \in Times /\ x.step = "judgeStatus"
        /\ x.key = <<"OFF", s>>
    BY <1>1, <2>1 DEF Fields
  <2>4. Knows(x)' BY <1>7, <2>3 DEF Knows, LockSteps
  <2>5. x.step \notin LockSteps BY <2>3 DEF LockSteps
  <2> QED BY <1>1, <1>2, <1>7, <1>8, <1>9, <2>2, <2>4, <2>5, Writes
<1>11. CASE Done(a) BY <1>2, <1>7, <1>8, <1>9, <1>11, DoneWrites
<1> QED BY <1>4, <1>10, <1>11

-----------------------------------------------------------------------------
(* The steps that end a session or a break *)

LEMMA WritePausedKeeps ==
  ASSUME Inv, asked' \in 0 .. MaxRequests, NEW a \in Actors, WritePaused(a)
  PROVE  Inv' /\ Stands
<1>0. PICK w : w = act[a] OBVIOUS
<1>1. Knows(w) /\ DOMAIN w = Fields /\ w.at \in Times /\ DOMAIN act = Actors /\ clock \in Times
  BY <1>0, RequestKnows
<1>2. w.step = "writePaused" /\ UNCHANGED <<clock, work, marked, presence, holder>>
  BY <1>0 DEF WritePaused, At
<1>3. PICK key, end : key = w.ending.key /\ end = w.ending.end OBVIOUS
<1>4. records' = Ended(key, end) BY <1>0, <1>3 DEF WritePaused
<1>5. TakenEnd(key, end) BY <1>1, <1>2, <1>3 DEF Knows
<1>6. /\ PresenceGrows /\ Running' = Running
      /\ presence' \in [SessionIds -> SessionRow \cup {None}]
  BY <1>2, SessionsSame
<1>7. \E s \in records[key].segs : presence'[s].to = end BY <1>2, <1>5 DEF TakenEnd
<1>8. Taken(key) /\ end \in Times BY <1>5 DEF TakenEnd
<1>9. RecordsGood BY <1>4, <1>6, <1>7, <1>8, EndsAs
<1>10. OneRuns' /\ EndedDayIsQuiet' BY <1>2, <1>6, FewerRun
<1>11. PICK x : x = [w EXCEPT !.step = "endPaused", !.ending = None] OBVIOUS
<1>12. act' = [act EXCEPT ![a] = x] BY <1>0, <1>1, <1>11 DEF WritePaused
<1>13. /\ DOMAIN x = Fields /\ x.at = w.at /\ x.step = "endPaused" /\ x.move = w.move
       /\ x.todo = w.todo /\ x.key = w.key
  BY <1>1, <1>11 DEF Fields
<1>14. \A k \in w.todo : Taken(k)' BY <1>1, <1>2, <1>9 DEF Knows, RecordsGood, TakenGrow, Taken
<1>15. w.move = "start" => \E k \in Scheduled : w.key = Key(k) BY <1>1, <1>2 DEF Knows
<1>16. Knows(x)' BY <1>1, <1>13, <1>14, <1>15 DEF Knows, LockSteps, Key
<1>17. x.step \notin LockSteps BY <1>13 DEF LockSteps
<1>18. work' \subseteq WorkRow /\ marked' \subseteq Days BY <1>2 DEF Inv, Tables
<1> QED BY <1>1, <1>2, <1>6, <1>9, <1>10, <1>12, <1>16, <1>17, <1>18, Writes

LEMMA PauseKeeps ==
  ASSUME Inv, asked' \in 0 .. MaxRequests, NEW a \in Actors, Pause(a)
  PROVE  Inv' /\ Stands
<1>0. PICK w : w = act[a] OBVIOUS
<1>1. Knows(w) /\ LockHolds(a, w) /\ w.at \in Times BY <1>0, RequestKnows
<1>2. w.step = "pause" /\ holder' = None /\ Done(a) /\ UNCHANGED <<clock, work, marked>>
  BY <1>0 DEF Pause, At
<1>3. holder = a BY <1>1, <1>2 DEF LockHolds, LockSteps
<1>4. PICK key : key = w.key OBVIOUS
<1>5. Taken(key) /\ key \in Keys /\ Exists(key) /\ key[1] \in Scheduled
  BY <1>1, <1>2, <1>4 DEF Knows, LockSteps, Taken
<1>6. PICK q : q = records[key] OBVIOUS
<1>7. /\ presence' = IF q.link \in Running THEN [presence EXCEPT ![q.link].to = w.at] ELSE presence
      /\ records' = [records EXCEPT ![key].state = "PAUSED"]
  BY <1>0, <1>4, <1>6 DEF Pause
<1>8. /\ PresenceGrows /\ Running' = Running \ {q.link}
      /\ presence' \in [SessionIds -> SessionRow \cup {None}]
  BY <1>1, <1>7, OneEnds
<1>9. OneRuns' /\ EndedDayIsQuiet' BY <1>2, <1>8, FewerRun
<1>10. RecordHolds(key, q) BY <1>5, <1>6 DEF Inv, RecordsHold
<1>11. RecordHolds(key, q)' BY <1>8, <1>10, RecordStays
<1>12. PICK r : r = [q EXCEPT !.state = "PAUSED"] OBVIOUS
<1>13. q \in Record /\ q.outcome = "TAKEN" BY <1>5, <1>6, <1>10 DEF RecordHolds, Taken
<1>14. /\ r \in Record /\ r.outcome = "TAKEN" /\ r.segs = q.segs /\ r.link = q.link
       /\ r.state = "PAUSED" /\ r.ended = q.ended
  BY <1>12, <1>13 DEF Record
<1>15. \A s \in q.segs : s \notin Running' BY <1>8, <1>11 DEF RecordHolds
<1>16. RecordHolds(key, r)' BY <1>5, <1>11, <1>13, <1>14, <1>15 DEF RecordHolds
<1>17. records' = [records EXCEPT ![key] = r] BY <1>5, <1>6, <1>7, <1>12 DEF Inv, Tables
<1>18. RecordsGood BY <1>5, <1>6, <1>8, <1>13, <1>14, <1>16, <1>17, RecordWritten
<1>19. work' \subseteq WorkRow /\ marked' \subseteq Days BY <1>2 DEF Inv, Tables
<1> QED BY <1>2, <1>3, <1>8, <1>9, <1>18, <1>19, DoneWrites

LEMMA EndLateKeeps ==
  ASSUME Inv, asked' \in 0 .. MaxRequests, NEW a \in Actors, EndLate(a)
  PROVE  Inv' /\ Stands
<1>0. PICK w : w = act[a] OBVIOUS
<1>1. Knows(w) /\ LockHolds(a, w) BY <1>0, RequestKnows
<1>2. w.step = "endLate" /\ holder' = None /\ Done(a) /\ UNCHANGED <<clock, work, marked, presence>>
  BY <1>0 DEF EndLate, At
<1>3. holder = a BY <1>1, <1>2 DEF LockHolds, LockSteps
<1>4. PICK key : key = w.key OBVIOUS
<1>5. Taken(key) /\ key \in Keys /\ Exists(key)
  BY <1>1, <1>2, <1>4 DEF Knows, LockSteps, Taken
<1>6. /\ PresenceGrows /\ Running' = Running
      /\ presence' \in [SessionIds -> SessionRow \cup {None}]
  BY <1>2, SessionsSame
<1>7. OneRuns' /\ EndedDayIsQuiet' BY <1>2, <1>6, FewerRun
<1>8. RecordsGood
  <2>1. CASE records[key].state = "PAUSED"
    <3>1. PICK end : end = LastEnd(records[key]) OBVIOUS
    <3>2. TakenEnd(key, end) BY <1>5, <2>1, <3>1, LastEndHolds
    <3>3. end \in Times /\ \E s \in records[key].segs : presence'[s].to = end
      BY <1>2, <3>2 DEF TakenEnd
    <3>4. records' = Ended(key, end) BY <1>0, <1>4, <2>1, <3>1 DEF EndLate
    <3> QED BY <1>5, <1>6, <3>3, <3>4, EndsAs
  <2>2. CASE records[key].state # "PAUSED"
    <3>1. records' = records BY <1>0, <1>4, <2>2 DEF EndLate
    <3> QED BY <1>6, <3>1, RecordsSame
  <2> QED BY <2>1, <2>2
<1>9. work' \subseteq WorkRow /\ marked' \subseteq Days BY <1>2 DEF Inv, Tables
<1> QED BY <1>2, <1>3, <1>6, <1>7, <1>8, <1>9, DoneWrites

LEMMA EndOpenKeeps ==
  ASSUME Inv, asked' \in 0 .. MaxRequests, NEW a \in Actors, EndOpen(a)
  PROVE  Inv' /\ Stands
<1>0. PICK w : w = act[a] OBVIOUS
<1>1. Knows(w) /\ DOMAIN w = Fields /\ w.at \in Times /\ DOMAIN act = Actors /\ clock \in Times
  BY <1>0, RequestKnows
<1>2. /\ w.step = "endOpen" /\ holder = None /\ holder' = None
      /\ presence' = CloseRunning(w.at) /\ UNCHANGED <<clock, work, marked, records>>
  BY <1>0 DEF EndOpen, At, Unlocked
<1>3. /\ PresenceGrows /\ Running' = {}
      /\ presence' \in [SessionIds -> SessionRow \cup {None}]
  BY <1>1, <1>2, AllEnd
<1>4. OneRuns' /\ EndedDayIsQuiet' BY <1>3, NoneRun
<1>5. RecordsGood BY <1>2, <1>3, RecordsSame
<1>6. work' \subseteq WorkRow /\ marked' \subseteq Days BY <1>2 DEF Inv, Tables
<1>7. CASE w.key = None
  <2>1. Done(a) BY <1>0, <1>7 DEF EndOpen
  <2> QED BY <1>2, <1>3, <1>4, <1>5, <1>6, <2>1, DoneWrites
<1>8. CASE w.key # None
  <2>1. PICK x : x = [w EXCEPT !.step = "markEnded"] OBVIOUS
  <2>2. act' = [act EXCEPT ![a] = x] BY <1>0, <1>1, <1>8, <2>1 DEF EndOpen, Goto
  <2>3. /\ DOMAIN x = Fields /\ x.at = w.at /\ x.step = "markEnded" /\ x.key = w.key
        /\ x.todo = w.todo /\ x.move = w.move
    BY <1>1, <2>1 DEF Fields
  <2>4. w.todo = {} /\ w.move = "end" /\ Taken(w.key) BY <1>1, <1>2, <1>8 DEF Knows
  <2>5. PICK key : key = w.key OBVIOUS
  <2>6. Taken(key)' BY <1>5, <2>4, <2>5 DEF RecordsGood, TakenGrow, Taken
  <2>7. Knows(x)' BY <1>1, <2>3, <2>4, <2>5, <2>6 DEF Knows, LockSteps
  <2>8. x.step \notin LockSteps BY <2>3 DEF LockSteps
  <2> QED BY <1>1, <1>2, <1>3, <1>4, <1>5, <1>6, <2>2, <2>7, <2>8, Writes
<1> QED BY <1>7, <1>8

LEMMA MarkEndedKeeps ==
  ASSUME Inv, asked' \in 0 .. MaxRequests, NEW a \in Actors, MarkEnded(a)
  PROVE  Inv' /\ Stands
<1>0. PICK w : w = act[a] OBVIOUS
<1>1. Knows(w) /\ w.at \in Times BY <1>0, RequestKnows
<1>2. w.step = "mark" /\ Done(a) /\ UNCHANGED <<clock, work, marked, holder>>
  BY <1>0 DEF MarkEnded, At
<1>3. PICK key : key = w.key OBVIOUS
<1>4. Taken(key) /\ key \in Keys /\ Exists(key) BY <1>1, <1>2, <1>3 DEF Knows, Taken
<1>5. PICK s : s = records[key].link OBVIOUS
<1>6. PICK end : end = IF s \in Running THEN w.at ELSE presence[s].to OBVIOUS
<1>7. /\ presence' = IF s \in Running THEN [presence EXCEPT ![s].to = w.at] ELSE presence
      /\ records' = Ended(key, end)
  BY <1>0, <1>3, <1>5, <1>6 DEF MarkEnded
<1>8. /\ PresenceGrows /\ Running' = Running \ {s}
      /\ presence' \in [SessionIds -> SessionRow \cup {None}]
      /\ s \in Running => presence'[s].to = w.at
  BY <1>1, <1>7, OneEnds
<1>9. RecordHolds(key, records[key]) BY <1>4 DEF Inv, RecordsHold
<1>10. s \in records[key].segs /\ s \in SessionIds /\ presence[s] # None
  BY <1>4, <1>5, <1>9 DEF RecordHolds, Record, Taken
<1>11. presence'[s].to = end /\ end \in Times
  <2>1. CASE s \in Running BY <1>1, <1>6, <1>8, <2>1
  <2>2. CASE s \notin Running
    <3>1. presence[s] \in SessionRow BY <1>10 DEF Inv, Tables
    <3>2. presence[s].to # None BY <1>10, <2>2 DEF Running
    <3> QED BY <1>6, <1>7, <2>2, <3>1, <3>2 DEF SessionRow
  <2> QED BY <2>1, <2>2
<1>12. RecordsGood BY <1>4, <1>7, <1>8, <1>10, <1>11, EndsAs
<1>13. OneRuns' /\ EndedDayIsQuiet' BY <1>2, <1>8, FewerRun
<1>14. work' \subseteq WorkRow /\ marked' \subseteq Days BY <1>2 DEF Inv, Tables
<1> QED BY <1>2, <1>8, <1>12, <1>13, <1>14, DoneWrites

LEMMA EndDayKeeps ==
  ASSUME Inv, asked' \in 0 .. MaxRequests, NEW a \in Actors, EndDay(a)
  PROVE  Inv' /\ Stands
<1>0. PICK w : w = act[a] OBVIOUS
<1>1. w.at \in Times BY <1>0, RequestKnows
<1>2. holder = None /\ holder' = None /\ Done(a) /\ UNCHANGED <<clock, records>>
  BY DEF EndDay, Unlocked
<1>3. CASE WorkOpen
  <2>1. /\ work' = ClosedWork(w.at) /\ presence' = CloseRunning(w.at)
        /\ marked' = marked \cup OpenDates \cup {DayOf(w.at)}
    BY <1>0, <1>3 DEF EndDay
  <2>2. /\ PresenceGrows /\ Running' = {}
        /\ presence' \in [SessionIds -> SessionRow \cup {None}]
    BY <1>1, <2>1, AllEnd
  <2>3. RecordsGood BY <1>2, <2>2, RecordsSame
  <2>4. OneRuns' /\ EndedDayIsQuiet' BY <2>2, NoneRun
  <2>5. work' \subseteq WorkRow /\ OpenDates \subseteq Days BY <1>1, <2>1, WorkCloses
  <2>6. marked' \subseteq Days BY <2>1, <2>5 DEF Inv, Tables, DayOf, Days
  <2> QED BY <1>2, <2>2, <2>3, <2>4, <2>5, <2>6, DoneWrites
<1>4. CASE ~WorkOpen
  <2>1. UNCHANGED <<work, marked, presence>> BY <1>4 DEF EndDay
  <2>2. /\ PresenceGrows /\ Running' = Running
        /\ presence' \in [SessionIds -> SessionRow \cup {None}]
    BY <2>1, SessionsSame
  <2>3. RecordsGood BY <1>2, <2>2, RecordsSame
  <2>4. OneRuns' /\ EndedDayIsQuiet' BY <2>1, <2>2, FewerRun
  <2>5. work' \subseteq WorkRow /\ marked' \subseteq Days BY <2>1 DEF Inv, Tables
  <2> QED BY <1>2, <2>2, <2>3, <2>4, <2>5, DoneWrites
<1> QED BY <1>3, <1>4

LEMMA EndStatusKeeps ==
  ASSUME Inv, asked' \in 0 .. MaxRequests, NEW a \in Actors, EndStatus(a)
  PROVE  Inv' /\ Stands
<1>1. /\ holder = None /\ presence' = CloseRunning(clock)
      /\ UNCHANGED <<clock, work, marked, records, holder, act>>
  BY DEF EndStatus, Unlocked
<1>2. clock \in Times /\ work' \subseteq WorkRow /\ marked' \subseteq Days
  BY <1>1 DEF Inv, Tables
<1>3. /\ PresenceGrows /\ Running' = {}
      /\ presence' \in [SessionIds -> SessionRow \cup {None}]
  BY <1>1, <1>2, AllEnd
<1>4. OneRuns' /\ EndedDayIsQuiet' BY <1>3, NoneRun
<1>5. RecordsGood BY <1>1, <1>3, RecordsSame
<1> QED BY <1>1, <1>2, <1>3, <1>4, <1>5, WritesAtOnce

\* An automatic close closes everything at its moment, and takes back only
\* auto-skips that nobody decided.
LEMMA AutoCloseKeeps ==
  ASSUME Inv, asked' \in 0 .. MaxRequests, NEW a \in Actors, AutoClose(a)
  PROVE  Inv' /\ Stands
<1>1. PICK w \in work : \E t \in w.from .. clock :
        /\ work' = ClosedWork(t) /\ presence' = CloseRunning(t)
        /\ marked' = marked \cup OpenDates
        /\ records' = [key \in Keys |-> IF NotDue(key, t) THEN None ELSE records[key]]
  BY DEF AutoClose
<1>2. PICK t \in w.from .. clock :
        /\ work' = ClosedWork(t) /\ presence' = CloseRunning(t)
        /\ marked' = marked \cup OpenDates
        /\ records' = [key \in Keys |-> IF NotDue(key, t) THEN None ELSE records[key]]
  BY <1>1
<1>3. holder = None /\ UNCHANGED <<clock, holder, act>> BY DEF AutoClose, Unlocked
<1>4. t \in Times /\ clock \in Times
  <2>1. w \in WorkRow /\ clock \in Times BY DEF Inv, Tables
  <2>2. w.from \in 0 .. MaxTime /\ clock \in 0 .. MaxTime BY <2>1 DEF WorkRow, Times
  <2> QED BY <2>2, BreaksAssumption DEF Times
<1>5. /\ PresenceGrows /\ Running' = {}
      /\ presence' \in [SessionIds -> SessionRow \cup {None}]
  BY <1>2, <1>4, AllEnd
<1>6. OneRuns' /\ EndedDayIsQuiet' BY <1>5, NoneRun
<1>7. work' \subseteq WorkRow /\ marked' \subseteq Days
  BY <1>2, <1>4, WorkCloses DEF Inv, Tables
<1>8. records' \in [Keys -> Record \cup {None}] BY <1>2 DEF Inv, Tables
<1>9. ASSUME NEW key \in Keys
      PROVE  \/ records'[key] = records[key]
             \/ /\ records'[key] = None /\ Exists(key)
                /\ records[key].outcome = "AUTO_SKIPPED" /\ ~records[key].decided
  BY <1>2 DEF NotDue
<1>10. RecordsHold'
  <2> SUFFICES ASSUME NEW key \in Keys, records'[key] # None
               PROVE  RecordHolds(key, records[key])'
    BY DEF RecordsHold, Exists
  <2>1. PICK r : r = records'[key] OBVIOUS
  <2>2. r = records[key] BY <1>9, <2>1
  <2>3. RecordHolds(key, r)' BY <1>5, <2>1, <2>2, RecordStays DEF Inv, RecordsHold, Exists
  <2> QED BY <2>1, <2>3 DEF RecordHolds
<1>11. TakenGrow BY <1>9 DEF TakenGrow, Taken, Exists
<1>12. Stands BY <1>9 DEF Stands, Exists
<1>13. RecordsGood BY <1>8, <1>10, <1>11, <1>12 DEF RecordsGood
<1> QED BY <1>3, <1>4, <1>5, <1>6, <1>7, <1>13, WritesAtOnce

-----------------------------------------------------------------------------
(* The steps that write records only, or nothing the tables hold *)

\* One record is written beside sessions that stay as they are.
LEMMA OneWritten ==
  ASSUME Inv, UNCHANGED presence, NEW key \in Keys, NEW r,
         records' = [records EXCEPT ![key] = r] \/ records' = records,
         records' # records => RecordHolds(key, r)' /\ ~Taken(key),
         records' # records /\ Exists(key) => r.outcome = records[key].outcome
  PROVE  /\ RecordsGood /\ PresenceGrows /\ Running' = Running
         /\ presence' \in [SessionIds -> SessionRow \cup {None}]
<1>1. /\ PresenceGrows /\ Running' = Running
      /\ presence' \in [SessionIds -> SessionRow \cup {None}]
  BY SessionsSame
<1>2. CASE records' = records BY <1>1, <1>2, RecordsSame
<1>3. CASE records' # records BY <1>1, <1>3, RecordWritten
<1> QED BY <1>1, <1>2, <1>3

LEMMA RecordStatusKeeps ==
  ASSUME Inv, asked' \in 0 .. MaxRequests, NEW a \in Actors, RecordStatus(a)
  PROVE  Inv' /\ Stands
<1>0. PICK w : w = act[a] OBVIOUS
<1>1. Knows(w) /\ w.at \in Times BY <1>0, RequestKnows
<1>2. w.step = "recordStatus" /\ Done(a) /\ UNCHANGED <<clock, work, marked, presence, holder>>
  BY <1>0 DEF RecordStatus, At
<1>3. PICK s \in SessionIds : w.key = <<"OFF", s>> /\ presence[s] # None
  BY <1>1, <1>2 DEF Knows
<1>4. PICK key \in Keys : key = IF w.plan = {} THEN w.key ELSE Key(CHOOSE k \in w.plan : TRUE)
  <2>1. CASE w.plan = {} BY <1>3, <2>1 DEF Keys
  <2>2. CASE w.plan # {}
    <3>1. (CHOOSE k \in w.plan : TRUE) \in Scheduled BY <1>1, <1>2, <2>2 DEF Knows
    <3> QED BY <2>2, <3>1, KeyOf
  <2> QED BY <2>1, <2>2
<1>5. PICK state \in {"ACTIVE", "ENDED"} : state = IF s \in Running THEN "ACTIVE" ELSE "ENDED"
  OBVIOUS
<1>6. PICK r : r = [TakenRecord(s, w.at) EXCEPT !.state = state] OBVIOUS
<1>7. records' = IF Exists(key) THEN records ELSE [records EXCEPT ![key] = r]
  <2>1. w.key[2] = s BY <1>3
  <2> QED BY <1>0, <1>4, <1>5, <1>6, <2>1 DEF RecordStatus
<1>8. RecordHolds(key, r)'
  <2>1. presence'[s] # None BY <1>2, <1>3
  <2>2. CASE state = "ENDED" BY <1>1, <1>6, <2>1, <2>2, TakenHolds
  <2>3. CASE state = "ACTIVE"
    <3>1. PICK p : p = TakenRecord(s, w.at) OBVIOUS
    <3>2. RecordHolds(key, p)' BY <1>1, <2>1, <3>1, TakenHolds
    <3>3. r = p
      <4>1. p.state = "ACTIVE" BY <3>1 DEF TakenRecord
      <4>2. p \in Record BY <3>2 DEF RecordHolds
      <4>3. r = [p EXCEPT !.state = "ACTIVE"] BY <1>6, <2>3, <3>1
      <4> QED BY <4>1, <4>2, <4>3 DEF Record
    <3> QED BY <3>2, <3>3 DEF RecordHolds
  <2> QED BY <2>2, <2>3
<1>9. /\ RecordsGood /\ PresenceGrows /\ Running' = Running
      /\ presence' \in [SessionIds -> SessionRow \cup {None}]
  BY <1>2, <1>7, <1>8, OneWritten DEF Taken
<1>10. OneRuns' /\ EndedDayIsQuiet' BY <1>2, <1>9, FewerRun
<1>11. work' \subseteq WorkRow /\ marked' \subseteq Days BY <1>2 DEF Inv, Tables
<1> QED BY <1>2, <1>9, <1>10, <1>11, DoneWrites

LEMMA CreateSkipKeeps ==
  ASSUME Inv, asked' \in 0 .. MaxRequests, NEW a \in Actors, CreateSkip(a)
  PROVE  Inv' /\ Stands
<1>0. PICK w : w = act[a] OBVIOUS
<1>1. Knows(w) /\ w.at \in Times BY <1>0, RequestKnows
<1>2. w.step = "skip" /\ Done(a) /\ UNCHANGED <<clock, work, marked, presence, holder>>
  BY <1>0 DEF CreateSkip, At
<1>3. PICK k \in Scheduled : w.key = Key(k) BY <1>1, <1>2 DEF Knows
<1>4. PICK key \in Keys : key = Key(k) BY KeyOf
<1>5. PICK r : r = SkipRecord("SKIPPED", w.at, TRUE) OBVIOUS
<1>6. \/ records' = records
      \/ records' = [records EXCEPT ![key] = r] /\ ~Exists(key)
  BY <1>0, <1>3, <1>4, <1>5 DEF CreateSkip
<1>7. RecordHolds(key, r)'
  <2>1. w.at \in Nat BY <1>1, BreaksAssumption DEF Times
  <2>2. RecordHolds(Key(k), r)' BY <1>5, <2>1, SkipHolds
  <2> QED BY <1>4, <2>2 DEF RecordHolds, Key
<1>8. /\ RecordsGood /\ PresenceGrows /\ Running' = Running
      /\ presence' \in [SessionIds -> SessionRow \cup {None}]
  BY <1>2, <1>6, <1>7, OneWritten DEF Taken
<1>9. OneRuns' /\ EndedDayIsQuiet' BY <1>2, <1>8, FewerRun
<1>10. work' \subseteq WorkRow /\ marked' \subseteq Days BY <1>2 DEF Inv, Tables
<1> QED BY <1>2, <1>8, <1>9, <1>10, DoneWrites

LEMMA CreateAutoSkipKeeps ==
  ASSUME Inv, asked' \in 0 .. MaxRequests, NEW a \in Actors, CreateAutoSkip(a)
  PROVE  Inv' /\ Stands
<1>0. PICK w : w = act[a] OBVIOUS
<1>1. Knows(w) /\ DOMAIN w = Fields /\ w.at \in Times /\ DOMAIN act = Actors /\ clock \in Times
  BY <1>0, RequestKnows
<1>2. w.step = "autoSkip" /\ UNCHANGED <<clock, work, marked, presence, holder>>
  BY <1>0 DEF CreateAutoSkip, At
<1>3. w.plan \subseteq Scheduled BY <1>1, <1>2 DEF Knows
<1>4. PICK k \in w.plan : \E from :
        /\ from = IF w.at >= Closes[k] THEN Closes[k] ELSE w.at
        /\ records' = IF Exists(Key(k)) THEN records
                      ELSE [records EXCEPT ![Key(k)] = SkipRecord("AUTO_SKIPPED", from, FALSE)]
        /\ act' = [act EXCEPT ![a].plan = w.plan \ {k}]
  BY <1>0 DEF CreateAutoSkip
<1>5. PICK from :
        /\ from = IF w.at >= Closes[k] THEN Closes[k] ELSE w.at
        /\ records' = IF Exists(Key(k)) THEN records
                      ELSE [records EXCEPT ![Key(k)] = SkipRecord("AUTO_SKIPPED", from, FALSE)]
        /\ act' = [act EXCEPT ![a].plan = w.plan \ {k}]
  BY <1>4
<1>6. k \in Scheduled BY <1>3
<1>7. from \in Nat
  <2>1. w.at \in Nat BY <1>1, BreaksAssumption DEF Times
  <2>2. Closes[k] \in Nat BY <1>6, BreaksAssumption
  <2> QED BY <1>5, <2>1, <2>2
<1>8. PICK key \in Keys : key = Key(k) BY <1>6, KeyOf
<1>9. PICK r : r = SkipRecord("AUTO_SKIPPED", from, FALSE) OBVIOUS
<1>10. \/ records' = records
       \/ records' = [records EXCEPT ![key] = r] /\ ~Exists(key)
  BY <1>5, <1>8, <1>9
<1>11. RecordHolds(key, r)'
  <2>1. RecordHolds(Key(k), r)' BY <1>6, <1>7, <1>9, SkipHolds
  <2> QED BY <1>8, <2>1 DEF RecordHolds, Key
<1>12. /\ RecordsGood /\ PresenceGrows /\ Running' = Running
       /\ presence' \in [SessionIds -> SessionRow \cup {None}]
  BY <1>2, <1>10, <1>11, OneWritten DEF Taken
<1>13. OneRuns' /\ EndedDayIsQuiet' BY <1>2, <1>12, FewerRun
<1>14. PICK x : x = [w EXCEPT !.plan = w.plan \ {k}] OBVIOUS
<1>15. act' = [act EXCEPT ![a] = x] BY <1>0, <1>1, <1>5, <1>14
<1>16. DOMAIN x = Fields /\ x.at = w.at /\ x.step = "autoSkip" /\ x.plan = w.plan \ {k}
  BY <1>1, <1>2, <1>14 DEF Fields
<1>17. Knows(x)' BY <1>1, <1>3, <1>16 DEF Knows, LockSteps
<1>18. x.step \notin LockSteps BY <1>16 DEF LockSteps
<1>19. work' \subseteq WorkRow /\ marked' \subseteq Days BY <1>2 DEF Inv, Tables
<1> QED BY <1>1, <1>2, <1>12, <1>13, <1>15, <1>17, <1>18, <1>19, Writes

\* A skip gets its comment, an auto-skip its decision.
LEMMA RemarkKeeps ==
  ASSUME Inv, asked' \in 0 .. MaxRequests, NEW a \in Actors, Comment(a) \/ Decide(a)
  PROVE  Inv' /\ Stands
<1>1. UNCHANGED <<clock, work, marked, presence, holder, act>> BY DEF Comment, Decide
<1>2. PICK key \in Keys :
        /\ Exists(key) /\ records[key].outcome # "TAKEN"
        /\ \/ records' = [records EXCEPT ![key].reason = TRUE]
           \/ records' = [records EXCEPT ![key].decided = TRUE]
  BY DEF Comment, Decide, IsSkip
<1>3. PICK q : q = records[key] OBVIOUS
<1>4. RecordHolds(key, q) BY <1>2, <1>3 DEF Inv, RecordsHold
<1>5. PICK r : /\ r = [q EXCEPT !.reason = TRUE] \/ r = [q EXCEPT !.decided = TRUE]
               /\ records' = [records EXCEPT ![key] = r]
  BY <1>2, <1>3 DEF Inv, Tables
<1>6. q \in Record BY <1>4 DEF RecordHolds
<1>7. /\ r \in Record /\ r.outcome = q.outcome /\ r.segs = q.segs /\ r.link = q.link
      /\ r.state = q.state /\ r.ended = q.ended
  BY <1>5, <1>6 DEF Record
<1>8. PresenceGrows BY <1>1, SessionsSame
<1>9. RecordHolds(key, q)' BY <1>4, <1>8, RecordStays
<1>10. RecordHolds(key, r)' BY <1>7, <1>9 DEF RecordHolds
<1>11. /\ RecordsGood /\ PresenceGrows /\ Running' = Running
       /\ presence' \in [SessionIds -> SessionRow \cup {None}]
  BY <1>1, <1>2, <1>3, <1>5, <1>7, <1>10, OneWritten DEF Taken
<1>12. OneRuns' /\ EndedDayIsQuiet' BY <1>1, <1>11, FewerRun
<1>13. clock' \in Times /\ work' \subseteq WorkRow /\ marked' \subseteq Days
  BY <1>1 DEF Inv, Tables
<1> QED BY <1>1, <1>11, <1>12, <1>13, WritesAtOnce

LEMMA RestKeeps ==
  ASSUME Inv, UNCHANGED <<presence, records, act>>, holder' = holder, asked' \in 0 .. MaxRequests,
         clock' \in Times, work' \subseteq WorkRow, marked' \subseteq marked
  PROVE  Inv' /\ Stands
<1>1. /\ PresenceGrows /\ Running' = Running
      /\ presence' \in [SessionIds -> SessionRow \cup {None}]
  BY SessionsSame
<1>2. RecordsGood BY <1>1, RecordsSame
<1>3. OneRuns' /\ EndedDayIsQuiet' BY <1>1, FewerRun
<1>4. marked' \subseteq Days BY DEF Inv, Tables
<1> QED BY <1>1, <1>2, <1>3, <1>4, WritesAtOnce

LEMMA StartDayKeeps ==
  ASSUME Inv, asked' \in 0 .. MaxRequests, NEW a \in Actors, StartDay(a)
  PROVE  Inv' /\ Stands
<1>1. work' = work \cup {[from |-> clock, to |-> None]} /\ marked' = marked \ {DayOf(clock)}
  BY DEF StartDay
<1>2. clock \in Times /\ work \subseteq WorkRow BY DEF Inv, Tables
<1>3. [from |-> clock, to |-> None] \in WorkRow BY <1>2 DEF WorkRow
<1>4. work' \subseteq WorkRow /\ marked' \subseteq marked BY <1>1, <1>2, <1>3
<1> QED BY <1>2, <1>4, RestKeeps DEF StartDay

LEMMA TickKeeps ==
  ASSUME Inv, asked' \in 0 .. MaxRequests, Tick
  PROVE  Inv' /\ Stands
<1>1. clock' \in Times
  <2>1. clock \in Times BY DEF Inv, Tables
  <2> QED BY <2>1, BreaksAssumption DEF Tick, Times
<1>2. work' \subseteq WorkRow /\ marked' \subseteq marked BY DEF Tick, tables, Inv, Tables
<1> QED BY <1>1, <1>2, RestKeeps DEF Tick, tables

\* Whoever is cut off leaves the lock, and forgets.
LEMMA CrashKeeps ==
  ASSUME Inv, asked' \in 0 .. MaxRequests, NEW a \in Actors, Crash(a)
  PROVE  Inv' /\ Stands
<1>1. /\ UNCHANGED <<clock, tables>> /\ Done(a)
      /\ holder' = IF holder = a THEN None ELSE holder
  BY DEF Crash
<1>2. /\ PresenceGrows /\ Running' = Running
      /\ presence' \in [SessionIds -> SessionRow \cup {None}]
  BY <1>1, SessionsSame DEF tables
<1>3. RecordsGood BY <1>1, <1>2, RecordsSame DEF tables
<1>4. OneRuns' /\ EndedDayIsQuiet' BY <1>1, <1>2, FewerRun DEF tables
<1>5. work' \subseteq WorkRow /\ marked' \subseteq Days /\ marked' \subseteq marked
  BY <1>1 DEF Inv, Tables, tables
<1> QED BY <1>1, <1>2, <1>3, <1>4, <1>5, DoneWrites

-----------------------------------------------------------------------------
(* The theorems *)

LEMMA InvInit == Init => Inv
<1> SUFFICES ASSUME Init PROVE Inv OBVIOUS
<1>1. 0 \in Times BY BreaksAssumption DEF Times
<1>2. Tables
  <2>1. [from |-> 0, to |-> None] \in WorkRow BY <1>1 DEF WorkRow
  <2>2. work \subseteq WorkRow BY <2>1 DEF Init
  <2> QED BY <1>1, <2>2, BreaksAssumption DEF Init, Tables
<1>3. RecordsHold BY DEF Init, RecordsHold, Exists
<1>4. Running = {} BY DEF Init, Running
<1>5. OneRuns /\ EndedDayIsQuiet BY <1>4 DEF OneRuns, EndedDayIsQuiet
<1>6. ASSUME NEW a \in Actors PROVE Knows(act[a]) /\ LockHolds(a, act[a])
  <2>1. act[a] = Idle BY DEF Init
  <2>2. DOMAIN Idle = Fields /\ Idle.at = 0 /\ Idle.step = "idle" BY DEF Idle, Fields
  <2> QED BY <1>1, <2>1, <2>2 DEF Knows, LockHolds, LockSteps
<1> QED BY <1>2, <1>3, <1>5, <1>6 DEF Inv

LEMMA BeginsKeeps ==
  ASSUME Inv, asked' \in 0 .. MaxRequests, NEW a \in Actors, Begins(a)
  PROVE  Inv' /\ Stands
<1>1. CASE \/ JudgeStart(a) \/ JudgeQuick(a) \/ JudgeAway(a) \/ ReadForPause(a)
           \/ ReadForResume(a) \/ FindBreak(a) \/ FindMark(a) \/ JudgeSkip(a) \/ JudgeEndDay(a)
  BY <1>1, BeginsToAsk
<1>2. CASE EndStatus(a) BY <1>2, EndStatusKeeps
<1>3. CASE Comment(a) \/ Decide(a) BY <1>3, RemarkKeeps
<1>4. CASE StartDay(a) BY <1>4, StartDayKeeps
<1> QED BY <1>1, <1>2, <1>3, <1>4 DEF Begins

LEMMA GoesKeeps ==
  ASSUME Inv, asked' \in 0 .. MaxRequests, NEW a \in Actors, Goes(a)
  PROVE  Inv' /\ Stands
<1>1. CASE \/ ReadPaused(a) \/ ReadForMark(a) \/ BreakEnded(a) \/ JudgeStatus(a)
           \/ ListExpired(a) \/ ListPaused(a) \/ Swept(a)
  BY <1>1, ReadsOn
<1>2. CASE WritePaused(a) BY <1>2, WritePausedKeeps
<1>3. CASE StartScheduled(a) BY <1>3, StartScheduledKeeps
<1>4. CASE StartQuick(a) BY <1>4, StartQuickKeeps
<1>5. CASE Pause(a) BY <1>5, PauseKeeps
<1>6. CASE Resume(a) BY <1>6, ResumeKeeps
<1>7. CASE EndLate(a) BY <1>7, EndLateKeeps
<1>8. CASE EndOpen(a) BY <1>8, EndOpenKeeps
<1>9. CASE MarkEnded(a) BY <1>9, MarkEndedKeeps
<1>10. CASE Switch(a) BY <1>10, SwitchKeeps
<1>11. CASE RecordStatus(a) BY <1>11, RecordStatusKeeps
<1>12. CASE CreateSkip(a) BY <1>12, CreateSkipKeeps
<1>13. CASE CreateAutoSkip(a) BY <1>13, CreateAutoSkipKeeps
<1>14. CASE EndDay(a) BY <1>14, EndDayKeeps
<1> QED BY <1>1, <1>2, <1>3, <1>4, <1>5, <1>6, <1>7, <1>8, <1>9, <1>10, <1>11, <1>12, <1>13,
           <1>14 DEF Goes

LEMMA InvStep ==
  ASSUME Inv, [Next]_vars
  PROVE  Inv' /\ (Stands \/ UNCHANGED vars)
<1>0. asked \in 0 .. MaxRequests /\ MaxRequests \in Nat
  BY BreaksAssumption DEF Inv, Tables
<1>1. ASSUME NEW a \in Requests, Begins(a), asked < MaxRequests, asked' = asked + 1
      PROVE  Inv' /\ Stands
  <2>1. a \in Actors /\ asked' \in 0 .. MaxRequests BY <1>0, <1>1 DEF Actors
  <2> QED BY <1>1, <2>1, BeginsKeeps
<1>2. ASSUME Tick, UNCHANGED asked PROVE Inv' /\ Stands BY <1>0, <1>2, TickKeeps
<1>3. ASSUME NEW a \in Actors, UNCHANGED asked,
             Goes(a) \/ Sweep(a) \/ AutoClose(a) \/ Crash(a)
      PROVE  Inv' /\ Stands
  <2>1. CASE Goes(a) BY <1>0, <1>3, <2>1, GoesKeeps
  <2>2. CASE Sweep(a) BY <1>0, <1>3, <2>2, BeginsToAsk
  <2>3. CASE AutoClose(a) BY <1>0, <1>3, <2>3, AutoCloseKeeps
  <2>4. CASE Crash(a) BY <1>0, <1>3, <2>4, CrashKeeps
  <2> QED BY <1>3, <2>1, <2>2, <2>3, <2>4
<1>4. ASSUME UNCHANGED vars PROVE Inv'
  <2>1. UNCHANGED <<clock, work, marked, presence, records, holder, act, asked>>
    BY <1>4 DEF vars
  <2>2. clock' \in Times /\ work' \subseteq WorkRow /\ marked' \subseteq marked
    BY <2>1 DEF Inv, Tables
  <2> QED BY <1>0, <2>1, <2>2, RestKeeps
<1> QED BY <1>1, <1>2, <1>3, <1>4 DEF Next

LEMMA InvIsKept == Spec => []Inv
<1>1. Init => Inv BY InvInit
<1>2. Inv /\ [Next]_vars => Inv' BY InvStep
<1> QED BY <1>1, <1>2, PTL DEF Spec

\* However requests, sweeps and cuts interleave, presence and records agree:
\* one stretch runs, its record is the one "back to work" finds, and an ended
\* record ends where a stretch of it does (prisma-break-record.repository.ts).
THEOREM BreaksHold == Spec => []BreaksAgree
<1>1. Inv => BreaksAgree
  <2> SUFFICES ASSUME Inv PROVE BreaksAgree OBVIOUS
  <2>1. TypeOK
    <3>1. SessionRow \subseteq Session
      BY BreaksAssumption DEF SessionRow, Session, Times
    <3>2. presence \in [SessionIds -> Session \cup {None}] BY <3>1 DEF Inv, Tables
    <3> QED BY <3>2 DEF Inv, Tables, TypeOK, WorkRow
  <2>2. OneRunning
    <3>1. CASE Running = {} BY <3>1, FS_EmptySet DEF OneRunning
    <3>2. CASE Running # {}
      <4>1. PICK s : s \in Running BY <3>2
      <4>2. Running = {s} BY <4>1 DEF Inv, OneRuns
      <4>3. Cardinality({s}) = 1 BY FS_Singleton
      <4> QED BY <4>2, <4>3 DEF OneRunning
    <3> QED BY <3>1, <3>2
  <2>3. RunningIsFound BY DEF Inv, RecordsHold, RecordHolds, RunningIsFound
  <2>4. EndsAtSegmentEnd BY DEF Inv, RecordsHold, RecordHolds, EndsAtSegmentEnd
  <2> QED BY <2>1, <2>2, <2>3, <2>4 DEF BreaksAgree
<1> QED BY <1>1, InvIsKept, PTL

\* Once a day is marked ended, nothing the break endpoints opened runs on it:
\* End Day closes what runs, and a start or a resume reads the mark under the lock.
THEOREM EndedDaysAreQuiet == Spec => []EndedDayIsQuiet
<1>1. Inv => EndedDayIsQuiet BY DEF Inv
<1> QED BY <1>1, InvIsKept, PTL

\* No step removes a taken break or a skip, or turns it into something else,
\* but for the auto-skip that the real break or an automatic close takes back.
THEOREM RecordsAreKept == Spec => RecordsStand
<1>1. ASSUME Inv, [Next]_vars
      PROVE  [\A key \in Keys : Exists(key) =>
               \/ records'[key] # None /\ records'[key].outcome = records[key].outcome
               \/ /\ records[key].outcome = "AUTO_SKIPPED"
                  /\ IF records'[key] = None THEN ~records[key].decided
                     ELSE ~records[key].reason]_vars
  BY <1>1, InvStep DEF Stands
<1> QED BY <1>1, InvIsKept, PTL DEF Spec, RecordsStand
=============================================================================
