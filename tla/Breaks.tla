------------------------------- MODULE Breaks -------------------------------
(***************************************************************************)
(* The breaks of one person on one shift-day: break records and the        *)
(* presence sessions that carry their segments                             *)
(* (prisma-break-record.repository.ts, my-breaks.use-case.ts,              *)
(* skips.service.ts, prisma-skip.repository.ts, the older clients'         *)
(* /presence/start and legacy-break.subscriber.ts).                        *)
(*                                                                         *)
(* Every transaction that starts, pauses or resumes a break, or changes    *)
(* the presence, holds the row lock of the person (`holder'; a transaction *)
(* that only reads its state and writes it at once is one step).  The      *)
(* transactions that END a break (endPausedTx, markEnded), that create an  *)
(* auto-skip or record an older client's break take no such lock: each is  *)
(* a read and a write, and any committed step of another request fits in   *)
(* between.  A request is the sequence of its transactions; it may be cut  *)
(* off between two of them.                                                *)
(***************************************************************************)
EXTENDS Naturals, FiniteSets

CONSTANTS
    Requests,      \* requests of the person, served concurrently
    Job,           \* AutoSkipJob, every five minutes
    SessionIds,    \* presence sessions
    Scheduled,     \* the kinds of scheduled breaks of the shift
    Due,           \* Due[k]: the scheduled start
    Opens,         \* Opens[k] .. Closes[k]: the window the break may start in
    Closes,
    Midnight,      \* the first moment of the next shift-day, a day off
    MaxTime,       \* bound: the last moment
    MaxWork,       \* bound: Start Day presses
    MaxQuick,      \* bound: quick breaks
    MaxRequests,   \* bound: requests made
    Moves,         \* Moves[a]: what a asks for
    None

Times == 0 .. MaxTime
Actors == Requests \cup {Job}
Later(a, b) == IF a > b THEN a ELSE b

ASSUME BreaksAssumption ==
    /\ Job \notin Requests /\ None \notin Actors
    /\ MaxTime \in Nat /\ MaxWork \in Nat /\ MaxQuick \in Nat
    /\ MaxRequests \in Nat
    /\ Due \in [Scheduled -> Nat] /\ Opens \in [Scheduled -> Nat] /\ Closes \in [Scheduled -> Nat]
    /\ \A k \in Scheduled : Opens[k] <= Due[k] /\ Due[k] <= Closes[k]
    /\ "QUICK" \notin Scheduled /\ "OFF" \notin Scheduled
    /\ None \notin Nat /\ None \notin SessionIds /\ None \notin Scheduled

\* A record's key (user, date, kind, seq); an off-schedule break of an older
\* client has no kind, so nothing but its presence session identifies it.
Keys == (Scheduled \X {0}) \cup ({"QUICK"} \X (1 .. MaxQuick)) \cup ({"OFF"} \X SessionIds)
Key(k) == <<k, 0>>

\* A presence session: its type and times; `by' is how it was started.
Session == [type : {"BREAK", "MEETING"}, by : {"BREAKS", "STATUS"},
            from : Nat, to : Nat \cup {None}]

\* A break record.  `link' is its current presence session, `segs' the sessions
\* of its segments, `ended' the final end, `reason' whether it has a comment.
Record == [outcome : {"TAKEN", "SKIPPED", "AUTO_SKIPPED"},
           state : {"ACTIVE", "PAUSED", "ENDED"}, at : Nat,
           link : SessionIds \cup {None}, segs : SUBSET SessionIds,
           ended : Nat \cup {None}, reason : BOOLEAN, decided : BOOLEAN]

ASSUME RowsAssumption == None \notin Session /\ None \notin Record

VARIABLES
    clock,
    work,       \* the work sessions: set of [from, to]
    marked,     \* the calendar days that carry an End Day mark
    presence,   \* presence[s]: a Session, or None
    records,    \* records[key]: a Record, or None
    holder,     \* whose transaction holds the person's row lock, or None
    act,        \* act[a]: where a's request stands
    asked       \* how many requests were made

vars == <<clock, work, marked, presence, records, holder, act, asked>>
tables == <<work, marked, presence, records>>

-----------------------------------------------------------------------------
(* What the code reads *)

DayOf(t) == IF t < Midnight THEN "today" ELSE "next"
Days == {"today", "next"}

\* The slots of the shift-day of moment t (BreakDayService.dayFor); the next
\* day is off.
SlotsAt(t) == IF DayOf(t) = "today" THEN Scheduled ELSE {}

\* phaseAt: the window is half-open.
InWindow(k, t) == Opens[k] <= t /\ t < Closes[k]

Exists(key) == records[key] # None
Running == {s \in SessionIds : presence[s] # None /\ presence[s].to = None}
OnBreak == \E s \in Running : presence[s].type = "BREAK"
Paused == {key \in Keys : Exists(key) /\ records[key].state = "PAUSED"}
WorkOpen == \E w \in work : w.to = None
IsSkip(r) == r.outcome \in {"SKIPPED", "AUTO_SKIPPED"}

\* The break record of the running presence session (findOpenForUser).
OpenRecords == {key \in Keys : Exists(key) /\ records[key].link \in Running}

\* The end of a record's last closed segment, as endPausedTx computes it: a
\* segment ends with its presence session; none closed yet: the start.
LastEnd(r) ==
    LET ends == {presence[s].to : s \in {x \in r.segs : presence[x].to # None}}
    IN IF ends = {} THEN r.at ELSE CHOOSE t \in ends : \A u \in ends : u <= t

\* isReplaceableAutoSkip: End Day made it inside the window, which is still open.
IsReplaceable(key, t) ==
    LET r == records[key] IN
    /\ r.outcome = "AUTO_SKIPPED" /\ ~r.reason
    /\ r.at < Closes[key[1]] /\ t < Closes[key[1]]

\* A work session covers the scheduled start; an open one counts up to now.
IsOwed(k, t) ==
    \E w \in work : w.from <= Due[k] /\ Due[k] <= (IF w.to = None THEN t ELSE w.to)

\* planAutoSkips: closed windows; at End Day, open windows too.
PlannedSkips(t, endingDay) ==
    {k \in SlotsAt(t) : /\ ~Exists(Key(k)) /\ IsOwed(k, t)
                        /\ t >= Closes[k] \/ (endingDay /\ t >= Opens[k])}

\* A kind that comes earlier in the day than k (windows never overlap).
Before(j, k) == Due[j] < Due[k]

-----------------------------------------------------------------------------
(* A request: its step, the move it serves, the moment it took as its own,
   the record the move is about, the paused records still to end, the kinds
   still to auto-skip, and the record and end that endPausedTx read. *)

Idle == [step |-> "idle", move |-> None, at |-> 0, key |-> None,
         todo |-> {}, plan |-> {}, ending |-> None]
At(a, step) == act[a].step = step
Unlocked == holder = None
Begin(a, move, step, key, todo, plan) ==
    act' = [act EXCEPT ![a] = [Idle EXCEPT !.step = step, !.move = move, !.at = clock,
                                           !.key = key, !.todo = todo, !.plan = plan]]
Goto(a, step) == act' = [act EXCEPT ![a].step = step]
Done(a) == act' = [act EXCEPT ![a] = Idle]
Serves(a, move) == move \in Moves[a] /\ At(a, "idle")

-----------------------------------------------------------------------------
(* Writes *)

\* Closes the running presence sessions at t, never before they started
\* (closeOpenPresence, endOpenForUser, switchTo).
CloseRunning(t) ==
    [s \in SessionIds |->
        IF s \in Running THEN [presence[s] EXCEPT !.to = Later(t, presence[s].from)]
        ELSE presence[s]]

NewSession(type, by, t) == [type |-> type, by |-> by, from |-> t, to |-> None]
TakenRecord(s, t) ==
    [outcome |-> "TAKEN", state |-> "ACTIVE", at |-> t, link |-> s, segs |-> {s},
     ended |-> None, reason |-> FALSE, decided |-> FALSE]
SkipRecord(outcome, t, reason) ==
    [outcome |-> outcome, state |-> "ENDED", at |-> t, link |-> None, segs |-> {},
     ended |-> None, reason |-> reason, decided |-> FALSE]

-----------------------------------------------------------------------------
(* Ending a paused break: endPausedTx, without the person's lock *)

\* The read: only a paused record goes on to be written.
ReadPaused(a) ==
    /\ At(a, "endPaused")
    /\ \E key \in act[a].todo :
         act' = [act EXCEPT ![a] =
                   IF records[key].state = "PAUSED"
                   THEN [@ EXCEPT !.step = "writePaused", !.todo = act[a].todo \ {key},
                                  !.ending = [key |-> key, end |-> LastEnd(records[key])]]
                   ELSE [@ EXCEPT !.todo = act[a].todo \ {key}]]
    /\ UNCHANGED <<clock, tables, holder>>

\* mutant: ended when the sweep came round.
Ended_Now(key, end) == [records EXCEPT ![key].state = "ENDED", ![key].ended = clock]
\* The write, by id: ended at the last segment end that was read.
Ended(key, end) == [records EXCEPT ![key].state = "ENDED", ![key].ended = end]
WritePaused(a) ==
    /\ At(a, "writePaused")
    /\ records' = Ended(act[a].ending.key, act[a].ending.end)
    /\ act' = [act EXCEPT ![a].step = "endPaused", ![a].ending = None]
    /\ UNCHANGED <<clock, work, marked, presence, holder>>

\* What a move does when its paused breaks are ended.
PausedEnded(a, move) ==
    At(a, "endPaused") /\ act[a].move = move /\ act[a].todo = {}

-----------------------------------------------------------------------------
(* Starting a break *)

\* MyBreaksUseCase.start up to endPaused: the day is open (WorkSessionsService
\* .ensureOpen), the kind is scheduled, its window open, it has no record but
\* perhaps a replaceable auto-skip, and no later kind has one.  The paused
\* breaks are listed before they are ended one by one.
JudgeStart(a) ==
    /\ Serves(a, "start") /\ Unlocked /\ WorkOpen
    /\ \E k \in SlotsAt(clock) :
         /\ InWindow(k, clock)
         /\ Exists(Key(k)) => IsReplaceable(Key(k), clock)
         /\ \A j \in Scheduled : Before(k, j) => ~Exists(Key(j))
         /\ Begin(a, "start", "endPaused", Key(k), Paused, {})
    /\ UNCHANGED <<clock, tables, holder>>

\* mutant: the End Day mark is not read.
MayStart_NoMark(key, t) == (Exists(key) => IsReplaceable(key, t)) /\ ~OnBreak
\* startScheduled: refused when the day has ended, the kind is recorded or a
\* break runs; a meeting is closed at the request's own moment.
MayStart(key, t) ==
    /\ DayOf(t) \notin marked
    /\ Exists(key) => IsReplaceable(key, t)
    /\ ~OnBreak
StartScheduled(a) ==
    /\ PausedEnded(a, "start") /\ Unlocked
    /\ LET key == act[a].key
           t == act[a].at
       IN IF MayStart(key, t)
          THEN \E s \in SessionIds :
                 /\ presence[s] = None
                 /\ presence' = [x \in SessionIds |->
                                   IF x = s THEN NewSession("BREAK", "BREAKS", t)
                                   ELSE IF x \in Running THEN [presence[x] EXCEPT !.to = t]
                                   ELSE presence[x]]
                 /\ records' = [records EXCEPT ![key] = TakenRecord(s, t)]
          ELSE UNCHANGED <<presence, records>>
    /\ Done(a)
    /\ UNCHANGED <<clock, work, marked, holder>>

\* A quick break: at once, or as the answer of a person who was away since an
\* earlier moment, bounded by what the presence showed when it was asked.
JudgeQuick(a) ==
    /\ Serves(a, "quick") /\ Unlocked /\ WorkOpen
    /\ Begin(a, "quick", "startQuick", None, {}, {})
    /\ UNCHANGED <<clock, tables, holder>>
AwayStarts(t) ==
    LET ends == {presence[s].to : s \in {x \in SessionIds : presence[x] # None}}
        opened == {w.from : w \in {x \in work : x.to = None}}
    IN {u \in 0 .. t : \A e \in (ends \cup opened) : e <= t => e <= u}
JudgeAway(a) ==
    /\ Serves(a, "away") /\ WorkOpen /\ Running = {}
    /\ \E t \in AwayStarts(clock) :
         act' = [act EXCEPT ![a] = [Idle EXCEPT !.step = "startQuick", !.move = "away", !.at = t]]
    /\ UNCHANGED <<clock, tables, holder>>

\* startQuick: refused when the day has ended or is not open, and while a break
\* or a meeting runs; a paused scheduled break stays paused.
MayStartQuick(t) == DayOf(t) \notin marked /\ WorkOpen /\ Running = {}
QuickKeys == {key \in Keys : key[1] = "QUICK" /\ Exists(key)}
StartQuick(a) ==
    /\ At(a, "startQuick") /\ Unlocked
    /\ LET t == act[a].at
           key == <<"QUICK", Cardinality(QuickKeys) + 1>>
       IN IF MayStartQuick(t)
          THEN \E s \in SessionIds :
                 /\ presence[s] = None /\ key \in Keys
                 /\ presence' = [presence EXCEPT ![s] = NewSession("BREAK", "BREAKS", t)]
                 /\ records' = [records EXCEPT ![key] = TakenRecord(s, t)]
          ELSE UNCHANGED <<presence, records>>
    /\ Done(a)
    /\ UNCHANGED <<clock, work, marked, holder>>

-----------------------------------------------------------------------------
(* Pause and resume, in one transaction each under the lock; what ends a break
   without the lock may commit between their read and their write. *)

IsPausable(key) == LET r == records[key] IN
    /\ key[1] \in Scheduled
    /\ r.state # "PAUSED" /\ r.link \in Running
ReadForPause(a) ==
    /\ Serves(a, "pause") /\ Unlocked
    /\ \E key \in Keys : /\ Exists(key) /\ IsPausable(key)
                         /\ Begin(a, "pause", "pause", key, {}, {})
    /\ holder' = a
    /\ UNCHANGED <<clock, tables>>
\* The session may have been closed meanwhile; it is closed only if it runs.
Pause(a) ==
    /\ At(a, "pause")
    /\ LET key == act[a].key
           s == records[key].link
       IN /\ presence' = IF s \in Running THEN [presence EXCEPT ![s].to = act[a].at]
                         ELSE presence
          /\ records' = [records EXCEPT ![key].state = "PAUSED"]
    /\ holder' = None /\ Done(a)
    /\ UNCHANGED <<clock, work, marked>>

\* A resume after the window closed ends the break; else it needs an open day
\* and nothing running.
ReadForResume(a) ==
    /\ Serves(a, "resume") /\ Unlocked
    /\ \E key \in Paused :
         IF clock > Closes[key[1]]
         THEN Begin(a, "resume", "endLate", key, {}, {})
         ELSE /\ DayOf(clock) \notin marked /\ WorkOpen /\ Running = {}
              /\ \E s \in SessionIds : presence[s] = None
              /\ Begin(a, "resume", "resume", key, {}, {})
    /\ holder' = a
    /\ UNCHANGED <<clock, tables>>
\* A new segment, which the record is now linked to.
Resumed(key, s) ==
    [records EXCEPT ![key].state = "ACTIVE", ![key].link = s, ![key].segs = @ \cup {s}]
Resume(a) ==
    /\ At(a, "resume")
    /\ \E s \in SessionIds :
         /\ presence[s] = None
         /\ presence' = [presence EXCEPT ![s] = NewSession("BREAK", "BREAKS", act[a].at)]
         /\ records' = Resumed(act[a].key, s)
    /\ holder' = None /\ Done(a)
    /\ UNCHANGED <<clock, work, marked>>
EndLate(a) ==
    /\ At(a, "endLate")
    /\ LET r == records[act[a].key] IN
       records' = IF r.state = "PAUSED" THEN Ended(act[a].key, LastEnd(r)) ELSE records
    /\ holder' = None /\ Done(a)
    /\ UNCHANGED <<clock, work, marked, presence>>

-----------------------------------------------------------------------------
(* Back to work *)

\* MyBreaksUseCase.end looks for the record of a running session, then for a
\* paused record, then for a plain break.
FindBreak(a) ==
    /\ Serves(a, "end")
    /\ IF OpenRecords # {}
       THEN \E key \in OpenRecords : Begin(a, "end", "endOpen", key, {}, {})
       ELSE IF Paused # {}
       THEN \E key \in Paused : Begin(a, "end", "markEnded", key, {}, {})
       ELSE OnBreak /\ Begin(a, "end", "endOpen", None, {}, {})
    /\ UNCHANGED <<clock, tables, holder>>

\* endOpenForUser closes whatever runs by now; the record is marked later.
EndOpen(a) ==
    /\ At(a, "endOpen") /\ Unlocked
    /\ presence' = CloseRunning(act[a].at)
    /\ IF act[a].key = None THEN Done(a) ELSE Goto(a, "markEnded")
    /\ UNCHANGED <<clock, work, marked, records, holder>>

\* markEnded, the read: a paused record ends at its pause, an ended one is left.
ReadForMark(a) ==
    /\ At(a, "markEnded")
    /\ LET key == act[a].key
           r == records[key]
       IN act' = [act EXCEPT ![a] =
                    IF r.state = "PAUSED"
                    THEN [@ EXCEPT !.step = "writePaused",
                                   !.ending = [key |-> key, end |-> LastEnd(r)]]
                    ELSE IF r.state = "ENDED" /\ r.ended # None THEN Idle
                    ELSE [@ EXCEPT !.step = "mark"]]
    /\ UNCHANGED <<clock, tables, holder>>

\* The writes: a running session of the record is closed at the request's
\* moment; an end the session has already stands.
MarkEnded(a) ==
    /\ At(a, "mark")
    /\ LET key == act[a].key
           s == records[key].link
           t == act[a].at
       IN /\ presence' = IF s \in Running THEN [presence EXCEPT ![s].to = t] ELSE presence
          /\ records' = Ended(key, IF s \in Running THEN t ELSE presence[s].to)
    /\ Done(a)
    /\ UNCHANGED <<clock, work, marked, holder>>

\* A break marked ended by way of endPausedTx has nothing more to do.
BreakEnded(a) ==
    /\ PausedEnded(a, "end") /\ Done(a)
    /\ UNCHANGED <<clock, tables, holder>>

-----------------------------------------------------------------------------
(* The status of older clients *)

\* StartPresenceUseCase: the End Day mark is read first ...
FindMark(a) ==
    /\ Serves(a, "status") /\ DayOf(clock) \notin marked
    /\ \E type \in {"BREAK", "MEETING"} :
         act' = [act EXCEPT ![a] = [Idle EXCEPT !.step = "switch", !.move = type, !.at = clock]]
    /\ UNCHANGED <<clock, tables, holder>>

\* ... then whatever runs is closed and the new status opened; a break on a
\* scheduled day goes on to be recorded (LegacyBreakSubscriber).
Switch(a) ==
    /\ At(a, "switch") /\ Unlocked
    /\ LET t == act[a].at
           type == act[a].move
       IN \E s \in SessionIds :
            /\ presence[s] = None
            /\ presence' = [CloseRunning(t) EXCEPT ![s] = NewSession(type, "STATUS", t)]
            /\ IF type = "BREAK" /\ SlotsAt(t) # {}
               THEN act' = [act EXCEPT ![a].step = "judgeStatus", ![a].key = <<"OFF", s>>]
               ELSE Done(a)
    /\ UNCHANGED <<clock, work, marked, records, holder>>

\* The slot whose window is open and that has no record yet, else off schedule.
JudgeStatus(a) ==
    /\ At(a, "judgeStatus")
    /\ LET fits == {k \in Scheduled : ~Exists(Key(k)) /\ InWindow(k, act[a].at)}
           first == {k \in fits : \A j \in fits : ~Before(j, k)}
       IN act' = [act EXCEPT ![a].step = "recordStatus",
                             ![a].plan = IF first = {} THEN {} ELSE {CHOOSE k \in first : TRUE}]
    /\ UNCHANGED <<clock, tables, holder>>

\* createForSession: the unique keys refuse a kind recorded meanwhile (nothing
\* is recorded then); a session ended meanwhile makes an ended record.
RecordStatus(a) ==
    /\ At(a, "recordStatus")
    /\ LET s == act[a].key[2]
           key == IF act[a].plan = {} THEN act[a].key ELSE Key(CHOOSE k \in act[a].plan : TRUE)
           state == IF s \in Running THEN "ACTIVE" ELSE "ENDED"
       IN records' = IF Exists(key) THEN records
                     ELSE [records EXCEPT ![key] = [TakenRecord(s, act[a].at) EXCEPT !.state = state]]
    /\ Done(a)
    /\ UNCHANGED <<clock, work, marked, presence, holder>>

\* EndPresenceUseCase: the records are not touched.
EndStatus(a) ==
    /\ Serves(a, "back") /\ Unlocked /\ Running # {}
    /\ presence' = CloseRunning(clock)
    /\ UNCHANGED <<clock, work, marked, records, holder, act>>

-----------------------------------------------------------------------------
(* Skips *)

\* SkipsService.skip: everything but the order of the kinds and the window is
\* judged again in the transaction (createSkip).
JudgeSkip(a) ==
    /\ Serves(a, "skip") /\ WorkOpen
    /\ \E k \in SlotsAt(clock) :
         /\ InWindow(k, clock) /\ ~Exists(Key(k)) /\ ~OnBreak
         /\ \A j \in Scheduled : Before(k, j) => ~Exists(Key(j))
         /\ Begin(a, "skip", "skip", Key(k), {}, {})
    /\ UNCHANGED <<clock, tables, holder>>
CreateSkip(a) ==
    /\ At(a, "skip") /\ Unlocked
    /\ records' = IF WorkOpen /\ ~Exists(act[a].key) /\ ~OnBreak
                  THEN [records EXCEPT ![act[a].key] = SkipRecord("SKIPPED", act[a].at, TRUE)]
                  ELSE records
    /\ Done(a)
    /\ UNCHANGED <<clock, work, marked, presence, holder>>

\* createAutoSkips, one kind at a time: the unique key keeps a record made
\* meanwhile.  The skip is dated at the window's close, or now at End Day.
CreateAutoSkip(a) ==
    /\ At(a, "autoSkip")
    /\ \E k \in act[a].plan :
         LET t == act[a].at
             from == IF t >= Closes[k] THEN Closes[k] ELSE t
         IN /\ records' = IF Exists(Key(k)) THEN records
                          ELSE [records EXCEPT ![Key(k)] = SkipRecord("AUTO_SKIPPED", from, FALSE)]
            /\ act' = [act EXCEPT ![a].plan = @ \ {k}]
    /\ UNCHANGED <<clock, work, marked, presence, holder>>

\* The one comment a skip takes (addComment, under the record's row lock), and a
\* manager's decision on an auto-skip, of which only that it was made counts.
Comment(a) ==
    /\ Serves(a, "comment")
    /\ \E key \in Keys :
         /\ Exists(key) /\ IsSkip(records[key]) /\ ~records[key].reason
         /\ records' = [records EXCEPT ![key].reason = TRUE]
    /\ UNCHANGED <<clock, work, marked, presence, holder, act>>
Decide(a) ==
    /\ Serves(a, "decide")
    /\ \E key \in Keys :
         /\ Exists(key) /\ records[key].outcome = "AUTO_SKIPPED" /\ ~records[key].decided
         /\ records' = [records EXCEPT ![key].decided = TRUE]
    /\ UNCHANGED <<clock, work, marked, presence, holder, act>>

-----------------------------------------------------------------------------
(* The day, and the sweeps *)

\* AutoSkipJob, and a look at the day (GET /breaks/me/today), plan the auto-skips ...
Sweep(a) ==
    /\ Serves(a, "today")
    /\ Begin(a, "today", "autoSkip", None, {}, PlannedSkips(clock, FALSE))
    /\ UNCHANGED <<clock, tables, holder>>
\* ... create them, then end the paused breaks whose window has closed
\* (endExpiredPaused lists them first).
ListExpired(a) ==
    /\ At(a, "autoSkip") /\ act[a].move = "today" /\ act[a].plan = {}
    /\ act' = [act EXCEPT ![a].step = "endPaused",
                          ![a].todo = {key \in Paused : Closes[key[1]] < act[a].at}]
    /\ UNCHANGED <<clock, tables, holder>>
Swept(a) ==
    /\ PausedEnded(a, "today") /\ Done(a)
    /\ UNCHANGED <<clock, tables, holder>>

StartDay(a) ==
    /\ Serves(a, "startDay") /\ Unlocked /\ ~WorkOpen
    /\ Cardinality(work) < MaxWork
    /\ work' = work \cup {[from |-> clock, to |-> None]}
    /\ marked' = marked \ {DayOf(clock)}
    /\ UNCHANGED <<clock, presence, records, holder, act>>

\* EndDayFlow: the auto-skips are planned and created, the paused breaks listed
\* and ended, and last the day is closed.
JudgeEndDay(a) ==
    /\ Serves(a, "endDay") /\ WorkOpen
    /\ Begin(a, "endDay", "autoSkip", None, {}, PlannedSkips(clock, TRUE))
    /\ UNCHANGED <<clock, tables, holder>>
ListPaused(a) ==
    /\ At(a, "autoSkip") /\ act[a].move = "endDay" /\ act[a].plan = {}
    /\ act' = [act EXCEPT ![a].step = "endPaused", ![a].todo = Paused]
    /\ UNCHANGED <<clock, tables, holder>>
OpenDates == {DayOf(w.from) : w \in {x \in work : x.to = None}}
ClosedWork(t) ==
    {IF w.to = None THEN [w EXCEPT !.to = Later(t, w.from)] ELSE w : w \in work}
EndDay(a) ==
    /\ PausedEnded(a, "endDay") /\ Unlocked
    /\ IF WorkOpen
       THEN /\ work' = ClosedWork(act[a].at)
            /\ presence' = CloseRunning(act[a].at)
            /\ marked' = marked \cup OpenDates \cup {DayOf(act[a].at)}
       ELSE UNCHANGED <<work, marked, presence>>
    /\ Done(a)
    /\ UNCHANGED <<clock, records, holder>>

\* mutant: a decision does not keep an auto-skip.
NotDue_Decided(key, t) ==
    /\ Exists(key) /\ records[key].outcome = "AUTO_SKIPPED"
    /\ "today" \in OpenDates /\ Due[key[1]] > t
\* The auto-skips an automatic close at t takes back: their break was not due
\* by then, and nobody decided them.
NotDue(key, t) ==
    /\ Exists(key) /\ records[key].outcome = "AUTO_SKIPPED"
    /\ "today" \in OpenDates /\ Due[key[1]] > t /\ ~records[key].decided
\* autoClose at an earlier moment of the open session.
AutoClose(a) ==
    /\ Serves(a, "autoClose") /\ Unlocked
    /\ \E w \in work : \E t \in w.from .. clock :
         /\ w.to = None
         /\ work' = ClosedWork(t)
         /\ presence' = CloseRunning(t)
         /\ marked' = marked \cup OpenDates
         /\ records' = [key \in Keys |-> IF NotDue(key, t) THEN None ELSE records[key]]
    /\ UNCHANGED <<clock, holder, act>>

\* The process is cut off between two transactions; an open one is rolled back.
Crash(a) ==
    /\ ~At(a, "idle")
    /\ holder' = IF holder = a THEN None ELSE holder
    /\ Done(a)
    /\ UNCHANGED <<clock, tables>>

Tick == /\ clock < MaxTime /\ clock' = clock + 1
        /\ UNCHANGED <<tables, holder, act>>

-----------------------------------------------------------------------------
Init ==
    /\ clock = 0 /\ work = {[from |-> 0, to |-> None]} /\ marked = {}
    /\ presence = [s \in SessionIds |-> None]
    /\ records = [key \in Keys |-> None]
    /\ holder = None
    /\ act = [a \in Actors |-> Idle]
    /\ asked = 0

\* What a begun request goes on to do, until it is done.
Goes(a) ==
    \/ ReadPaused(a) \/ WritePaused(a) \/ StartScheduled(a) \/ StartQuick(a)
    \/ Pause(a) \/ Resume(a) \/ EndLate(a) \/ EndOpen(a) \/ ReadForMark(a) \/ MarkEnded(a)
    \/ BreakEnded(a) \/ Switch(a) \/ JudgeStatus(a) \/ RecordStatus(a) \/ CreateSkip(a)
    \/ CreateAutoSkip(a) \/ ListExpired(a) \/ Swept(a) \/ ListPaused(a) \/ EndDay(a)
Begins(a) ==
    \/ JudgeStart(a) \/ JudgeQuick(a) \/ JudgeAway(a) \/ ReadForPause(a) \/ ReadForResume(a)
    \/ FindBreak(a) \/ FindMark(a) \/ EndStatus(a) \/ JudgeSkip(a) \/ Comment(a) \/ Decide(a)
    \/ StartDay(a) \/ JudgeEndDay(a)

Next ==
    \/ \E a \in Requests : Begins(a) /\ asked < MaxRequests /\ asked' = asked + 1
    \/ /\ Tick \/ \E a \in Actors : Goes(a) \/ Sweep(a) \/ AutoClose(a) \/ Crash(a)
       /\ UNCHANGED asked

Spec == Init /\ [][Next]_vars

-----------------------------------------------------------------------------
(* Properties *)

TypeOK ==
    /\ clock \in Times /\ holder \in Actors \cup {None}
    /\ asked \in 0 .. MaxRequests
    /\ work \subseteq [from : Times, to : Times \cup {None}]
    /\ marked \subseteq Days
    /\ presence \in [SessionIds -> Session \cup {None}]
    /\ records \in [Keys -> Record \cup {None}]

\* However the requests of a person interleave (two taps, a retry, an older
\* client beside a current one), at most one break or meeting runs: every
\* transaction that opens a session closes or refuses what runs, under the
\* person's row lock.  No unique key of the database says so.
OneRunning == Cardinality(Running) <= 1

\* The session a break runs in is the one its record is linked to, and the
\* record does not read as paused: findOpenForUser finds every running break,
\* so "back to work" can end it.
RunningIsFound ==
    \A key \in Keys : Exists(key) =>
        \A s \in records[key].segs \cap Running :
            records[key].link = s /\ records[key].state # "PAUSED"

\* A break ends when the person was back, never later: the stored end is the
\* end of one of its segments, whoever ended it and however late.
EndsAtSegmentEnd ==
    \A key \in Keys : Exists(key) => LET r == records[key] IN
        r.ended # None => \E s \in r.segs : presence[s].to = r.ended

\* Presence sessions and break records tell one story of the day, whatever the
\* repositories were interrupted in: one stretch runs, its record is the one
\* "back to work" finds, and an ended record ends where a stretch of it does.
BreaksAgree == TypeOK /\ OneRunning /\ RunningIsFound /\ EndsAtSegmentEnd

\* Once a day is marked ended nothing that the break endpoints opened runs on
\* it; /presence/start reads the mark before it takes the lock, and is not held
\* to this.
EndedDayIsQuiet ==
    \A s \in Running : presence[s].by = "BREAKS" => DayOf(presence[s].from) \notin marked

\* A break record stands: taken breaks and skips never disappear or turn into
\* something else, but for an auto-skip, which the real break replaces while
\* nobody commented on it, and which goes undecided when the day turns out to
\* have ended before the break was due.
RecordsStand ==
    [][\A key \in Keys : Exists(key) =>
        \/ records'[key] # None /\ records'[key].outcome = records[key].outcome
        \/ /\ records[key].outcome = "AUTO_SKIPPED"
           /\ IF records'[key] = None THEN ~records[key].decided ELSE ~records[key].reason]_vars
=============================================================================
