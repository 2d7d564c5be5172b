------------------------------ MODULE WorkDay ------------------------------
(***************************************************************************)
(* The working day of one person: the work_sessions rows, the End Day and  *)
(* login marks (work_day_ends), the presence status that is open, the      *)
(* non-idle activity samples, and the requests of the agents, the portal   *)
(* and the 10-minute job that change them.                                 *)
(*                                                                         *)
(* Every write of a session takes the person's row lock (lockUser), so a   *)
(* transaction is one action here.  What a handler reads BEFORE its        *)
(* transaction it may use after another handler has committed: a handler   *)
(* with such a read is several actions, and what it remembers sits in      *)
(* requests[r].  People share nothing, so one person is modelled.          *)
(*                                                                         *)
(* Time is counted in coarse units; a request keeps the clock value of its *)
(* arrival (RequestClock.now()), however late its transaction runs.        *)
(***************************************************************************)
EXTENDS SessionLedger, FiniteSets

CONSTANTS
  Slots,           \* requests of the person that may be in flight at once
  Job,             \* the handler of the auto-close job
  Kinds,           \* <<op, generation>> pairs the person's clients send
  ShiftDay,        \* working day of a moment (ShiftDayResolver)
  CalendarDay,     \* calendar day of a moment (dateKeyInZone, localDateString)
  Backdate         \* START_DAY_BACKDATE_MS

Handlers == Slots \cup {Job}
Generations == {"LEGACY", "AGENT_31", "AGENT_40"}
Ops == {"start", "end", "action", "presence", "back", "sample", "job"}

ASSUME RequestAssumption ==
  /\ Kinds \subseteq (Ops \ {"job"}) \X Generations
  /\ Job \notin Slots
ASSUME ClockAssumption ==
  /\ ShiftDay \in [Times -> Days]
  /\ CalendarDay \in [Times -> Days]
  /\ Backdate \in Nat
(* shiftDayKey: the calendar day, or in the early hours of a night shift the *)
(* one before.  So a working day is not left and come back to, nor is it     *)
(* left before the calendar has left it.                                     *)
ASSUME DaysAssumption ==
  \A t, u, v \in Times :
    /\ t <= u /\ u <= v
    /\ ShiftDay[t] = ShiftDay[v] \/ ShiftDay[t] = CalendarDay[v]
    => ShiftDay[u] = ShiftDay[t]

VARIABLES
  clock,           \* the server's clock
  dayEnd,          \* work_day_ends.ended_at of each day, or None
  login,           \* work_day_ends.login_at of each day, or None
  presence,        \* the presence sessions with no end: [date, start]
  inputs,          \* instants of the stored non-idle samples
  requests         \* [Handlers -> request in flight or None]

vars == <<clock, sessions, dayEnd, login, presence, inputs, requests>>

-----------------------------------------------------------------------------
(* Records *)

(* A handler between two of its awaits: op and gen say which one, now is its *)
(* clock (replay: set by X-Event-At), x the instant its body carries         *)
(* (startedAt, a sample's at), pc the step it is at; sess, at, day and open  *)
(* are what it has read and will use.                                        *)
Request == [op: Ops, gen: Generations, now: Times, replay: BOOLEAN, x: Times,
            pc: {"close", "judge", "act", "extend", "mark", "store"},
            sess: SessionIds \cup {None}, at: Times \cup {None},
            day: Days \cup {None}, open: BOOLEAN]

NewRequest(op, gen, now, replay, x) ==
  [op |-> op, gen |-> gen, now |-> now, replay |-> replay, x |-> x,
   pc |-> "judge", sess |-> None, at |-> None, day |-> None, open |-> FALSE]

DayIsOpen == OpenIds # {}

-----------------------------------------------------------------------------
(* Times of a session *)

AtMost(t, high) == IF t > high THEN high ELSE t
IsLatest(S, t) == t \in S /\ \A u \in S : u <= t

IsStale(s, now) == now > LatestEnd(s)

(* autoCloseAt over lastInputs: the latest stored input of the session, no   *)
(* later than its latest end; the start when there is none.                  *)
SessionInputs(s, now) ==
  {t \in inputs : s.start <= t /\ t <= AtLeast(now, LatestEnd(s))}
ClosesAt_NeedsInput(s, now, t) ==     \* mutant: a session with no input is skipped
  IsLatest({AtMost(u, LatestEnd(s)) : u \in SessionInputs(s, now)}, t)
ClosesAt_Unclamped(s, now, t) ==      \* mutant: the latest end is no bound
  IsLatest({s.start} \cup SessionInputs(s, now), t)
ClosesAt(s, now, t) ==
  IsLatest({s.start} \cup {AtMost(u, LatestEnd(s)) : u \in SessionInputs(s, now)}, t)

(* createSessionTx: the start moves up to the end of the last session, then  *)
(* back to the clock it is given.                                            *)
StartsAt(x, now, t) ==
  \E u \in Times : /\ IsLatest({x} \cup {sessions[i].end : i \in ClosedIds}, u)
                   /\ t = AtMost(u, now)
Create(t, date, source) ==
  \E i \in SessionIds \ Rows :
    sessions' = [sessions EXCEPT ![i] = NewSession(date, t, source)]

Close(i, t, why) ==
  sessions' = [sessions EXCEPT ![i] = [@ EXCEPT !.end = t, !.reason = why]]

SourceOf(q) == IF q.replay THEN "REPLAY"
               ELSE IF q.gen = "LEGACY" THEN "LEGACY" ELSE "AGENT"

(* markDayEnded on a set of days: only an unset mark is set. *)
MarkEnded_Overwrites(ds, t) ==        \* mutant: a set mark is overwritten
  [d \in Days |-> IF d \in ds THEN t ELSE dayEnd[d]]
MarkEnded(ds, t) ==
  [d \in Days |-> IF d \in ds /\ dayEnd[d] = None THEN t ELSE dayEnd[d]]
MarkCleared(ds) ==
  [d \in Days |-> IF d \in ds THEN None ELSE dayEnd[d]]

-----------------------------------------------------------------------------
(* Handlers *)

At(r, ops, pc) == /\ requests[r] # None
                  /\ requests[r].op \in ops
                  /\ requests[r].pc = pc
Goto(r, pc) == requests' = [requests EXCEPT ![r].pc = pc]
Done(r) == requests' = [requests EXCEPT ![r] = None]

(* Presence routes of an older agent never look at the work session. *)
LooksAtSession(q) == ~(q.gen = "LEGACY" /\ q.op \in {"presence", "back"})

(* The read of autoCloseIfStale / autoCloseAll: a stale open session goes    *)
(* with the instant it would close at into the request's plan.               *)
StaleFound(q) == LooksAtSession(q) /\ \E i \in OpenIds : IsStale(sessions[i], q.now)
Accept(r, q) ==
  \/ /\ ~StaleFound(q)
     /\ q.op # "job"
     /\ requests' = [requests EXCEPT ![r] = q]
  \/ /\ LooksAtSession(q)
     /\ \E i \in OpenIds, t \in Times :
          /\ IsStale(sessions[i], q.now)
          /\ ClosesAt(sessions[i], q.now, t)
          /\ requests' = [requests EXCEPT ![r] =
                            [q EXCEPT !.pc = "close", !.sess = i, !.at = t]]

(* The bound on sessions: a request that could open one finds an id free. *)
MayOpen(op, gen) == op = "start" \/ (op \in {"action", "sample"} /\ gen = "LEGACY")
Openers == {s \in Slots : requests[s] # None /\ MayOpen(requests[s].op, requests[s].gen)}
Room == Cardinality(SessionIds \ Rows) > Cardinality(Openers)

Receive(r, op, gen, x) ==
  /\ requests[r] = None
  /\ MayOpen(op, gen) => Room
  /\ x <= clock
  /\ op = "start" => clock - x <= Backdate       \* boundedStartedAt
  /\ op \notin {"start", "sample"} => x = clock
  /\ Accept(r, NewRequest(op, gen, clock, FALSE, x))
  /\ UNCHANGED <<clock, sessions, dayEnd, login, presence, inputs>>

(* The 10-minute job; its run is guarded, so there is one at a time. *)
JobScan ==
  /\ requests[Job] = None
  /\ Accept(Job, NewRequest("job", "LEGACY", clock, FALSE, clock))
  /\ UNCHANGED <<clock, sessions, dayEnd, login, presence, inputs>>

(* The transaction of autoClose, at the planned instant.  The job is done, a *)
(* request goes on.                                                          *)
CloseStale(r) ==
  LET q == requests[r]  s == sessions[q.sess]  t == AtLeast(q.at, s.start)
  IN  /\ At(r, Ops, "close")
      /\ \/ /\ q.sess \in OpenIds
            /\ Close(q.sess, t, "AUTO_CLOSED")
            /\ presence' = {}
            /\ dayEnd' = MarkEnded({s.date}, t)
         \/ /\ q.sess \notin OpenIds
            /\ UNCHANGED <<sessions, presence, dayEnd>>
      /\ IF q.op = "job" THEN Done(r) ELSE Goto(r, "judge")
      /\ UNCHANGED <<clock, login, inputs>>

(* startDay: an open session is answered as it is. *)
StartDay(r) ==
  LET q == requests[r]
  IN  /\ At(r, {"start"}, "judge")
      /\ \/ DayIsOpen /\ UNCHANGED <<sessions, dayEnd>>
         \/ /\ ~DayIsOpen
            /\ \E t \in Times :
                 /\ StartsAt(q.x, q.now, t)
                 /\ Create(t, ShiftDay[t], SourceOf(q))
                 /\ dayEnd' = MarkCleared({ShiftDay[t], CalendarDay[q.now]})
      /\ Done(r)
      /\ UNCHANGED <<clock, login, presence, inputs>>

(* EndDayFlow's judgement: older than the open session's start is refused.   *)
JudgeEnd(r) ==
  LET q == requests[r]
  IN  /\ At(r, {"end"}, "judge")
      /\ IF \E i \in OpenIds : sessions[i].start > q.now THEN Done(r)
                                                         ELSE Goto(r, "act")
      /\ UNCHANGED <<clock, sessions, dayEnd, login, presence, inputs>>

EndOpenDay_OwnDate(r, i) ==           \* mutant: the calendar day is not marked
  LET q == requests[r]  s == sessions[i]  t == AtLeast(q.now, s.start)
  IN  /\ Close(i, t, "USER")
      /\ presence' = {}
      /\ dayEnd' = MarkEnded({s.date, ShiftDay[q.now]}, t)
(* endDay with a session open, *)
EndOpenDay(r, i) ==
  LET q == requests[r]  s == sessions[i]  t == AtLeast(q.now, s.start)
  IN  /\ Close(i, t, "USER")
      /\ presence' = {}
      /\ dayEnd' = MarkEnded({s.date, ShiftDay[q.now], CalendarDay[q.now]}, t)
(* and with none: the mark of today is set from today's last session; else   *)
(* an older agent marks the day anyway.                                      *)
EndClosedDay(r) ==
  LET q == requests[r]
      today == ShiftDay[q.now]
      ends == {sessions[i].end : i \in {j \in ClosedIds : sessions[j].date = today}}
  IN  /\ UNCHANGED sessions
      /\ \/ /\ \/ dayEnd[today] # None
               \/ ends = {} /\ q.gen # "LEGACY"
            /\ UNCHANGED <<presence, dayEnd>>
         \/ /\ dayEnd[today] = None
            /\ \E t \in Times : IsLatest(ends, t) /\ dayEnd' = MarkEnded({today}, t)
            /\ UNCHANGED presence
         \/ /\ dayEnd[today] = None /\ ends = {} /\ q.gen = "LEGACY"
            /\ dayEnd' = MarkEnded({today, CalendarDay[q.now]}, q.now)
            /\ presence' = {}
EndDay(r) ==
  /\ At(r, {"end"}, "act")
  /\ \/ \E i \in OpenIds : EndOpenDay(r, i)
     \/ ~DayIsOpen /\ EndClosedDay(r)
  /\ Done(r)
  /\ UNCHANGED <<clock, login, inputs>>

(* ensureOpen for a break or meeting (action) and for the status of a 3.1    *)
(* agent: an older agent's action opens the day unless it was ended.         *)
EnsureOpen(r) ==
  LET q == requests[r]  today == ShiftDay[q.now]
  IN  /\ At(r, {"action", "presence", "back"}, "judge")
      /\ LooksAtSession(q)
      /\ \/ /\ q.op = "action" /\ ~DayIsOpen
            /\ q.gen = "LEGACY" /\ dayEnd[today] = None
            /\ \E t \in Times : StartsAt(q.now, q.now, t) /\ Create(t, today, "LEGACY")
            /\ Done(r)
         \/ /\ q.op # "action"
            /\ \E i \in OpenIds :
                 requests' = [requests EXCEPT ![r] =
                                [@ EXCEPT !.pc = "act", !.day = sessions[i].date]]
            /\ UNCHANGED sessions
         \/ /\ \/ q.op = "action" /\ (DayIsOpen \/ q.gen # "LEGACY" \/ dayEnd[today] # None)
               \/ q.op # "action" /\ ~DayIsOpen
            /\ Done(r)
            /\ UNCHANGED sessions
      /\ UNCHANGED <<clock, dayEnd, login, presence, inputs>>

(* An older agent's status asks only for the calendar day's mark; its return *)
(* to work asks for nothing.                                                 *)
FindEndForStatus(r) ==
  LET q == requests[r]  today == CalendarDay[q.now]
  IN  /\ At(r, {"presence", "back"}, "judge")
      /\ ~LooksAtSession(q)
      /\ IF q.op = "presence" /\ dayEnd[today] # None
         THEN Done(r)
         ELSE requests' = [requests EXCEPT ![r] = [@ EXCEPT !.pc = "act", !.day = today]]
      /\ UNCHANGED <<clock, sessions, dayEnd, login, presence, inputs>>

(* switchTo and endOpenForUser close every open status; switchTo opens one.  *)
SwitchStatus(r) ==
  LET q == requests[r]
  IN  /\ At(r, {"presence", "back"}, "act")
      /\ presence' = IF q.op = "back" THEN {} ELSE {[date |-> q.day, start |-> q.now]}
      /\ Done(r)
      /\ UNCHANGED <<clock, sessions, dayEnd, login, inputs>>

-----------------------------------------------------------------------------
(* POST /activity/report, one non-idle sample taken at x *)

LastStarted(x, i) ==
  /\ i \in Rows /\ sessions[i].start <= x
  /\ \A j \in Rows : sessions[j].start <= x => sessions[j].start <= sessions[i].start
Extendable(x, i) ==
  /\ i \in ClosedIds /\ sessions[i].reason = "AUTO_CLOSED"
  /\ sessions[i].end <= x /\ x <= LatestEnd(sessions[i])
Covered(x) == \E i \in OpenIds : sessions[i].start <= x
WorkedAt(x) ==
  \E i \in Rows : /\ sessions[i].start <= x
                  /\ sessions[i].end # None => x < sessions[i].end

(* A sample of a 3.1 agent: of the open session, or late.  A late one is     *)
(* stored inside a session, or moves the automatic close it comes after; any *)
(* other is stored only when a session is open.                              *)
JudgeSample(r) ==
  LET q == requests[r]
      late == q.x < q.now
      mayExtend == late /\ q.gen = "AGENT_40"
  IN  /\ At(r, {"sample"}, "judge")
      /\ q.gen # "LEGACY"
      /\ \/ /\ Covered(q.x) \/ (late /\ WorkedAt(q.x))
            /\ Goto(r, "mark")
         \/ /\ ~Covered(q.x) /\ ~(late /\ WorkedAt(q.x))
            /\ mayExtend
            /\ \E i \in SessionIds :
                 /\ LastStarted(q.x, i)
                 /\ Extendable(q.x, i)
                 /\ IF sessions[i].end = q.x
                    THEN Goto(r, "mark")
                    ELSE requests' = [requests EXCEPT ![r] =
                           [@ EXCEPT !.pc = "extend", !.sess = i,
                                     !.at = sessions[i].end, !.open = DayIsOpen]]
         \/ /\ ~Covered(q.x) /\ ~(late /\ WorkedAt(q.x))
            /\ mayExtend => \/ \A i \in SessionIds : ~LastStarted(q.x, i)
                            \/ \E i \in SessionIds : LastStarted(q.x, i) /\ ~Extendable(q.x, i)
            /\ IF DayIsOpen THEN Goto(r, "mark") ELSE Done(r)
      /\ UNCHANGED <<clock, sessions, dayEnd, login, presence, inputs>>

ExtendAutoClosed_Blind(r) ==          \* mutant: the condition of updateMany is dropped
  LET q == requests[r]  s == sessions[q.sess]
  IN  /\ At(r, {"sample"}, "extend")
      /\ sessions' = [sessions EXCEPT ![q.sess] =
                     [@ EXCEPT !.end = q.x, !.source = "REPLAY"]]
      /\ dayEnd' = [dayEnd EXCEPT ![s.date] = IF @ = q.at THEN q.x ELSE @]
      /\ Goto(r, "mark")
      /\ UNCHANGED <<clock, login, presence, inputs>>
(* extendAutoClosed: only if the session still ends where it was read to.    *)
ExtendAutoClosed(r) ==
  LET q == requests[r]  s == sessions[q.sess]
  IN  /\ At(r, {"sample"}, "extend")
      /\ \/ /\ s.reason = "AUTO_CLOSED" /\ s.end = q.at
            /\ sessions' = [sessions EXCEPT ![q.sess] =
                              [@ EXCEPT !.end = q.x, !.source = "REPLAY"]]
            /\ dayEnd' = [dayEnd EXCEPT ![s.date] = IF @ = q.at THEN q.x ELSE @]
            /\ Goto(r, "mark")
         \/ /\ ~(s.reason = "AUTO_CLOSED" /\ s.end = q.at)
            /\ UNCHANGED <<sessions, dayEnd>>
            /\ IF q.open THEN Goto(r, "mark") ELSE Done(r)
      /\ UNCHANGED <<clock, login, presence, inputs>>

(* An older agent's first sample of the working day opens it: at the first   *)
(* login known for it, else at the sample, trusted a little way back.        *)
FindLogin(r) ==
  LET q == requests[r]
      today == ShiftDay[q.now]
      logins == {login[d] : d \in {e \in {today, CalendarDay[q.now]} : login[e] # None}}
      known == {t \in logins : t <= q.now /\ ShiftDay[t] = today}
  IN  /\ At(r, {"sample"}, "judge")
      /\ q.gen = "LEGACY"
      /\ \/ /\ DayIsOpen \/ ShiftDay[q.x] # today
            /\ Goto(r, "mark")
         \/ /\ ~DayIsOpen /\ ShiftDay[q.x] = today
            /\ \E t \in Times :
                 /\ IF known = {} THEN t = (IF q.x + Backdate < q.now THEN q.now - Backdate ELSE q.x)
                    ELSE t \in known /\ \A u \in known : t <= u
                 /\ requests' = [requests EXCEPT ![r] = [@ EXCEPT !.pc = "act", !.at = t]]
      /\ UNCHANGED <<clock, sessions, dayEnd, login, presence, inputs>>

OpenImplicit_Unlocked(r) ==           \* mutant: nothing is looked up under the lock
  LET q == requests[r]
  IN  /\ At(r, {"sample"}, "act")
      /\ \E t \in Times : StartsAt(q.at, clock, t) /\ Create(t, ShiftDay[q.now], "LEGACY")
      /\ Goto(r, "mark")
      /\ UNCHANGED <<clock, dayEnd, login, presence, inputs>>
(* openImplicit; its clock is the server's, not the request's. *)
OpenImplicit(r) ==
  LET q == requests[r]  today == ShiftDay[q.now]
  IN  /\ At(r, {"sample"}, "act")
      /\ \/ /\ ~DayIsOpen /\ dayEnd[today] = None
            /\ \E t \in Times : StartsAt(q.at, clock, t) /\ Create(t, today, "LEGACY")
         \/ /\ DayIsOpen \/ dayEnd[today] # None
            /\ UNCHANGED sessions
      /\ Goto(r, "mark")
      /\ UNCHANGED <<clock, dayEnd, login, presence, inputs>>

(* The report's own test: a sample after its calendar day's End Day is not   *)
(* stored.                                                                   *)
FindEnd(r) ==
  LET q == requests[r]  m == dayEnd[CalendarDay[q.x]]
  IN  /\ At(r, {"sample"}, "mark")
      /\ IF m # None /\ q.x > m THEN Done(r) ELSE Goto(r, "store")
      /\ UNCHANGED <<clock, sessions, dayEnd, login, presence, inputs>>

(* store and recordLogin: the first sample stored of a calendar day.         *)
Store(r) ==
  LET q == requests[r]  d == CalendarDay[q.x]
  IN  /\ At(r, {"sample"}, "store")
      /\ inputs' = inputs \cup {q.x}
      /\ login' = [login EXCEPT ![d] = IF @ = None THEN q.x ELSE @]
      /\ Done(r)
      /\ UNCHANGED <<clock, sessions, dayEnd, presence>>

-----------------------------------------------------------------------------
Tick ==
  /\ clock < MaxTime
  /\ clock' = clock + 1
  /\ UNCHANGED <<sessions, dayEnd, login, presence, inputs, requests>>

Handle(r) ==
  \/ CloseStale(r) \/ StartDay(r) \/ JudgeEnd(r) \/ EndDay(r) \/ EnsureOpen(r)
  \/ FindEndForStatus(r) \/ SwitchStatus(r) \/ JudgeSample(r) \/ ExtendAutoClosed(r)
  \/ FindLogin(r) \/ OpenImplicit(r) \/ FindEnd(r) \/ Store(r)

Init ==
  /\ clock = 0
  /\ sessions = [i \in SessionIds |-> None]
  /\ dayEnd = [d \in Days |-> None]
  /\ login = [d \in Days |-> None]
  /\ presence = {}
  /\ inputs = {}
  /\ requests = [r \in Handlers |-> None]

Next ==
  \/ Tick
  \/ JobScan
  \/ \E r \in Slots, k \in Kinds, x \in Times : Receive(r, k[1], k[2], x)
  \/ \E r \in Handlers : Handle(r)

(* The job comes round every ten minutes and finishes: @Cron and its guard.  *)
Fairness == WF_vars(JobScan) /\ WF_vars(CloseStale(Job))

Spec == Init /\ [][Next]_vars /\ Fairness

-----------------------------------------------------------------------------
(* Properties *)

(* Type correctness of every table and of every request in flight. *)
TypeOK ==
  /\ clock \in Times
  /\ sessions \in [SessionIds -> Session \cup {None}]
  /\ dayEnd \in [Days -> Times \cup {None}]
  /\ login \in [Days -> Times \cup {None}]
  /\ presence \subseteq [date: Days, start: Times]
  /\ inputs \subseteq Times
  /\ requests \in [Handlers -> Request \cup {None}]

(* What a handler plans stays possible while it waits for the lock: the      *)
(* session it read is still there, and the instant it will write is within   *)
(* that session's limits.                                                    *)
PlanHolds(q) ==
  /\ q.pc = "close" =>
       /\ q.sess \in Rows /\ q.at \in Times
       /\ q.at <= LatestEnd(sessions[q.sess])
  /\ q.pc = "extend" =>
       /\ q.sess \in Rows /\ q.at \in Times
       /\ q.at < q.x /\ q.x <= LatestEnd(sessions[q.sess])
  /\ (q.pc = "act" /\ q.op = "presence") => q.day \in Days
PlansHold == \A r \in Handlers : requests[r] # None => PlanHolds(requests[r])

(* The automatic close stays inside its session, stored and planned: no      *)
(* session ends before it starts or is closed past its latest end, and what  *)
(* closeStale and extendAutoClosed read before the lock is still possible    *)
(* when they hold it.                                                        *)
SessionsHold == ClosesWithinLimits /\ PlansHold

(* The dates under which a session that is over is to read as ended: its own *)
(* one, and after an End Day also the calendar day it was pressed on, which  *)
(* is the next one for most of a night.                                      *)
ReadAs(s) == {s.date} \cup
             (IF s.reason = "USER" /\ s.start < s.end THEN {CalendarDay[s.end]} ELSE {})

(* Whatever closes a session leaves those dates marked (markDayEnded).       *)
CloseMarksItsDay ==
  \A i \in OpenIds : i \in ClosedIds' => \A d \in ReadAs(sessions'[i]) : dayEnd'[d] # None

(* Only a Start Day takes the mark from a date somebody has worked under:    *)
(* from the date of the session it opens, or from a calendar day that        *)
(* session has run on by now.                                                *)
UnmarkedOnlyToWork ==
  \A i \in ClosedIds : \A d \in ReadAs(sessions[i]) :
    (dayEnd[d] # None /\ dayEnd'[d] = None) =>
      \E j \in OpenIds' \ OpenIds :
        \/ sessions'[j].date = d
        \/ \E t \in Times : sessions'[j].start <= t /\ t <= clock /\ CalendarDay[t] = d

(* Whatever closes a session marks the date it is kept under, and an End Day *)
(* the calendar day too, for the 3.0 readers, who ask for the calendar day;  *)
(* each mark stays until a session is opened that runs on that date.  The    *)
(* automatic close marks the session's own date only, so a night it closes   *)
(* need not read as ended under its second one.                              *)
ClosedDayIsMarked == [][CloseMarksItsDay /\ UnmarkedOnlyToWork]_vars

(* An End Day mark that stands never moves back: it is cleared by a Start    *)
(* Day or moves later with the automatic close it came from.                 *)
MarkNeverMovesBack ==
  [][\A d \in Days : (dayEnd[d] # None /\ dayEnd'[d] # None) => dayEnd[d] <= dayEnd'[d]]_vars

(* However samples, actions and closes overtake each other, nothing takes    *)
(* time back: neither from a closed session nor from a day's mark.           *)
MovesOnlyForward == ClosedMovesOnlyForward /\ MarkNeverMovesBack

(* A missed End Day is closed in the end, by the job when nobody comes back. *)
StaleIsClosed ==
  \A i \in SessionIds :
    (i \in OpenIds /\ IsStale(sessions[i], clock)) ~> i \notin OpenIds
=============================================================================
