------------------------------ MODULE DayFocus ------------------------------
(***************************************************************************)
(* One person's working day and what is computed from it: focus and paid   *)
(* time (worktime/domain/focus.ts), the timeline, the hours and the day's  *)
(* class (reports/domain/report-builder.ts, worktime/domain/hourly.ts).    *)
(*                                                                         *)
(* The rows of the day come from the operations that write them: sessions  *)
(* and their offline samples, breaks and their segments, skips, live and   *)
(* logged meetings, away time, decisions and manual adjustments.  Each     *)
(* writes in one transaction under the person's lock, so each is one       *)
(* action; how they race is the subject of WorkDay, Breaks and Approvals.  *)
(* Moments are whole minutes here: every instant the code computes with is *)
(* floored to a whole second first, so nothing is rounded.                 *)
(***************************************************************************)
EXTENDS ShiftRules

CONSTANTS Open,             \* the end of what still runs
          Shifts,           \* the definitions that are judged
          WorkedShifts,     \* those of them somebody works in this instance
          FirstTime,        \* bound: the first moment somebody may start
          MaxTime,          \* bound: the last moment of the day that is looked at
          MaxRows,          \* bound: rows the day may have
          Deltas,           \* what an adjustment may add (whole minutes but 0)
          Buffer,           \* paid minutes on top of the scheduled breaks
          JoinGap,          \* COVERAGE_JOIN_SEC: evidence this close together joins
          MaxGap,           \* MAX_GAP_SEC: a sample covers this much at most
          MinMeeting,       \* MIN_LIVE_MEETING_SEC: shorter live meetings are discarded
          HourLength,       \* moments of a clock hour
          QuietAvailable,   \* QUIET_MIN_AVAILABLE_MIN
          FullPct, HalfPct  \* of what is expected: a full and a half day

VARIABLES clock, shift, day

vars == <<clock, shift, day>>

NoDay == [sessions |-> << >>, presence |-> << >>, records |-> << >>, meetings |-> << >>,
          away |-> << >>, coverage |-> << >>, adjustments |-> << >>]

Rows(d) == Len(d.sessions) + Len(d.presence) + Len(d.records) + Len(d.meetings)
             + Len(d.away) + Len(d.coverage) + Len(d.adjustments)

SpansOf(list, now) ==
    [i \in DOMAIN list |-> Span(list[i].start, list[i].end, Open, now)]

-----------------------------------------------------------------------------
(* Focus: the parts of the day as computeFocus takes them. *)

Work(d, now) == Normalize(SpansOf(d.sessions, now))

OfType(d, types) == SelectSeq(d.presence, LAMBDA p : p.type \in types)

BreakSpans(d, now) == SpansOf(OfType(d, {"BREAK", "LUNCH"}), now)

PastMeetings(d) == SelectSeq(d.meetings, LAMBDA m : m.mode = "PAST")

MeetingSpans(d, now) ==
    SpansOf(OfType(d, {"MEETING"}), now) \o SpansOf(PastMeetings(d), now)

IsSkipped(r) == r.outcome \in {"SKIPPED", "AUTO_SKIPPED"}

\* The minutes a decision adds or takes: an overrun that was asked for adds, a
\* skip and a meeting that are refused take.
AskedOverrun(d, status) ==
    Total(SelectSeq(d.records, LAMBDA r : /\ r.outcome = "TAKEN" /\ r.asked
                                          /\ r.status = status),
          LAMBDA r : Larger(0, r.overrun))

SkippedMinutes(d, status) ==
    Total(SelectSeq(d.records, LAMBDA r : IsSkipped(r) /\ r.status = status),
          LAMBDA r : Larger(0, r.duration))

MeetingsOf(d, status) == SelectSeq(d.meetings, LAMBDA m : m.status = status)

MeetingMinutes(d, status, now) ==
    Total(SpansOf(MeetingsOf(d, status), now),
          LAMBDA m : Length(Intersect(<<m>>, Work(d, now))))

\* What each taken break took inside the sessions, its segments together.
TakenBy(d, r, now) ==
    Length(Intersect(Work(d, now), [i \in DOMAIN r.segments |->
        Span(d.presence[r.segments[i]].start, d.presence[r.segments[i]].end, Open, now)]))

TakenOf(d, kinds) ==
    SelectSeq(d.records, LAMBDA r : /\ r.outcome = "TAKEN" /\ r.segments # << >>
                                    /\ r.kind \in kinds)

\* The kinds of the shift are numbered from 1; a quick break is of none of them.
Scheduled == 1..Kinds
Quick == 0

\* Scheduled breaks are paid up to their length; overruns, quick breaks and the
\* rest of the break time only out of the buffer.
Allowance(d, breakTime, now) ==
    LET taken(r) == TakenBy(d, r, now)
        scheduledTaken == Smaller(Total(TakenOf(d, Scheduled), taken), breakTime)
        paidScheduled ==
            Smaller(Total(TakenOf(d, Scheduled),
                          LAMBDA r : Smaller(taken(r), Larger(0, r.duration))),
                    scheduledTaken)
        overrun == Total(TakenOf(d, Scheduled),
                         LAMBDA r : Larger(0, taken(r) - Larger(0, r.duration)))
        quick == Smaller(Total(TakenOf(d, {Quick}), taken),
                         Larger(0, breakTime - scheduledTaken))
        other == Larger(0, breakTime - scheduledTaken - quick)
    IN [paidScheduled |-> paidScheduled,
        bufferUsed |-> Smaller(Larger(0, Buffer), overrun + quick + other)]

AwayOf(d, statuses, now) == SpansOf(SelectSeq(d.away, LAMBDA a : a.status \in statuses), now)

\* A replayed session counts only where evidence covers it: samples and approved
\* time, joined; a session's own start and end only stretch evidence near them.
EdgesOf(r, c) ==
    IF c.end < r.start \/ c.start > r.end THEN {}
    ELSE {e \in {Stretch(r.start, c.start), Stretch(c.end, r.end)} :
            e.start < e.end /\ e.end - e.start <= JoinGap}

Edges(replayed, pieces) ==
    UNION {EdgesOf(r, c) : r \in ToSet(replayed), c \in ToSet(pieces)}

\* mutant: what a manager approved is no evidence
Evidence_Samples(d, now) == SpansOf(d.coverage, now)

Evidence(d, now) ==
    SpansOf(d.coverage, now) \o AwayOf(d, {"APPROVED"}, now)
      \o SpansOf(MeetingsOf(d, "APPROVED"), now)

Unverified(d, now) ==
    LET replayed == SpansOf(SelectSeq(d.sessions, LAMBDA s : s.replay), now)
        rejected == SpansOf(MeetingsOf(d, "REJECTED"), now)
        pieces == JoinGaps(Evidence(d, now), JoinGap)
        covered == pieces \o SetToSeq(Edges(replayed, pieces))
        explained == AwayOf(d, {"PENDING", "REJECTED", "UNEXPLAINED", "NOT_REQUIRED"}, now)
                       \o Intersect(rejected, Work(d, now))
    IN Subtract(Subtract(Intersect(Work(d, now), replayed), covered), explained)

AdjustedOf(d) ==
    Total(SelectSeq(d.adjustments, LAMBDA a : ~a.voided), LAMBDA a : a.delta)

\* The numbers of a day, from its parts.  raw is what focus is before it is kept from
\* being negative.
Counted(p) ==
    LET paidBreak == Larger(0, Smaller(p.break - p.unverifiedBreak,
                                       p.allowance.paidScheduled + p.allowance.bufferUsed))
        paidScheduled == Smaller(p.allowance.paidScheduled, paidBreak)
        unverified == p.unverified - p.unverifiedBreak
        away == p.away["PENDING"] + p.away["REJECTED"] + p.away["UNEXPLAINED"]
        raw == p.adjusted + p.span - p.break - away + p.asked["APPROVED"]
                 - p.minus["REJECTED"] - unverified
    IN [span |-> p.span, break |-> p.break, away |-> away, unverified |-> unverified,
        approvedPlus |-> p.asked["APPROVED"], rejectedMinus |-> p.minus["REJECTED"],
        pendingPlus |-> p.asked["PENDING"] + p.away["PENDING"],
        pendingMinus |-> p.minus["PENDING"],
        paidBreak |-> paidBreak, unpaidBreak |-> Larger(0, p.break - paidBreak),
        paidScheduled |-> paidScheduled, bufferUsed |-> paidBreak - paidScheduled,
        adjusted |-> p.adjusted, raw |-> raw,
        focus |-> Larger(0, raw), paid |-> Larger(0, raw) + paidBreak]

FocusOf(d, work, breaks, unverified, now) ==
    Counted(
      [span |-> Length(work), break |-> Length(breaks),
       unverified |-> Length(unverified),
       unverifiedBreak |-> Length(Intersect(unverified, breaks)),
       allowance |-> Allowance(d, Length(breaks), now),
       away |-> [status \in {"PENDING", "REJECTED", "UNEXPLAINED"} |->
                   Length(Intersect(Subtract(work, breaks), AwayOf(d, {status}, now)))],
       asked |-> [status \in {"APPROVED", "PENDING"} |-> AskedOverrun(d, status)],
       minus |-> [status \in {"REJECTED", "PENDING"} |->
                    SkippedMinutes(d, status) + MeetingMinutes(d, status, now)],
       adjusted |-> AdjustedOf(d)])

\* computeFocus.
Focus(d, now) ==
    FocusOf(d, Work(d, now), Intersect(Work(d, now), BreakSpans(d, now)),
            Unverified(d, now), now)

-----------------------------------------------------------------------------
(* What the reports show of the day. *)

Piece(kind, i) == [kind |-> kind, start |-> i.start, end |-> i.end]

PiecesOf(kind, list) == [i \in DOMAIN list |-> Piece(kind, list[i])]

\* buildTimeline: every presence and logged meeting inside the sessions, work
\* where there is neither, and OFF between two sessions.
Timeline(d, now) ==
    LET work == Work(d, now)
        inside(list) == FoldLeft(LAMBDA out, i : out \o Intersect(<<i>>, work), << >>, list)
        breaks == inside(BreakSpans(d, now))
        meetings == inside(MeetingSpans(d, now))
    IN PiecesOf("BREAK", breaks) \o PiecesOf("MEETING", meetings)
       \o PiecesOf("WORK", Subtract(work, breaks \o meetings))
       \o [i \in 1..Larger(0, Len(work) - 1) |->
             Piece("OFF", Stretch(work[i].end, work[i + 1].start))]

\* Hour h of a working day is h o'clock on the day itself, or on the next one when
\* more of the day's work lies there.
HourWindow(date, h) == Stretch(At(date, h * HourLength), At(date, (h + 1) * HourLength))

\* mutant: the hours are those of the calendar day
DayHour_Calendar(date, h, work) == HourWindow(date, h)

DayHour(date, h, work) ==
    LET base == HourWindow(date, h)
        next == HourWindow(date + 1, h)
    IN IF Length(Intersect(work, <<next>>)) > Length(Intersect(work, <<base>>))
       THEN next ELSE base

Hour(d, date, h, active, quietBelow, now) ==
    LET work == Work(d, now)
        window == <<DayHour(date, h, work)>>
        away == BreakSpans(d, now) \o MeetingSpans(d, now)
        available == Length(Intersect(work, window))
                       - Length(Intersect(Intersect(work, away), window))
    IN [available |-> available,
        quiet |-> /\ available >= QuietAvailable
                  /\ Length(Intersect(away, window)) = 0
                  /\ active < quietBelow]

Hours == 0..(DayLength \div HourLength) - 1

\* The class of a past day whose focus is f.
DayClass(f) ==
    DayClassOf(TRUE, TRUE, f.span, f.focus, TargetOf(shift, Buffer, TRUE), FullPct, HalfPct)

-----------------------------------------------------------------------------
(* The operations that write the rows. *)

OpenAt(list) == {i \in DOMAIN list : list[i].end = Open}

IsWorking == OpenAt(day.sessions) # {}

\* Ends the presence that runs, and with it a live meeting, which is discarded
\* when it was too short.
PresenceEnded(d, at) ==
    LET ended(m) == [m EXCEPT !.end = at,
                              !.status = IF at - m.start < MinMeeting THEN "NOT_REQUIRED" ELSE @]
    IN [d EXCEPT
          !.presence = [i \in DOMAIN @ |->
              IF @[i].end = Open THEN [@[i] EXCEPT !.end = at] ELSE @[i]],
          !.meetings = [i \in DOMAIN @ |-> IF @[i].end = Open THEN ended(@[i]) ELSE @[i]]]

OnPresence(d, type, from) ==
    [PresenceEnded(d, from) EXCEPT
        !.presence = Append(@, [type |-> type, start |-> from, end |-> Open])]

HasRoom(rows) == shift \in WorkedShifts /\ Rows(day) + rows <= MaxRows

Writes(d) == day' = d /\ UNCHANGED <<clock, shift>>

\* A session may be opened by an action the agent replays after being offline.
StartDay ==
    /\ HasRoom(1) /\ ~IsWorking
    /\ \E replay \in BOOLEAN :
         Writes([day EXCEPT
                   !.sessions = Append(@, [start |-> clock, end |-> Open, replay |-> replay])])

EndDay ==
    /\ IsWorking
    /\ Writes([PresenceEnded(day, clock) EXCEPT
                 !.sessions = [i \in DOMAIN @ |->
                     IF @[i].end = Open THEN [@[i] EXCEPT !.end = clock] ELSE @[i]]])

NewRecord(outcome, kind, duration) ==
    [outcome |-> outcome, kind |-> kind, duration |-> duration, asked |-> FALSE, overrun |-> 0,
     status |-> IF outcome = "TAKEN" THEN "NOT_REQUIRED" ELSE "PENDING",
     segments |-> IF outcome = "TAKEN" THEN <<Len(day.presence) + 1>> ELSE << >>]

IsRecorded(k) == \E i \in DOMAIN day.records : day.records[i].kind = k

TakeBreak ==
    /\ IsWorking /\ HasRoom(2)
    /\ \E k \in ToSet(Enabled(shift)) :
         /\ ~IsRecorded(k)
         /\ Writes([OnPresence(day, "BREAK", clock) EXCEPT
                      !.records = Append(@, NewRecord("TAKEN", k, shift.breaks[k].duration))])

SkipBreak ==
    /\ IsWorking /\ HasRoom(1)
    /\ \E k \in ToSet(Enabled(shift)) :
         /\ ~IsRecorded(k)
         /\ Writes([day EXCEPT
                      !.records = Append(@, NewRecord("SKIPPED", k, shift.breaks[k].duration))])

Runs(r) == \E j \in OpenAt(day.presence) : j \in ToSet(r.segments)

\* A paused break goes on: one more segment of the same record.
ResumeBreak ==
    /\ IsWorking /\ HasRoom(1)
    /\ \E i \in DOMAIN day.records :
         /\ day.records[i].outcome = "TAKEN" /\ ~day.records[i].asked /\ ~Runs(day.records[i])
         /\ Writes([OnPresence(day, "BREAK", clock) EXCEPT
                      !.records[i].segments = Append(@, Len(day.presence) + 1)])

TookOf(r, at) ==
    Total(r.segments, LAMBDA j : (IF day.presence[j].end = Open THEN at ELSE day.presence[j].end)
                                   - day.presence[j].start)

\* A pause or an end of the break; at the end a 3.x agent may ask for its overrun.
EndBreak ==
    \E i \in DOMAIN day.records, asks \in BOOLEAN :
        LET r == day.records[i]
            over == IF r.duration = 0 THEN 0 ELSE Larger(0, TookOf(r, clock) - r.duration)
        IN /\ Runs(r)
           /\ asks => over > 0
           /\ Writes([PresenceEnded(day, clock) EXCEPT
                        !.records[i].overrun = over,
                        !.records[i].asked = asks,
                        !.records[i].status = IF asks THEN "PENDING" ELSE @])

StartMeeting ==
    /\ IsWorking /\ HasRoom(2)
    /\ Writes([OnPresence(day, "MEETING", clock) EXCEPT
                 !.meetings = Append(@, [mode |-> "LIVE", status |-> "PENDING",
                                         start |-> clock, end |-> Open])])

\* A meeting held earlier today: over by now, inside one session, over no break and
\* over no other meeting.
MayLogPast(m) ==
    /\ m.end <= clock
    /\ \E s \in ToSet(SpansOf(day.sessions, clock)) : s.start <= m.start /\ m.end <= s.end
    /\ ~\E b \in ToSet(BreakSpans(day, clock)) : Overlaps(m, b)
    /\ ~\E p \in ToSet(OfType(day, {"MEETING"})) :
          /\ p.end = Open \/ p.end - p.start >= MinMeeting
          /\ Overlaps(m, Span(p.start, p.end, Open, clock))
    /\ ~\E o \in ToSet(day.meetings) :
          /\ ~(o.mode = "LIVE" /\ o.end # Open /\ o.status = "NOT_REQUIRED"
                /\ o.end - o.start < MinMeeting)
          /\ Overlaps(m, Span(o.start, o.end, Open, clock))

LogPast ==
    /\ HasRoom(1)
    /\ \E m \in [start : FirstTime..MaxTime, end : FirstTime..MaxTime] :
         /\ m.start < m.end /\ MayLogPast(m)
         /\ Writes([day EXCEPT !.meetings = Append(@, [mode |-> "PAST", status |-> "PENDING",
                                                       start |-> m.start, end |-> m.end])])

-----------------------------------------------------------------------------
(* Away time. *)

Latest(S, low) == FoldSet(Larger, low, S)

\* Where an away time that is said to begin at from begins: not before the day or
\* the end of the last break or meeting, and after away time answered before.
AwayStart(from) ==
    LET session == day.sessions[CHOOSE i \in OpenAt(day.sessions) : TRUE]
        ends == {p.end : p \in {q \in ToSet(day.presence) : q.end # Open /\ q.end > from}}
        start == Smaller(Latest(ends, Larger(from, session.start)), clock)
        covering == {a.end : a \in {b \in ToSet(day.away) :
                                      b.start < clock /\ b.start <= start /\ b.end > start}}
    IN Smaller(Latest(covering, start), clock)

\* mutant: an away time that covers a recorded one is recorded beside it
RecordAway_Beside(status, start, end) ==
    /\ HasRoom(1) /\ start < end
    /\ ~\E a \in ToSet(day.away) : a.start <= start /\ a.end > start
    /\ Writes([day EXCEPT !.away = Append(@, [status |-> status, start |-> start, end |-> end])])

\* An away time that would cover one already recorded is refused.
RecordAway(status, start, end) ==
    /\ HasRoom(1) /\ start < end
    /\ ~\E a \in ToSet(day.away) : a.start < end /\ a.end > start
    /\ Writes([day EXCEPT !.away = Append(@, [status |-> status, start |-> start, end |-> end])])

MayBeAway == IsWorking /\ OpenAt(day.presence) = {}

SubmitAway ==
    /\ MayBeAway
    /\ \E from \in FirstTime..clock, status \in {"PENDING", "NOT_REQUIRED"} :
         RecordAway(status, AwayStart(from), clock)

\* The answer "took a break": a quick break since then.
AwayBreak ==
    /\ MayBeAway /\ HasRoom(2)
    /\ \E from \in FirstTime..clock :
         Writes([OnPresence(day, "BREAK", AwayStart(from)) EXCEPT
                   !.records = Append(@, NewRecord("TAKEN", Quick, 1))])

\* The question was never answered: cut to the session it lies in.
Unexplained ==
    /\ day.sessions # << >>
    /\ \E from, until \in FirstTime..clock :
         LET session == Span(day.sessions[Len(day.sessions)].start,
                             day.sessions[Len(day.sessions)].end, Open, clock)
         IN RecordAway("UNEXPLAINED", Larger(from, session.start), Smaller(until, session.end))

-----------------------------------------------------------------------------
(* Decisions, adjustments, samples. *)

\* What waits for a decision: <<list, index>> of the rows of the day.
Waiting(d) ==
    {<<"records", i>> : i \in {j \in DOMAIN d.records : d.records[j].status = "PENDING"}}
    \cup {<<"meetings", i>> : i \in {j \in DOMAIN d.meetings :
                                /\ d.meetings[j].status = "PENDING"
                                /\ d.meetings[j].end # Open}}
    \cup {<<"away", i>> : i \in {j \in DOMAIN d.away : d.away[j].status = "PENDING"}}

Decided(d, item, verdict) == [d EXCEPT ![item[1]][item[2]].status = verdict]

Decide ==
    \E item \in Waiting(day), verdict \in {"APPROVED", "REJECTED"} :
        Writes(Decided(day, item, verdict))

Adjust ==
    /\ HasRoom(1)
    /\ \E delta \in Deltas \ {0} :
         Writes([day EXCEPT !.adjustments = Append(@, [delta |-> delta, voided |-> FALSE])])

VoidAdjustment ==
    \E i \in DOMAIN day.adjustments :
        /\ ~day.adjustments[i].voided
        /\ Writes([day EXCEPT !.adjustments[i].voided = TRUE])

\* The agent sends what it sampled while it was offline.  Coverage takes the samples
\* of a replayed session that begin up to MaxGap before it; each lasts until the next
\* one came, but no longer than MaxGap, and the newest is a point.
Sample ==
    /\ HasRoom(1)
    /\ \E s \in ToSet(SelectSeq(day.sessions, LAMBDA x : x.replay)), length \in 0..MaxGap :
       \E m \in s.start - MaxGap..(IF s.end = Open THEN clock ELSE s.end - 1) :
         /\ m + length <= clock
         /\ Stretch(m, m + length) \notin ToSet(day.coverage)
         /\ Writes([day EXCEPT !.coverage = Append(@, Stretch(m, m + length))])

Tick ==
    /\ clock < MaxTime /\ shift \in WorkedShifts
    /\ clock' = clock + 1
    /\ UNCHANGED <<shift, day>>

-----------------------------------------------------------------------------

Init ==
    /\ clock = FirstTime
    /\ shift \in Shifts
    /\ day = NoDay

Next ==
    \/ StartDay \/ EndDay
    \/ TakeBreak \/ SkipBreak \/ ResumeBreak \/ EndBreak
    \/ StartMeeting \/ LogPast
    \/ SubmitAway \/ AwayBreak \/ Unexplained
    \/ Decide \/ Adjust \/ VoidAdjustment \/ Sample
    \/ Tick

Spec == Init /\ [][Next]_vars

-----------------------------------------------------------------------------
(* Properties. *)

IsUntouched == \A i \in DOMAIN day.adjustments : day.adjustments[i].voided

AddsUp(f) ==
    /\ f.paidBreak + f.unpaidBreak = f.break
    /\ f.paidScheduled + f.bufferUsed = f.paidBreak
    /\ f.bufferUsed \in 0..Buffer
    /\ (IsUntouched /\ f.approvedPlus = 0 /\ f.rejectedMinus = 0) =>
         /\ f.focus + f.break + f.away + f.unverified = f.span
         /\ f.paid <= f.span

\* Break time is paid or unpaid, paid break time is scheduled or buffer, and within
\* the buffer; and as long as nobody added or took minutes by hand or by decision,
\* the day is exactly its focus, its breaks, its undecided or refused away time and
\* its unverified time, so nothing of a day is counted twice and pay never exceeds
\* it (focus.ts: "the formula holds exactly on the numbers returned").
DayAddsUp == AddsUp(Focus(day, clock))

GrantedAll(d) ==
    [n \in DOMAIN d |-> [i \in DOMAIN d[n] |->
        IF <<n, i>> \in Waiting(d) THEN [d[n][i] EXCEPT !.status = "APPROVED"] ELSE d[n][i]]]

\* A refused meeting is evidence no more, but explains the replayed time it covers:
\* a break inside it is paid again.
IsOnReplayedBreak(item) ==
    /\ item[1] = "meetings"
    /\ \E s \in ToSet(day.sessions) : s.replay
    /\ \E b \in ToSet(BreakSpans(day, clock)) : Overlaps(b, day.meetings[item[2]])

ClassRank(class) == CASE class = "FULL" -> 2 [] class = "HALF" -> 1 [] OTHER -> 0

RankOf(f) == ClassRank(DayClass(f))

\* What may be decided of the day, and how the day is then.
Verdicts ==
    {[verdict |-> v, item |-> item, day |-> Decided(day, item, v)] :
       item \in Waiting(day), v \in {"APPROVED", "REJECTED"}}
    \cup {[verdict |-> "all", item |-> << >>, day |-> GrantedAll(day)]}

MovesFrom(now, v, then) ==
    CASE v.verdict = "APPROVED" ->
           then.focus >= now.focus /\ then.paid >= now.paid /\ RankOf(now) <= RankOf(then)
      [] v.verdict = "REJECTED" ->
           /\ then.focus <= now.focus /\ RankOf(then) <= RankOf(now)
           /\ IsOnReplayedBreak(v.item) \/ then.paid <= now.paid
      [] OTHER ->
           then.focus >= now.pendingPlus + (IF now.raw < 0 THEN now.raw ELSE now.focus)

MovesAsShown(now) == \A v \in Verdicts : MovesFrom(now, v, Focus(v.day, clock))

\* A decision moves a day the way it is meant to: granting what waits never costs
\* focus, pay or the day's class, refusing it never earns any (but the case named
\* above); and what the portal announces as "+N min if approved" (pendingPlusSec) is
\* what granting everything adds to focus at least (focus.ts, attendance.ts; the
\* evidence rule makes approved time count in two places).  Apart is a day whose sum
\* is below zero, of which focus shows zero: what is granted first makes up for what
\* is missing, so focus gains less than was announced, and may gain nothing.
DecisionsMoveAsShown == MovesAsShown(Focus(day, clock))

Shown(timeline, kind) == Moments(SelectSeq(timeline, LAMBDA p : p.kind = kind))

\* The moments that are shown more than once.
Twice(timeline) ==
    UNION {Moments(<<p[1]>>) \cap Moments(<<p[2]>>) :
             p \in {<<timeline[i], timeline[j]>> :
                      <<i, j>> \in {q \in (DOMAIN timeline) \X (DOMAIN timeline) : q[1] < q[2]}}}

\* An away time that is answered as a break is not compared with the meetings that
\* were logged: the break may lie over one.
BreakOverLogged ==
    Moments(SpansOf(PastMeetings(day), clock)) \cap
    UNION {Moments(<<Span(day.presence[j].start, day.presence[j].end, Open, clock)>>) :
             j \in UNION {ToSet(r.segments) : r \in ToSet(TakenOf(day, {Quick}))}}

ShowsTheDay(timeline, work, breaks, meetings) ==
    /\ Shown(timeline, "BREAK") = work \cap breaks
    /\ Shown(timeline, "MEETING") = work \cap meetings
    /\ Shown(timeline, "WORK") = work \ (breaks \cup meetings)
    /\ Shown(timeline, "OFF") =
         {m \in FirstTime..clock : /\ m \notin work
                                   /\ \E before, after \in work : before < m /\ m < after}
    /\ Twice(timeline) \subseteq BreakOverLogged

\* What the two clock hours h of the day's calendar days hold of a set of moments.
InHour(h, moments) == [date \in 0..1 |-> Cardinality(moments \cap Moments(<<HourWindow(date, h)>>))]

\* Of an hour the day works twice, the one with more work is shown, the first if equal.
HourHolds(h, available, work, away) ==
    LET works == InHour(h, work)
        there == InHour(h, work \ away)
    IN available = IF works[0] = 0 \/ works[1] = 0 THEN there[0] + there[1]
                   ELSE IF works[1] > works[0] THEN there[1] ELSE there[0]

\* The timeline shows every moment from the first session to the end of the last one
\* exactly once: a break or a meeting where there was one (both for the break above),
\* work in the rest of the sessions, OFF between them; and the hours of the day hold all of its available
\* time, but of a clock hour it works on both calendar days only the longer half
\* (report-builder.ts, hourly.ts).
TimelineIsTheDay ==
    LET work == Moments(Work(day, clock))
        breaks == Moments(BreakSpans(day, clock))
        meetings == Moments(MeetingSpans(day, clock))
    IN /\ ShowsTheDay(Timeline(day, clock), work, breaks, meetings)
       /\ \A h \in Hours : HourHolds(h, Hour(day, 0, h, 0, 1, clock).available,
                                     work, breaks \cup meetings)

-----------------------------------------------------------------------------
(* The shift itself. *)

InWindow(slot, now) == PhaseAt(slot, now) \in {"EARLY", "DUE", "LATE"}

\* What validateShiftDefinition accepts is enough for what the agent relies on: at
\* every moment at most one break may be started, and at most one is auto-skipped by
\* an End Day, the windows follow the order of
\* the breaks, the agent rings only inside a window, a start while it rings is on
\* time, and a shift's own moments and due times belong to its day, also past
\* midnight (break-schedule.ts:147 "that is what stops an earlier break being taken
\* after a later one").
ValidShiftKeepsOrder ==
    (day = NoDay /\ clock = FirstTime /\ IsValid(shift)) =>
        LET slots == BreakSlots(shift, 1)
            bounds == ShiftBounds(shift, 1)
        IN /\ \A now \in bounds.start..(bounds.end - 1) : ShiftDayOf(shift, now) = 1
           /\ \A i \in DOMAIN slots :
                /\ ShiftDayOf(shift, slots[i].start) = 1
                /\ slots[i].opens <= slots[i].rings /\ slots[i].quiet <= slots[i].closes
                /\ slots[i].end <= bounds.end
                /\ \A now \in bounds.start..bounds.end :
                     Cardinality({p \in PlanAutoSkips(slots, {}, <<bounds>>, now, TRUE) :
                                    p.atEndDay}) <= 1
                /\ \A j \in DOMAIN slots : i < j => slots[i].closes <= slots[j].opens
                /\ \A now \in 0..3 * DayLength :
                     /\ (now \in slots[i].rings..(slots[i].quiet - 1)) <=>
                          (ClassifyStart(slots[i], now).timing = "ON_TIME")
                     /\ InWindow(slots[i], now) =>
                          \A j \in DOMAIN slots \ {i} : ~InWindow(slots[j], now)
=============================================================================
