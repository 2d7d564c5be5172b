---------------------------- MODULE OrgSettings ----------------------------
(***************************************************************************)
(* An organisation's settings row and its calendar (settings/, calendar/): *)
(* one JSON object with the attendance knobs, the history of week patterns *)
(* and the input-tracking sections, changed one section at a time by       *)
(* reading the row and writing it back; the overrides of single dates;     *)
(* the two in-process caches; and the months locked for payroll.           *)
(*                                                                         *)
(* A week pattern is whether the date is a working one; a department's     *)
(* input tracking is the custom reasons it offers, or Absent for the         *)
(* organisation's.                                                         *)
(***************************************************************************)
EXTENDS Integers, FiniteSets, Sequences

CONSTANTS Percents,        \* values of the two attendance knobs
          Reasons, Depts,
          Dates,           \* 2m - 1 and 2m are in month m
          RawTtl, CalTtl,  \* how long the two caches are used
          DayMarks,        \* bound: what single dates are marked as
          Offered,         \* bound: what departments are set to
          SetRequests,     \* requests handled at a time
          MaxSetRequests,  \* bound: changes that are asked for
          MaxReads,        \* bound: readers that find no calendar cached, and locks
          SharedRow,       \* the 3.x row organisations start from
          Absent

ASSUME TtlAssumption == RawTtl \in Nat /\ CalTtl \in Nat
ASSUME DatesAssumption == Dates \subseteq Nat \ {0} /\ DayMarks \subseteq BOOLEAN

\* The settings row: the knobs, the week patterns by the date they apply from, the
\* organisation's reasons and the departments'.
Knob == Percents \cup {SharedRow.full, SharedRow.half}
History == UNION {[entries \cup {0} -> BOOLEAN] : entries \in SUBSET Dates}
Offers == [Depts -> (SUBSET Reasons) \cup {Absent}]
SettingsRow == [full : Knob, half : Knob, history : History, reasons : SUBSET Reasons,
                depts : Offers]

ASSUME RowAssumption == SharedRow \in SettingsRow /\ SharedRow.full > SharedRow.half

Patches == [full : Percents \cup {Absent}, half : Percents \cup {Absent}]

Updates ==
    [kind : {"knobs"}, patch : Patches \ {[full |-> Absent, half |-> Absent]}]
    \cup [kind : {"pattern"}, from : Dates, works : BOOLEAN]
    \cup [kind : {"reasons"}, reasons : SUBSET Reasons]
    \cup [kind : {"dept"}, dept : Depts, entry : Offered]

\* The keys a section's update writes.
SectionKeys ==
    [full : Knob, half : Knob] \cup [history : History]
    \cup [reasons : SUBSET Reasons, depts : Offers] \cup [depts : Offers]

MonthOf(d) == (d + 1) \div 2

Months == {MonthOf(d) : d \in Dates}

\* What a request remembers from one of its steps to the next.
Job ==
    [stage : {"asked"}, todo : Updates]
    \cup [stage : {"fetched"}, todo : Updates, value : SettingsRow, age : Nat]
    \cup [stage : {"judged"}, todo : Updates, patch : SectionKeys]
    \cup [stage : {"write"}, todo : Updates, patch : SectionKeys, base : SettingsRow]
    \cup [stage : {"written"}, todo : Updates, value : SettingsRow]
    \cup [stage : {"day"}, date : Dates, works : BOOLEAN \cup {Absent}]
    \cup [stage : {"changed"}]
    \cup [stage : {"locking"}, month : Months]
    \cup [stage : {"cal"}, month : Months \cup {Absent}, history : History,
          over : [Dates -> BOOLEAN \cup {Absent}], age : Nat, value : SettingsRow \cup {Absent}]
    \cup [stage : {"built"}, month : Months, days : SUBSET Dates]

ASSUME AbsentAssumption == Absent \notin SettingsRow \cup Job \cup Months

VARIABLES own,       \* the organisation's row, or Absent
          overrides, \* per date: whether it is a working one, or Absent
          locked,    \* per month: the working dates it was locked with, or Absent
          raw,       \* cached row and its age, or Absent
          cal,       \* cached calendar and its age, or Absent
          queue,     \* input-tracking writes, one at a time
          job,       \* per slot: the request being handled, or Absent
          begun,     \* how many changes were asked for
          reads,     \* how many readers found no calendar cached, and locks
          entered,   \* history: per department, what the last edit of it meant
          sinceChange, \* history: how long ago the calendar's tables changed, or an
                       \* overwritten row was cached as new; up to both caches' times
          overtaken, \* history: whether an older row was written back or cached over a newer one
          lockedOver    \* history: months whose working dates were read too soon after a
                        \* change of the calendar, or before the last one was made

setVars == <<own, overrides, locked, raw, cal, queue, job, begun, reads,
             entered, sinceChange, overtaken, lockedOver>>

\* The row as read: the organisation's own, else the 3.x one.
Stored == IF own # Absent THEN own ELSE SharedRow

-----------------------------------------------------------------------------
(* The calendar (calendar.rules.ts).  A history of week patterns is what applies *)
(* from which date, 0 being the beginning of time.                               *)

PatternOn(history, d) ==
    LET from == CHOOSE f \in DOMAIN history :
                   f <= d /\ \A g \in DOMAIN history : g <= d => g <= f
    IN history[from]

\* Entries from the date on are replaced.
Kept(history, from) == {f \in DOMAIN history : f < from}

\* The newest decision holds from its date; the same days again start nothing.
WithPatternFrom(history, from, works) ==
    LET kept == Kept(history, from)
        before == [f \in kept |-> history[f]]
    IN IF PatternOn(before, from) = works THEN before
       ELSE [f \in kept \cup {from} |-> IF f = from THEN works ELSE history[f]]

IsWorkingDay(history, over, d) == IF over[d] # Absent THEN over[d] ELSE PatternOn(history, d)

Calendar == [d \in Dates |-> IsWorkingDay(Stored.history, overrides, d)]

DatesOf(m, calendar) == {d \in Dates : MonthOf(d) = m /\ calendar[d]}

WorkingDates(m) == DatesOf(m, Calendar)

\* The month a request is locking, or Absent.
Locking(q) ==
    IF q # Absent /\ q.stage \in {"locking", "cal", "built"} THEN q.month ELSE Absent

\* Months being locked whose working dates were read.
BeingLocked ==
    {m \in Months :
        \E r \in SetRequests : Locking(job[r]) = m /\ job[r].stage # "locking"}

Disturbed(changes) ==
    IF changes THEN sinceChange' = 0 /\ lockedOver' = lockedOver \cup BeingLocked
    ELSE UNCHANGED <<sinceChange, lockedOver>>

NoteChange == Disturbed(Stored'.history # Stored.history \/ overrides' # overrides)

-----------------------------------------------------------------------------
(* The rules of the other sections (settings.rules.ts, idle.rules.ts). *)

\* Falls back to the defaults when the pair makes no sense.
SettingsFromStored(row) ==
    IF row.full > row.half THEN [full |-> row.full, half |-> row.half]
    ELSE [full |-> SharedRow.full, half |-> SharedRow.half]

Given(v, old) == IF v = Absent THEN old ELSE v

\* A partial update is applied to the whole table, which must keep a full day
\* above a half day.
ApplyPatch(current, patch) ==
    [full |-> Given(patch.full, current.full), half |-> Given(patch.half, current.half)]

\* What a department offers once the organisation's reasons are these.
StillKnown(entry, reasons) == IF entry = Absent THEN Absent ELSE entry \cap reasons

-----------------------------------------------------------------------------
(* Reading through the cache, and writing a section of the row. *)

JobAt(r, stage) == job[r] # Absent /\ job[r].stage = stage

MayBegin(r) == job[r] = Absent /\ begun < MaxSetRequests

BeginJob(r, q) == job' = [job EXCEPT ![r] = q] /\ begun' = begun + 1

Proceed(r, q) == job' = [job EXCEPT ![r] = q] /\ UNCHANGED begun

RawHit == raw # Absent /\ raw.age < RawTtl

CalHit == cal # Absent /\ cal.age < CalTtl

\* The knobs are written as one table.
KnobKeys(patch, next) == next

\* What a section's update makes of the row it read; Absent: refused.
Section(q, row) ==
    CASE q.kind = "knobs" ->
           LET next == ApplyPatch(SettingsFromStored(row), q.patch)
           IN IF next.full > next.half THEN KnobKeys(q.patch, next) ELSE Absent
      [] q.kind = "pattern" ->
           [history |-> WithPatternFrom(row.history, q.from, q.works)]
      [] q.kind = "reasons" ->
           [reasons |-> q.reasons,
            depts |-> [d \in Depts |-> StillKnown(row.depts[d], q.reasons)]]
      [] q.kind = "dept" ->
           IF q.entry # Absent /\ ~(q.entry \subseteq row.reasons) THEN Absent
           ELSE [depts |-> [row.depts EXCEPT ![q.dept] = q.entry]]

Put(row, patch) ==
    [k \in DOMAIN row |-> IF k \in DOMAIN patch THEN patch[k] ELSE row[k]]

Idle == {"reasons", "dept"}

\* mutant: input-tracking writes do not wait for each other
Queued_Free(r, q) == queue' = queue

\* Input-tracking writes of an organisation run one at a time.
Queued(r, q) ==
    IF q.kind \in Idle THEN queue' = Append(queue, r) ELSE queue' = queue

MyTurn(r) == \A i \in DOMAIN queue : queue[i] = r => i = 1

Leave(r) == queue' = IF queue # <<>> /\ Head(queue) = r THEN Tail(queue) ELSE queue

\* The check of the locked months: a week pattern applies to every later month.
\* mutant: only the month it starts in is checked
PatternOpen_Month(from) == locked[MonthOf(from)] = Absent

PatternOpen(from) == \A m \in Months : m >= MonthOf(from) => locked[m] = Absent

DayOpen(d) == locked[MonthOf(d)] = Absent

\* A section's update arrives.  A week pattern first looks for locked months; an
\* input-tracking write waits for the earlier ones.
AskUpdate(r) ==
    /\ MayBegin(r)
    /\ \E q \in Updates :
          /\ q.kind = "pattern" => PatternOpen(q.from)
          /\ Queued(r, q)
          /\ BeginJob(r, [stage |-> "asked", todo |-> q])
    /\ UNCHANGED <<reads, own, overrides, locked, raw, cal, entered, sinceChange, overtaken, lockedOver>>

\* What the row read means: the section's new keys, or the end of the request.
Judge(r, q, row) ==
    IF Section(q, row) = Absent
    THEN Proceed(r, Absent) /\ Leave(r)
    ELSE Proceed(r, [stage |-> "judged", todo |-> q, patch |-> Section(q, row)]) /\ UNCHANGED queue

\* The settings are read: from the cache, or from the database.
ReadSettings(r) ==
    /\ JobAt(r, "asked")
    /\ MyTurn(r)
    /\ IF RawHit
       THEN Judge(r, job[r].todo, raw.value)
       ELSE /\ Proceed(r, [stage |-> "fetched", todo |-> job[r].todo, value |-> Stored, age |-> 0])
            /\ UNCHANGED queue
    /\ UNCHANGED <<reads, own, overrides, locked, raw, cal, entered, sinceChange, overtaken, lockedOver>>

\* What was read is cached as of when the read began.
Cached(q) == raw' = [value |-> q.value, age |-> q.age]

Overtakes(value) == overtaken' = (overtaken \/ value # Stored)

FetchedSettings(r) ==
    /\ JobAt(r, "fetched")
    /\ Cached(job[r]) /\ Overtakes(job[r].value)
    /\ Judge(r, job[r].todo, job[r].value)
    /\ UNCHANGED <<reads, own, overrides, locked, cal, entered, sinceChange, lockedOver>>

\* writeRaw reads the row again ...
ReadRow(r) ==
    /\ JobAt(r, "judged")
    /\ Proceed(r, [stage |-> "write", todo |-> job[r].todo, patch |-> job[r].patch, base |-> Stored])
    /\ UNCHANGED <<reads, own, overrides, locked, raw, cal, queue, entered, sinceChange, overtaken, lockedOver>>

Enter(q, row) ==
    entered' = CASE q.kind = "dept" -> [entered EXCEPT ![q.dept] = q.entry]
                 [] q.kind = "reasons" -> [d \in Depts |-> StillKnown(entered[d], q.reasons)]
                 [] OTHER -> entered

\* ... and writes it with the section's keys, every other key as it was read.
WriteRow(r) ==
    /\ JobAt(r, "write")
    /\ LET q == job[r]
           next == Put(q.base, q.patch)
       IN /\ own' = next
          /\ Overtakes(q.base)
          /\ Enter(q.todo, next)
          /\ Proceed(r, [stage |-> "written", todo |-> q.todo, value |-> next])
    /\ UNCHANGED <<reads, overrides, locked, raw, cal, queue>>
    /\ NoteChange

\* What was written is cached when the answer comes, as of then.
CacheRow(r) ==
    /\ JobAt(r, "written")
    /\ LET q == job[r]
       IN /\ raw' = [value |-> q.value, age |-> 0]
          /\ Overtakes(q.value)
          /\ Disturbed(q.value.history # Stored.history)
          /\ IF q.todo.kind = "pattern"
             THEN Proceed(r, [stage |-> "changed"]) /\ UNCHANGED queue
             ELSE Proceed(r, Absent) /\ Leave(r)
    /\ UNCHANGED <<reads, own, overrides, locked, cal, entered>>

-----------------------------------------------------------------------------
(* Single dates (calendar.service.ts), and whoever reads. *)

\* A date is marked or cleared, after a look at its month's lock.
AskDay(r) ==
    /\ MayBegin(r)
    /\ \E d \in Dates, works \in DayMarks \cup {Absent} :
          /\ DayOpen(d)
          /\ BeginJob(r, [stage |-> "day", date |-> d, works |-> works])
    /\ UNCHANGED <<reads, own, overrides, locked, raw, cal, queue, entered, sinceChange, overtaken, lockedOver>>

WriteDay(r) ==
    /\ JobAt(r, "day")
    /\ overrides' = [overrides EXCEPT ![job[r].date] = job[r].works]
    /\ Proceed(r, [stage |-> "changed"])
    /\ UNCHANGED <<reads, own, locked, raw, cal, queue, entered, overtaken>>
    /\ NoteChange

\* The cached calendar is dropped once the change is written.
Changed(r) ==
    /\ JobAt(r, "changed")
    /\ cal' = Absent
    /\ Proceed(r, Absent)
    /\ UNCHANGED <<reads, own, overrides, locked, raw, queue, entered, sinceChange, overtaken, lockedOver>>

\* What is read when no calendar is cached: its two tables, the settings through
\* their cache.
Reading(m) ==
    IF RawHit
    THEN [stage |-> "cal", month |-> m, history |-> raw.value.history, over |-> overrides,
          age |-> 0, value |-> Absent]
    ELSE [stage |-> "cal", month |-> m, history |-> Stored.history, over |-> overrides,
          age |-> 0, value |-> Stored]

AskCalendar(r) ==
    /\ job[r] = Absent /\ reads < MaxReads
    /\ reads' = reads + 1
    /\ ~CalHit
    /\ Proceed(r, Reading(Absent))
    /\ UNCHANGED <<own, overrides, locked, raw, cal, queue, entered, sinceChange, overtaken, lockedOver>>

\* mutant: the time the answer came counts as when it was read
AgeRead_Arrival(q) == 0

AgeRead(q) == q.age

Built(m, calendar) == [stage |-> "built", month |-> m, days |-> DatesOf(m, calendar)]

CalendarRead(q) == [d \in Dates |-> IsWorkingDay(q.history, q.over, d)]

ReadCalendar(r) ==
    /\ JobAt(r, "cal")
    /\ LET q == job[r]
       IN /\ cal' = [value |-> CalendarRead(q), age |-> AgeRead(q)]
          /\ Proceed(r, IF q.month = Absent THEN Absent ELSE Built(q.month, CalendarRead(q)))
          /\ IF q.value = Absent THEN UNCHANGED <<raw, overtaken>>
             ELSE Cached(q) /\ Overtakes(q.value)
    /\ UNCHANGED <<reads, own, overrides, locked, queue, entered, sinceChange, lockedOver>>

-----------------------------------------------------------------------------
(* A month is locked for payroll in one long transaction: under the month's lock  *)
(* its snapshot is built, on other connections and through the caches, and stored. *)

BeginLock(r) ==
    /\ job[r] = Absent /\ reads < MaxReads
    /\ reads' = reads + 1
    /\ \E m \in Months :
          /\ locked[m] = Absent
          /\ \A o \in SetRequests : Locking(job[o]) # m
          /\ Proceed(r, [stage |-> "locking", month |-> m])
    /\ UNCHANGED <<own, overrides, locked, raw, cal, queue, entered, sinceChange, overtaken, lockedOver>>

\* The snapshot's calendar: the cached one, or one that is read.
BuildLock(r) ==
    /\ JobAt(r, "locking")
    /\ LET m == job[r].month
       IN /\ Proceed(r, IF CalHit THEN Built(m, cal.value) ELSE Reading(m))
          /\ lockedOver' = IF sinceChange < RawTtl + CalTtl THEN lockedOver \cup {m} ELSE lockedOver
    /\ UNCHANGED <<reads, own, overrides, locked, raw, cal, queue, entered, sinceChange, overtaken>>

\* A change of the settings or of a date is under way.
UnderWay ==
    \E r \in SetRequests : job[r] # Absent /\ job[r].stage \notin {"locking", "cal", "built"}

CommitLock(r) ==
    /\ JobAt(r, "built")
    /\ LET m == job[r].month
       IN /\ locked' = [locked EXCEPT ![m] = job[r].days]
          /\ lockedOver' = IF UnderWay THEN lockedOver \cup {m} ELSE lockedOver
    /\ Proceed(r, Absent)
    /\ UNCHANGED <<reads, own, overrides, raw, cal, queue, entered, sinceChange, overtaken>>

\* The transaction fails: its time is up, or the snapshot could not be built.
FailLock(r) ==
    /\ JobAt(r, "locking") \/ JobAt(r, "built")
    /\ Proceed(r, Absent)
    /\ lockedOver' = lockedOver \ {job[r].month}
    /\ UNCHANGED <<reads, own, overrides, locked, raw, cal, queue, entered, sinceChange, overtaken>>

UnlockMonth ==
    /\ \E m \in Months :
          /\ locked[m] # Absent
          /\ locked' = [locked EXCEPT ![m] = Absent]
          /\ lockedOver' = lockedOver \ {m}
    /\ UNCHANGED <<own, overrides, raw, cal, queue, job, begun, reads, entered, sinceChange, overtaken>>

Older(age) == IF age < RawTtl + CalTtl THEN age + 1 ELSE age

\* An entry too old to be used is as good as none.
Aged(entry, ttl) ==
    IF entry = Absent \/ entry.age + 1 >= ttl THEN Absent ELSE [entry EXCEPT !.age = @ + 1]

\* Time passes: cached entries, answers on their way and the last change get older.
Tick ==
    /\ raw' = Aged(raw, RawTtl) /\ cal' = Aged(cal, CalTtl)
    /\ job' = [r \in SetRequests |->
                 IF job[r] # Absent /\ "age" \in DOMAIN job[r]
                 THEN [job[r] EXCEPT !.age = Older(@)] ELSE job[r]]
    /\ sinceChange' = Older(sinceChange)
    /\ UNCHANGED <<own, overrides, locked, queue, begun, reads, entered, overtaken, lockedOver>>

-----------------------------------------------------------------------------
SetInit ==
    /\ own = Absent
    /\ overrides = [d \in Dates |-> Absent]
    /\ locked = [m \in Months |-> Absent]
    /\ raw = Absent /\ cal = Absent
    /\ queue = <<>>
    /\ job = [r \in SetRequests |-> Absent]
    /\ begun = 0 /\ reads = 0
    /\ entered = SharedRow.depts
    /\ sinceChange = RawTtl + CalTtl
    /\ overtaken = FALSE
    /\ lockedOver = {}

SetStep(r) ==
    \/ AskUpdate(r) \/ ReadSettings(r) \/ FetchedSettings(r) \/ ReadRow(r)
    \/ WriteRow(r) \/ CacheRow(r)
    \/ AskDay(r) \/ WriteDay(r) \/ Changed(r) \/ AskCalendar(r) \/ ReadCalendar(r)
    \/ BeginLock(r) \/ BuildLock(r) \/ CommitLock(r) \/ FailLock(r)

SetNext == (\E r \in SetRequests : SetStep(r)) \/ UnlockMonth \/ Tick

SetSpec == SetInit /\ [][SetNext]_setVars

-----------------------------------------------------------------------------
\* The row always has a full day above a half day, whatever patches met: each
\* writes the whole table it judged.
FullAboveHalf == own # Absent => own.full > own.half

\* "Two department edits never overwrite each other's entry": as long as no older
\* row was written back or cached over a newer one, every department has what its
\* last edit meant, less the reasons that are gone since.
DepartmentEditsKeep == ~overtaken => Stored.depts = entered

\* The settings row stands whatever its writers and readers overtake (writeRaw,
\* update, serial): the day classes keep their order, departments their edits.
SettingsStand == FullAboveHalf /\ DepartmentEditsKeep

\* A month locked for payroll keeps the working dates of its snapshot (lockMonth,
\* assertMonthOpen), unless they were read within the two caches' times of a change
\* of the calendar, or a change came or was under way between that and the lock.
LockedMonthStands ==
    \A m \in Months :
        locked[m] # Absent /\ m \notin lockedOver => WorkingDates(m) = locked[m]

\* The calendar everybody's day class and target are taken from (forOrg, readRaw) is
\* at most the two caches' times behind the last change of its tables, or behind the
\* last answer to a write of the row that came when the row had been overwritten.
CalendarCatchesUp ==
    CalHit /\ cal.value # Calendar => sinceChange < RawTtl + CalTtl
=============================================================================
