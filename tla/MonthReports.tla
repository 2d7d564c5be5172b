---------------------------- MODULE MonthReports ----------------------------
(***************************************************************************)
(* The reports of a month that has ended: their totals (report-builder.ts), *)
(* the report of a person and of a team, read live or from the snapshot of  *)
(* a locked month (reports.service.ts, month-lock.service.ts), and the runs *)
(* that owners are told of: the job of the 1st and the catch-up on boot and *)
(* every day (report-runs.service.ts), with crashes and failed builds.      *)
(*                                                                         *)
(* One organisation.  A day of a person is their focus; every other total   *)
(* is a sum over days in the same way.  Whose items wait, and what a lock    *)
(* keeps out, is MonthRegister's: here a decision changes the focus of a     *)
(* member only while no lock stands or is being taken.                                      *)
(***************************************************************************)
EXTENDS Integers, FiniteSets, FiniteSetsExt

CONSTANTS
  Nothing,
  Persons,
  Posts,           \* [role, member, active] a person may have
  FirstPost, FirstFocus,
  JoinedOn,        \* [Persons -> the date their account is from]
  Dates,           \* of the month
  IsWorkDate,      \* the calendar
  Expected,        \* the target of a working day
  Pcts,            \* percentages of the target that a full day may take
  LastDay,         \* bound: days of the next month
  MaxFaults,       \* bound: crashes and failed builds
  MaxEdits         \* bound: moves, decisions and changes of the settings

ASSUME ReportsAssumption ==
  /\ FirstPost \in [Persons -> Posts] /\ IsWorkDate \in [Dates -> BOOLEAN]
  /\ Dates \subseteq Nat /\ {Expected, LastDay, MaxFaults, MaxEdits} \subseteq Nat
  /\ Nothing \notin Nat

VARIABLES
  day,             \* of the next month; 0 while the month lasts
  cronDue,         \* the jobs of the day still to come
  bootDue,         \* the catch-up of the boot is still to come
  up, job,         \* the process; the job it runs, or Nothing
  firstBoot,       \* the day 3.1 first booted on this database, or Nothing
  runs,            \* <<scope, owner>> pairs with a stored run
  told,            \* notices: [pairs -> Nat], those of the catch-up
  post, focus, fullPct,
  locking, snapshot,    \* the lock being taken; the locked month, or Nothing
  ask,             \* a report being built, or Nothing
  faults, edits,
  accounted        \* owners that finished jobs read (history)

jobVars == <<cronDue, bootDue, up, firstBoot, job, runs, told, faults, accounted>>
dataVars == <<post, focus, fullPct, edits>>
monthVars == <<dataVars, locking, snapshot, ask>>
reportVars == <<day, jobVars, monthVars>>

ReportsInit ==
  /\ day = 0 /\ cronDue = {} /\ bootDue = FALSE /\ job = Nothing
  /\ up \in BOOLEAN /\ firstBoot = IF up THEN 0 ELSE Nothing
  /\ runs = {} /\ told = [k \in {"TEAM", "ALL"} \X Persons |-> 0]
  /\ post = FirstPost /\ focus \in FirstFocus /\ fullPct \in Pcts
  /\ locking = Nothing /\ snapshot = Nothing /\ ask = Nothing
  /\ faults = 0 /\ edits = 0 /\ accounted = {}

-----------------------------------------------------------------------------
(* The arithmetic *)

Rules == INSTANCE ShiftRules WITH DayLength <- 1, Kinds <- 0, NoBreak <- Nothing

(* summarizeDay, of a day that has passed.                                   *)
Summary(p, d) ==
  LET f == focus[p][d]
      workday == IsWorkDate[d] /\ (f > 0 \/ d >= JoinedOn[p])
      target == IF workday THEN Expected ELSE 0 IN
    [workday |-> workday, focus |-> f, expected |-> target,
     class |-> Rules!DayClassOf(TRUE, workday, f, f, target, fullPct, fullPct \div 2)]

Rounded(sum, n) == IF n = 0 THEN 0 ELSE (2 * sum + n) \div (2 * n)
WorkFocus(days) == MapThenSumSet(LAMBDA x : x[2].focus, {y \in days : y[2].workday})

(* monthTotals, of days given as <<where, summary>> pairs.                   *)
MonthTotals(days) ==
  LET of(c) == Cardinality({x \in days : x[2].class = c})
      work == Cardinality({x \in days : x[2].workday}) IN
    [workdays |-> work, full |-> of("FULL"), half |-> of("HALF"), absent |-> of("ABSENT"),
     extra |-> of("EXTRA"),
     focus |-> MapThenSumSet(LAMBDA x : x[2].focus, days),
     expected |-> MapThenSumSet(LAMBDA x : x[2].expected, days),
     average |-> Rounded(WorkFocus(days), work)]

Row(p) ==
  LET days == {<<d, Summary(p, d)>> : d \in Dates} IN
    [days |-> days, totals |-> MonthTotals(days)]

Total(rows, key) == MapThenSumSet(LAMBDA p : rows[p].totals[key], DOMAIN rows)


(* "over all their working days"                                             *)
TeamAverage(rows) ==
  Rounded(MapThenSumSet(LAMBDA p : WorkFocus(rows[p].days), DOMAIN rows), Total(rows, "workdays"))

TeamTotals(rows) ==
  [key \in {"workdays", "full", "half", "absent", "extra", "focus", "expected", "average"} |->
    IF key = "average" THEN TeamAverage(rows) ELSE Total(rows, key)]

Worked(p) == \E d \in Dates : focus[p][d] > 0
Everyone == {p \in Persons : post[p].member}
InMonth(ps) == {p \in ps : post[p].active \/ Worked(p)}

-----------------------------------------------------------------------------
(* What else happens: people are hired, moved and blocked, items of the month *)
(* are decided, the settings change, the month is locked and unlocked.       *)

Edits == edits < MaxEdits /\ edits' = edits + 1

Repost(p, x) ==
  /\ Edits /\ x # post[p]
  /\ post' = [post EXCEPT ![p] = x]
  /\ UNCHANGED <<day, jobVars, focus, fullPct, locking, snapshot, ask>>

Decide(p, d, f) ==
  /\ post[p].member => locking = Nothing /\ snapshot = Nothing
  /\ Edits /\ Worked(p) /\ f # focus[p][d]
  /\ focus' = [focus EXCEPT ![p][d] = f]
  /\ UNCHANGED <<day, jobVars, post, fullPct, locking, snapshot, ask>>

ChangeSettings(pct) ==
  /\ Edits /\ pct # fullPct
  /\ fullPct' = pct
  /\ UNCHANGED <<day, jobVars, post, focus, locking, snapshot, ask>>

(* lockMonth, with the month's advisory lock held while the snapshot is built. *)
BeginLock ==
  /\ up /\ day > 0 /\ locking = Nothing /\ snapshot = Nothing
  /\ locking' = [people |-> InMonth(Everyone)]
  /\ UNCHANGED <<day, jobVars, dataVars, snapshot, ask>>

CommitLock ==
  /\ up /\ locking # Nothing
  /\ snapshot' = [p \in locking.people |-> Row(p)]
  /\ locking' = Nothing
  /\ UNCHANGED <<day, jobVars, dataVars, ask>>

UnlockMonth ==
  /\ up /\ snapshot # Nothing /\ snapshot' = Nothing
  /\ UNCHANGED <<day, jobVars, dataVars, locking, ask>>

-----------------------------------------------------------------------------
(* A report: who is in scope, then the snapshot, then the live data if there  *)
(* is none.  personMonth builds a person the snapshot does not have.         *)

AskReport(of, kind) ==
  /\ up /\ day > 0 /\ ask = Nothing
  /\ of \subseteq Everyone /\ of # {} /\ kind = "person" => \E p \in of : of = {p}
  /\ ask' = [pc |-> "snapshot", kind |-> kind, locked |-> FALSE, rows |-> <<>>,
             people |-> IF kind = "person" THEN of ELSE InMonth(of)]
  /\ UNCHANGED <<day, jobVars, dataVars, locking, snapshot>>

ReadSnapshot ==
  /\ up /\ ask # Nothing /\ ask.pc = "snapshot"
  /\ LET held == IF snapshot = Nothing THEN {} ELSE ask.people \cap DOMAIN snapshot
         live == snapshot = Nothing \/ (ask.kind = "person" /\ held = {}) IN
       ask' = [ask EXCEPT !.pc = IF live THEN "live" ELSE "answer",
                          !.locked = snapshot # Nothing,
                          !.rows = [p \in held |-> snapshot[p]]]
  /\ UNCHANGED <<day, jobVars, dataVars, locking, snapshot>>

BuildLive ==
  /\ up /\ ask # Nothing /\ ask.pc = "live"
  /\ ask' = [ask EXCEPT !.pc = "answer", !.rows = [p \in ask.people |-> Row(p)]]
  /\ UNCHANGED <<day, jobVars, dataVars, locking, snapshot>>

Answer ==
  /\ ask # Nothing /\ ask.pc = "answer" /\ ask' = Nothing
  /\ UNCHANGED <<day, jobVars, dataVars, locking, snapshot>>

-----------------------------------------------------------------------------
(* The runs *)

ScopeOf(role) == IF role = "ADMIN" THEN "ALL" ELSE "TEAM"

Owners ==
  {<<ScopeOf(post[p].role), p>> :
     p \in {q \in Everyone : post[q].active /\ post[q].role \in {"MANAGER", "ADMIN"}}}

(* runKeys: scope and owner.                                                 *)
Have(k) == k \in runs

Begins(onlyMissing) ==
  IF job # Nothing THEN UNCHANGED job
  ELSE job' = [pc |-> IF onlyMissing THEN "worth" ELSE "people", onlyMissing |-> onlyMissing,
               all |-> {}, left |-> {}, at |-> Nothing]

(* At 00:30 on the 1st, and at 01:00 every day; a job that comes while        *)
(* another runs, or while the process is down, is not made up for.           *)
Cron(kind) ==
  /\ kind \in cronDue /\ (kind = "catchUp" => "monthly" \notin cronDue)
  /\ cronDue' = cronDue \ {kind}
  /\ IF up THEN Begins(kind = "catchUp") ELSE UNCHANGED job
  /\ UNCHANGED <<day, bootDue, up, firstBoot, runs, told, faults, accounted, monthVars>>

BootCatchUp ==
  /\ up /\ bootDue /\ day > 0 /\ bootDue' = FALSE
  /\ Begins(TRUE)
  /\ UNCHANGED <<day, cronDue, up, firstBoot, runs, told, faults, accounted, monthVars>>

(* catchUp: a month from before 3.1 ran, or one in which nobody worked, is    *)
(* not made up for.                                                          *)
WorthCatchUp ==
  /\ up /\ job # Nothing /\ job.pc = "worth"
  /\ job' = IF firstBoot = 0 /\ (\E p \in Persons : Worked(p))
            THEN [job EXCEPT !.pc = "people"] ELSE Nothing
  /\ UNCHANGED <<day, cronDue, bootDue, up, firstBoot, runs, told, faults, accounted, monthVars>>

(* The owners still without a run are read.                                  *)
ReadOwners ==
  /\ up /\ job # Nothing /\ job.pc = "people"
  /\ job' = [job EXCEPT !.pc = "next", !.all = Owners,
               !.left = {k \in Owners : ~(job.onlyMissing /\ Have(k))}]
  /\ UNCHANGED <<day, cronDue, bootDue, up, firstBoot, runs, told, faults, accounted, monthVars>>

\* mutant: the owner is told before the run is stored
Order_TellFirst == <<"tell", "store">>

(* generateFor: a run is stored, then its owner is told.                     *)
Order == <<"store", "tell">>

Does(what, k) ==
  IF what = "store" THEN runs' = runs \cup {k} /\ UNCHANGED told
  ELSE told' = [told EXCEPT ![k] = IF job.onlyMissing THEN @ + 1 ELSE @] /\ UNCHANGED runs

FirstHalf(k) ==
  /\ up /\ job # Nothing /\ job.pc = "next" /\ k \in job.left
  /\ Does(Order[1], k)
  /\ job' = [job EXCEPT !.pc = "half", !.at = k, !.left = @ \ {k}]
  /\ UNCHANGED <<day, cronDue, bootDue, up, firstBoot, faults, accounted, monthVars>>

SecondHalf ==
  /\ up /\ job # Nothing /\ job.pc = "half"
  /\ Does(Order[2], job.at)
  /\ job' = [job EXCEPT !.pc = "next", !.at = Nothing]
  /\ UNCHANGED <<day, cronDue, bootDue, up, firstBoot, faults, accounted, monthVars>>

Finish ==
  /\ up /\ job # Nothing /\ job.pc = "next" /\ job.left = {}
  /\ job' = Nothing /\ accounted' = accounted \cup job.all
  /\ UNCHANGED <<day, cronDue, bootDue, up, firstBoot, runs, told, faults, monthVars>>

Fault == faults < MaxFaults /\ faults' = faults + 1

(* A build or a write fails: logged, and the job is over.                    *)
JobFails ==
  /\ up /\ job # Nothing /\ Fault /\ job' = Nothing
  /\ UNCHANGED <<day, cronDue, bootDue, up, firstBoot, runs, told, accounted, monthVars>>

(* What the process was doing is gone; a lock being taken rolls back.        *)
Crash ==
  /\ up /\ Fault
  /\ up' = FALSE /\ job' = Nothing /\ bootDue' = FALSE /\ locking' = Nothing /\ ask' = Nothing
  /\ UNCHANGED <<day, cronDue, firstBoot, runs, told, accounted, dataVars, snapshot>>

Boot ==
  /\ ~up /\ up' = TRUE /\ bootDue' = TRUE
  /\ firstBoot' = IF firstBoot = Nothing THEN day ELSE firstBoot
  /\ UNCHANGED <<day, cronDue, job, runs, told, faults, accounted, monthVars>>

NextDay ==
  /\ day < LastDay /\ cronDue = {}
  /\ day' = day + 1
  /\ cronDue' = IF day = 0 THEN {"monthly", "catchUp"} ELSE {"catchUp"}
  /\ UNCHANGED <<bootDue, up, firstBoot, job, runs, told, faults, accounted, monthVars>>

Happens ==
  \/ \E p \in Persons, x \in Posts : Repost(p, x)
  \/ Crash \/ Boot \/ NextDay

MonthNext ==
  \/ \E p \in Persons, d \in Dates, f \in 0 .. Expected : Decide(p, d, f)
  \/ \E pct \in Pcts : ChangeSettings(pct)
  \/ BeginLock \/ CommitLock \/ UnlockMonth
  \/ \E of \in SUBSET Persons, kind \in {"person", "team"} : AskReport(of, kind)
  \/ ReadSnapshot \/ BuildLive \/ Answer

RunsNext ==
  \/ \E kind \in {"monthly", "catchUp"} : Cron(kind)
  \/ BootCatchUp \/ WorthCatchUp \/ ReadOwners \/ SecondHalf \/ Finish \/ JobFails
  \/ \E k \in {"TEAM", "ALL"} \X Persons : FirstHalf(k)

ReportsNext == Happens \/ MonthNext \/ RunsNext

ReportsSpec == ReportsInit /\ [][ReportsNext]_reportVars

-----------------------------------------------------------------------------
(* Properties *)

Answered == ask # Nothing /\ ask.pc = "answer"

ExtraFocus(row) == MapThenSumSet(LAMBDA x : x[2].focus, {y \in row.days : y[2].class = "EXTRA"})

(* Every working day of a person has one class, an extra day is one off with  *)
(* work, and nobody is absent before they joined, whether the days were built *)
(* now or at the lock (summarizeDay, monthTotals).                           *)
PersonAddsUp(row) ==
  LET t == row.totals
      off == {x \in row.days : ~x[2].workday} IN
    /\ t.full + t.half + t.absent = t.workdays
    /\ t.extra = Cardinality({x \in off : x[2].focus > 0})
    /\ t.expected = Expected * t.workdays

(* A team's figures are those of the people shown with it, and its average    *)
(* is that of a working day, whoever worked more of them (teamTotals).       *)
TeamAddsUp(rows) ==
  LET team == TeamTotals(rows)
      worked == team.focus - MapThenSumSet(LAMBDA p : ExtraFocus(rows[p]), DOMAIN rows)
      over == 2 * (team.average * team.workdays - worked) IN
    /\ team.full + team.half + team.absent = team.workdays
    /\ -team.workdays <= over /\ over <= team.workdays


(* Whoever was an owner when a job read them has a run of their scope once    *)
(* that job is done, whatever failed or crashed before (generateFor, catchUp: *)
(* "makes the runs still missing").                                          *)
CatchUpMakesUp == accounted \subseteq runs

(* The catch-up tells nobody twice, though a crash or a failure may come      *)
(* between a run and its notice (generateFor with onlyMissing).              *)
ToldOnce == \A k \in DOMAIN told : told[k] <= 1

(* "A month from before 3.1 ran is never announced" by the catch-up, also not *)
(* when 3.1 first boots between the month's end and the job (catchUp).       *)
NoOldMonth == firstBoot # 0 => \A k \in DOMAIN told : told[k] = 0

(* The month's run, interrupted anywhere, is made up for and made up for     *)
(* once, and only when 3.1 ran in that month (once, generateFor, catchUp).   *)
RunsCatchUp == CatchUpMakesUp /\ ToldOnce /\ NoOldMonth
=============================================================================
