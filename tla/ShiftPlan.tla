----------------------------- MODULE ShiftPlan -----------------------------
(***************************************************************************)
(* An organisation's shifts and who works which, from which day            *)
(* (src/src/modules/shifts): defining shifts, the default one, assigning   *)
(* shifts to a department or to people for a span of days, and the cached  *)
(* context everybody's shift is resolved from.                             *)
(*                                                                         *)
(* A request reads, then writes in a transaction of its own, then forgets  *)
(* the cached context; each of these is a step.  Assigning locks nothing:  *)
(* its transaction reads the rows that start inside the new span and then  *)
(* removes or trims them.  Naming a shift locks the names of its scope.    *)
(***************************************************************************)
EXTENDS Integers, FiniteSets

CONSTANTS ShiftIds, Names,
          People, Newcomers,  \* everybody; those not yet there at the start
          Dept,               \* the department they all are in
          Assignable,         \* bound: shifts that are assigned
          MaxDay,             \* bound: days
          ShiftRequests,      \* requests handled at a time
          MaxShiftRequests,   \* bound: requests that are started
          InitialShifts,      \* the tables of shifts to start from
          None

ASSUME DayAssumption == MaxDay \in Nat

Scopes == {"org", "shared"}

ShiftRow == [scope : Scopes, name : Names, default : BOOLEAN, live : BOOLEAN]

ASSUME PeopleAssumption == Dept \notin People
ASSUME NoneAssumption ==
    /\ None \notin ShiftIds /\ None \notin ShiftRequests /\ None \notin ShiftRow
    /\ "answered" \notin ShiftRequests

\* The tables to start from are such as the requests leave behind: names tell the
\* shifts of a scope apart, and an organisation with a shift has one default.
ASSUME TablesAssumption ==
    \A table \in InitialShifts :
        LET live == {s \in ShiftIds : table[s] # None /\ table[s].live}
        IN /\ table \in [ShiftIds -> ShiftRow \cup {None}]
           /\ \A s, t \in live : s # t /\ table[s].scope = table[t].scope
                                  => table[s].name # table[t].name
           /\ (\E s \in live : table[s].scope = "org") =>
                \E s \in live : {t \in live : table[t].scope = "org" /\ table[t].default} = {s}

VARIABLES shift,     \* per id: the shift's row, or None
          rows,      \* assignment rows by the order they were created in
          hired,     \* the people there are
          today,
          nameLock,  \* per scope: the request that holds the lock of its names
          context,   \* what is cached of shifts and assignments, or None
          task,      \* per slot: the request being handled, or None
          asked,     \* how many requests were started
          written,   \* how many assignments were written
          plan,      \* history: per target and day, what was last assigned for it
          raced,     \* history: targets two assignments were written to at a time
          crossed    \* history: whether a change of default met another one or a removal

shiftVars == <<shift, rows, hired, today, nameLock, context, task, asked, written,
               plan, raced, crossed>>

Days == 1..MaxDay

\* A span without a last day.
Open == MaxDay + 1

Targets == People \cup {Dept}

Live(s) == shift[s] # None /\ shift[s].live

LiveShifts == {s \in ShiftIds : Live(s)}

\* The defaults of a scope.
Defaults(scope) == {s \in LiveShifts : shift[s].scope = scope /\ shift[s].default}

-----------------------------------------------------------------------------
(* Which shift applies. *)

Ids == DOMAIN rows

InForce(row, day) == row.from <= day /\ day <= row.to

\* The rows of a target in force on a day.
RowsOn(target, day) == {i \in Ids : rows[i].target = target /\ InForce(rows[i], day)}

\* Later first day first, then the most recently created.
Newest(ids) ==
    CHOOSE i \in ids :
        \A j \in ids : rows[j].from < rows[i].from \/ (rows[j].from = rows[i].from /\ j <= i)

\* What the rows say of a target on a day: a shift, None ("back to the next
\* level"), or nothing.
Assigned(target, day) ==
    IF RowsOn(target, day) = {} THEN "nothing" ELSE rows[Newest(RowsOn(target, day))].shift

\* The person's own row, else the department's, else the default of the
\* organisation, else the shared one; a row of a deleted shift decides nothing.
ResolveShift(p, day) ==
    LET own == Assigned(p, day)
        dept == Assigned(Dept, day)
    IN IF own \in LiveShifts THEN own
       ELSE IF dept \in LiveShifts THEN dept
       ELSE IF Defaults("org") # {} THEN CHOOSE s \in Defaults("org") : TRUE
       ELSE IF Defaults("shared") # {} THEN CHOOSE s \in Defaults("shared") : TRUE
       ELSE None

-----------------------------------------------------------------------------
(* Requests and the cached context. *)

TaskAt(r, kind, stage) == task[r] # None /\ task[r].kind = kind /\ task[r].stage = stage

MayAsk(r) == task[r] = None /\ asked < MaxShiftRequests

Ask(r, q) == task' = [task EXCEPT ![r] = q] /\ asked' = asked + 1

Go(r, q) == task' = [task EXCEPT ![r] = q] /\ UNCHANGED asked

\* A write: what was read of the tables before does not show it.  The request goes
\* on to forget the context.
Wrote(r) ==
    /\ context' = IF context = None THEN None
                  ELSE [table \in DOMAIN context |->
                          IF context[table] = None THEN None ELSE context[table] \cup {r}]
    /\ Go(r, [kind |-> "forget", stage |-> "forget"])

\* mutant: an entry that is still being read is kept
Forgotten_Reading ==
    IF context # None /\ context.rows = None THEN context ELSE None

Forgotten == None

\* A context that stays although the write of r it does not show is answered.
Answered(c, r) ==
    IF c = None THEN None
    ELSE [table \in DOMAIN c |->
            IF c[table] # None /\ r \in c[table] THEN (c[table] \ {r}) \cup {"answered"}
            ELSE c[table]]

\* BreakDayService.invalidate, after the write.
Invalidate(r) ==
    /\ TaskAt(r, "forget", "forget")
    /\ context' = Answered(Forgotten, r)
    /\ Go(r, None)
    /\ UNCHANGED <<shift, rows, hired, today, nameLock, written, plan, raced, crossed>>

\* Somebody's shift is wanted and nothing is cached: the entry is cached as the
\* two reads that fill it start.
OpenContext ==
    /\ context = None
    /\ context' = [shifts |-> {}, rows |-> None]
    /\ UNCHANGED <<shift, rows, hired, today, nameLock, task, asked, written, plan, raced, crossed>>

\* The second of them arrives.
ReadContext ==
    /\ context # None /\ context.rows = None
    /\ context' = [context EXCEPT !.rows = {}]
    /\ UNCHANGED <<shift, rows, hired, today, nameLock, task, asked, written, plan, raced, crossed>>

\* A minute later, or a read that failed.
DropContext ==
    /\ context # None
    /\ context' = None
    /\ UNCHANGED <<shift, rows, hired, today, nameLock, task, asked, written, plan, raced, crossed>>

Midnight ==
    /\ today < MaxDay
    /\ today' = today + 1
    /\ UNCHANGED <<shift, rows, hired, nameLock, context, task, asked, written, plan, raced, crossed>>

-----------------------------------------------------------------------------
(* Assigning (shift-assignments.use-case.ts, prisma-shift.repository.ts). *)

\* Spans the API takes: a department's has no last day.
Spans(target) ==
    {span \in [from : Days, to : Days \cup {Open}] :
        span.from <= span.to /\ (target = Dept => span.to = Open)}

\* From today on, a shift the organisation sees or none, and people who are there.
AskAssign(r) ==
    /\ MayAsk(r)
    /\ \E target \in {Dept} \cup hired, s \in (LiveShifts \cap Assignable) \cup {None} :
       \E span \in Spans(target) :
          /\ span.from >= today
          /\ Ask(r, [kind |-> "assign", stage |-> "read", target |-> target,
                     from |-> span.from, to |-> span.to, shift |-> s])
    /\ UNCHANGED <<shift, rows, hired, today, nameLock, context, written, plan, raced, crossed>>

RowsOf(target) == {i \in Ids : rows[i].target = target}

\* The rows of the target that start inside the new span, as the transaction reads them.
ReadOverlapping(r) ==
    /\ TaskAt(r, "assign", "read")
    /\ LET q == task[r]
       IN Go(r, [kind |-> "assign", stage |-> "write", target |-> q.target, from |-> q.from,
                 to |-> q.to, shift |-> q.shift,
                 seen |-> [i \in RowsOf(q.target) |-> rows[i]]])
    /\ UNCHANGED <<shift, rows, hired, today, nameLock, context, written, plan, raced, crossed>>

Overlapping(q) ==
    {i \in DOMAIN q.seen : q.from <= q.seen[i].from /\ q.seen[i].from <= q.to}

\* mutant: every row that starts inside the new span is removed
Superseded_All(q) == Overlapping(q)

\* Rows that end inside the new span go.
Superseded(q) == {i \in Overlapping(q) : q.to = Open \/ q.seen[i].to <= q.to}

\* Rows that run past it start the day after it.
Trimmed(q) == Overlapping(q) \ Superseded(q)

\* The rows once an assignment is written (createdAt: the order of the writes).
Assign(q, id) ==
    [i \in (Ids \ Superseded(q)) \cup {id} |->
        IF i = id
        THEN [target |-> q.target, from |-> q.from, to |-> q.to, shift |-> q.shift]
        ELSE IF i \in Trimmed(q) THEN [rows[i] EXCEPT !.from = q.to + 1]
        ELSE rows[i]]

Plan(target, from, to, s) ==
    plan' = [plan EXCEPT ![target] =
                [d \in Days |-> IF from <= d /\ d <= to THEN s ELSE @[d]]]

\* A row to be trimmed that is gone by now fails the transaction (404).
WriteAssignment(r) ==
    /\ TaskAt(r, "assign", "write")
    /\ LET q == task[r]
       IN IF Trimmed(q) \subseteq Ids
          THEN /\ rows' = Assign(q, written + 1)
               /\ written' = written + 1
               /\ Plan(q.target, q.from, q.to, q.shift)
               /\ raced' = IF [i \in RowsOf(q.target) |-> rows[i]] = q.seen
                           THEN raced ELSE raced \cup {q.target}
               /\ Wrote(r)
          ELSE Go(r, None) /\ UNCHANGED <<rows, written, context, plan, raced>>
    /\ UNCHANGED <<shift, hired, today, nameLock, crossed>>

\* Somebody is added with a shift of their own from today on (users/): one
\* transaction, and the context is left as it is.
Hire(r) ==
    /\ MayAsk(r)
    /\ asked' = asked + 1
    /\ \E p \in People \ hired, s \in LiveShifts \cap Assignable :
          /\ hired' = hired \cup {p}
          /\ rows' = [i \in Ids \cup {written + 1} |->
                        IF i \in Ids THEN rows[i]
                        ELSE [target |-> p, from |-> today, to |-> Open, shift |-> s]]
          /\ Plan(p, today, Open, s)
    /\ written' = written + 1
    /\ UNCHANGED <<shift, today, nameLock, context, task, raced, crossed>>

-----------------------------------------------------------------------------
(* Defining shifts (manage-shifts.use-case.ts, prisma-shift.repository.ts). *)

NameClash(scope, name, except) ==
    \E s \in LiveShifts \ {except} : shift[s].scope = scope /\ shift[s].name = name

LockNames(r, scope) == nameLock[scope] = None /\ nameLock' = [nameLock EXCEPT ![scope] = r]

Release(scope) == nameLock' = [nameLock EXCEPT ![scope] = None]

\* The name is checked under the lock of the organisation's names.
AskCreate(r) ==
    /\ MayAsk(r)
    /\ LockNames(r, "org")
    /\ \E name \in Names :
          /\ ~NameClash("org", name, None)
          /\ Ask(r, [kind |-> "create", stage |-> "write", name |-> name])
    /\ UNCHANGED <<shift, rows, hired, today, context, written, plan, raced, crossed>>

\* mutant: the default is for somebody to pick
FirstIsDefault_Never == FALSE

\* An organisation's first shift becomes its default.
FirstIsDefault == Defaults("org") = {}

WriteShift(r) ==
    /\ TaskAt(r, "create", "write")
    /\ \E s \in ShiftIds :
          /\ shift[s] = None
          /\ shift' = [shift EXCEPT ![s] = [scope |-> "org", name |-> task[r].name,
                                            default |-> FirstIsDefault, live |-> TRUE]]
    /\ Release("org")
    /\ Wrote(r)
    /\ UNCHANGED <<rows, hired, today, written, plan, raced, crossed>>

\* A shift that is edited, removed or made the default is read first.
ReadShift(r) ==
    /\ MayAsk(r)
    /\ \E s \in LiveShifts :
          \/ \E name \in Names :
                Ask(r, [kind |-> "update", stage |-> "lock", id |-> s, name |-> name])
          \/ ~shift[s].default /\ Ask(r, [kind |-> "remove", stage |-> "usage", id |-> s])
          \/ Ask(r, [kind |-> "default", stage |-> "read", id |-> s])
    /\ crossed' = (crossed \/ (task'[r].kind \in {"default", "remove"} /\
                    \E o \in ShiftRequests \ {r} :
                       task[o] # None /\ task[o].kind \in {"default", "remove"}))
    /\ UNCHANGED <<shift, rows, hired, today, nameLock, context, written, plan, raced>>

LockForUpdate(r) ==
    /\ TaskAt(r, "update", "lock")
    /\ LET q == task[r]
           scope == shift[q.id].scope
       IN IF NameClash(scope, q.name, q.id)
          THEN Go(r, None) /\ UNCHANGED nameLock
          ELSE LockNames(r, scope) /\ Go(r, [q EXCEPT !.stage = "write"])
    /\ UNCHANGED <<shift, rows, hired, today, context, written, plan, raced, crossed>>

\* Written by id, whether the shift is still there or not.
UpdateShift(r) ==
    /\ TaskAt(r, "update", "write")
    /\ shift' = [shift EXCEPT ![task[r].id].name = task[r].name]
    /\ Release(shift[task[r].id].scope)
    /\ Wrote(r)
    /\ UNCHANGED <<rows, hired, today, written, plan, raced, crossed>>

\* Refused while an assignment that is not over points at it.
CheckUsage(r) ==
    /\ TaskAt(r, "remove", "usage")
    /\ IF \E i \in Ids : rows[i].shift = task[r].id /\ rows[i].to >= today
       THEN Go(r, None)
       ELSE Go(r, [task[r] EXCEPT !.stage = "write"])
    /\ UNCHANGED <<shift, rows, hired, today, nameLock, context, written, plan, raced, crossed>>

SoftDelete(r) ==
    /\ TaskAt(r, "remove", "write")
    /\ shift' = [shift EXCEPT ![task[r].id].live = FALSE, ![task[r].id].default = FALSE]
    /\ Wrote(r)
    /\ UNCHANGED <<rows, hired, today, nameLock, written, plan, raced, crossed>>

\* The transaction reads the other defaults of the scope, deleted shifts included ...
ReadDefaults(r) ==
    /\ TaskAt(r, "default", "read")
    /\ LET id == task[r].id
       IN Go(r, [kind |-> "default", stage |-> "write", id |-> id,
                 others |-> {s \in ShiftIds \ {id} : shift[s] # None /\ shift[s].default
                                                      /\ shift[s].scope = shift[id].scope}])
    /\ UNCHANGED <<shift, rows, hired, today, nameLock, context, written, plan, raced, crossed>>

\* ... and clears them, and sets its own.
SetDefault(r) ==
    /\ TaskAt(r, "default", "write")
    /\ shift' = [s \in ShiftIds |->
                   IF s = task[r].id THEN [shift[s] EXCEPT !.default = TRUE]
                   ELSE IF s \in task[r].others THEN [shift[s] EXCEPT !.default = FALSE]
                   ELSE shift[s]]
    /\ Wrote(r)
    /\ UNCHANGED <<rows, hired, today, nameLock, written, plan, raced, crossed>>

-----------------------------------------------------------------------------
ShiftInit ==
    /\ shift \in InitialShifts
    /\ rows = [i \in {} |-> None]
    /\ hired = People \ Newcomers
    /\ today = 1
    /\ nameLock = [scope \in Scopes |-> None]
    /\ context = None
    /\ task = [r \in ShiftRequests |-> None]
    /\ asked = 0
    /\ written = 0
    /\ plan = [t \in Targets |-> [d \in Days |-> "nothing"]]
    /\ raced = {}
    /\ crossed = FALSE

ShiftStep(r) ==
    \/ AskAssign(r) \/ ReadOverlapping(r) \/ WriteAssignment(r) \/ Hire(r)
    \/ AskCreate(r) \/ WriteShift(r) \/ ReadShift(r) \/ LockForUpdate(r) \/ UpdateShift(r)
    \/ CheckUsage(r) \/ SoftDelete(r) \/ ReadDefaults(r) \/ SetDefault(r) \/ Invalidate(r)

ShiftNext == (\E r \in ShiftRequests : ShiftStep(r)) \/ OpenContext \/ ReadContext
               \/ DropContext \/ Midnight

ShiftSpec == ShiftInit /\ [][ShiftNext]_shiftVars

-----------------------------------------------------------------------------
\* What an assignment promises: from its first to its last day it decides, and
\* every other day keeps what it had.  applyAssignments gets there by removing and
\* trimming rows and by "newest wins"; it holds of every target whose assignments
\* were written one after the other.
PlanIsKept ==
    \A target \in Targets \ raced, d \in Days : Assigned(target, d) = plan[target][d]

\* No two shifts of an organisation, or of the shared scope, have one name:
\* createUnique and updateUnique check it under a lock.
NamesAreUnique ==
    \A s, t \in LiveShifts : s # t /\ shift[s].scope = shift[t].scope
                               => shift[s].name # shift[t].name

\* "So nobody is left with none": as long as an organisation has a shift of its own
\* it has one default, and everybody resolves to a shift on every day, unless a
\* change of default met another one or a removal.
NobodyIsLeftWithNone ==
    ~crossed /\ (\E s \in LiveShifts : shift[s].scope = "org") =>
        /\ Cardinality(Defaults("org")) = 1
        /\ \A p \in People, d \in Days : ResolveShift(p, d) \in LiveShifts

\* The table of shifts stays one people can be given a shift from: names tell
\* shifts apart, and nobody is left with none (createUnique, setDefault).
ShiftsStand == NamesAreUnique /\ NobodyIsLeftWithNone

\* A context read from shows every change made through the shift and assignment
\* requests that was answered (BreakDayService: "clear it at once").
ContextIsFresh ==
    context # None =>
        \A table \in {"shifts", "rows"} : context[table] # None => "answered" \notin context[table]
=============================================================================
