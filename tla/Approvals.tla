----------------------------- MODULE Approvals -----------------------------
(***************************************************************************)
(* The approval items dated in one month of one organisation (break        *)
(* records, meetings, away events), the requests that create, decide and   *)
(* reopen them, and the payroll lock of that month.                        *)
(*                                                                         *)
(* A request checks what it may do on rows it has read, then runs one      *)
(* transaction: it takes the SHARED advisory lock of the month, reads      *)
(* month_locks and writes.  The transaction is two actions, Begin (the     *)
(* lock is granted) and the commit; locking the month takes the EXCLUSIVE  *)
(* lock and is four, for the snapshot is built on other connections.       *)
(*                                                                         *)
(* Every organisation and every month has a key of its own and they share  *)
(* nothing, so one of each is modelled.  The clocks of the 48-hour rule    *)
(* and the routing to departments are left out: Decides says whom an       *)
(* approver may decide.                                                    *)
(***************************************************************************)
CONSTANTS
  Items,           \* ids of rows (bounds how many exist at once)
  People,          \* the people items are about
  Members,         \* those who belong to the organisation from the start
  Approvers,       \* its managers and its Admin
  Admins,          \* the approvers with seesWholeOrg
  Decides,         \* whom BreakApprovalPolicy.canDecide lets an approver decide
  Kinds,           \* kinds of items that occur
  Slots,           \* requests in flight
  Deleted,         \* a row that was deleted: its id never comes again
  None             \* SQL null, and "no row"

AllKinds == {"BREAK", "SKIP", "MEETING", "AWAY"}

ASSUME PeopleAssumption ==
  /\ Members \subseteq People
  /\ Admins \subseteq Approvers
  /\ Decides \in [Approvers -> SUBSET People]
  /\ Kinds \subseteq AllKinds
VARIABLES
  joined,          \* the people whose companyId is this organisation
  items,           \* [Items -> row, Deleted or None]
  requests,        \* [Slots -> request in flight or None]
  locker,          \* the transaction of lockMonth, and the snapshot it built
  monthLock        \* the snapshot of the row of month_locks, or None

vars == <<joined, items, requests, locker, monthLock>>

Decided == {"APPROVED", "REJECTED"}
Statuses == Decided \cup {"NOT_REQUIRED", "PENDING"}
Snapshots == [Items -> Statuses \cup {None}]

(* home is away_events.company_id; running a row with no end yet; asked      *)
(* overrun_asked.                                                            *)
Item == [kind: AllKinds, owner: People, home: BOOLEAN, status: Statuses,
         by: Approvers \cup {None}, running: BOOLEAN, asked: BOOLEAN]

(* item is the row the request works on, row what it read of it or will      *)
(* create; locks is whether its transaction took the month lock.             *)
Request == [op: {"create", "decide", "reopen", "finish", "end", "heal"},
            pc: {"begin", "commit", "discard"}, item: Items, row: Item,
            verdict: Decided, me: Approvers \cup {None}, locks: BOOLEAN]

ASSUME NoneIsNoRow ==
  /\ None \notin Items \cup People \cup Approvers
  /\ Deleted \notin Items \cup People \cup Approvers \cup {None}
  /\ None \notin Item /\ Deleted \notin Item
  /\ None \notin Request
  /\ None \notin Snapshots
  /\ None \notin [status: Statuses, by: Approvers \cup {None}]

Exists(i) == items[i] \notin {None, Deleted}
Waits(i) == Exists(i) /\ items[i].status = "PENDING"
IsDecided(i) == Exists(i) /\ items[i].status \in Decided

-----------------------------------------------------------------------------
(* The advisory lock of the month *)

Shared == {r \in Slots : /\ requests[r] # None
                         /\ requests[r].pc = "commit" /\ requests[r].locks}
Exclusive == locker.pc # "idle"

Receive(r, op, i, row, verdict, me) ==
  /\ requests[r] = None
  /\ requests' = [requests EXCEPT ![r] =
       [op |-> op, pc |-> IF op = "heal" THEN "discard" ELSE "begin",
        item |-> i, row |-> row, verdict |-> verdict, me |-> me, locks |-> FALSE]]
Done(r) == requests' = [requests EXCEPT ![r] = None]

(* isMonthLocked: the organisation the person belongs to now; without one    *)
(* there is nothing to lock.  The end of a meeting that does not wait takes  *)
(* no lock.                                                                  *)
TakesLock(q) == /\ q.row.owner \in joined
                /\ q.op = "end" => q.row.status = "PENDING"
Begin(r) ==
  /\ requests[r] # None /\ requests[r].pc = "begin"
  /\ TakesLock(requests[r]) => ~Exclusive
  /\ requests' = [requests EXCEPT ![r] =
                    [@ EXCEPT !.pc = "commit", !.locks = TakesLock(requests[r])]]
  /\ UNCHANGED <<joined, items, locker, monthLock>>

Committing(r, op) == /\ requests[r] # None
                     /\ requests[r].op = op /\ requests[r].pc = "commit"
MonthIsLocked(r) == requests[r].locks /\ monthLock # None

(* 409: MONTH_LOCKED, or the row is no longer what it must be. *)
Refused(r) == Done(r) /\ UNCHANGED items
Write(i, row) == items' = [items EXCEPT ![i] = row]

-----------------------------------------------------------------------------
(* Items come *)

NewItem(k, p, status) ==
  [kind |-> k, owner |-> p, home |-> p \in joined, status |-> status,
   by |-> None, running |-> k \in {"BREAK", "MEETING"}, asked |-> FALSE]

(* The real break of a kind takes the place of its auto-skip while the       *)
(* window is open (isReplaceableAutoSkip), decided or not.                   *)
Skips(p) == {i \in Items : Exists(i) /\ items[i].kind = "SKIP" /\ items[i].owner = p}
GiveWay(row) == IF row.kind = "BREAK" THEN {{}} \cup {{i} : i \in Skips(row.owner)}
                                      ELSE {{}}
Insert(i, row, gone) ==
  items' = [j \in Items |-> IF j = i THEN row
                            ELSE IF j \in gone THEN Deleted ELSE items[j]]

(* A break in its window, or the item of an Admin, needs no approval and     *)
(* looks at no month lock.                                                   *)
Note(i, k, p) ==
  LET row == NewItem(k, p, "NOT_REQUIRED")
  IN  /\ items[i] = None
      /\ \E gone \in GiveWay(row) : Insert(i, row, gone)
      /\ UNCHANGED <<joined, requests, locker, monthLock>>

(* One that waits: startScheduled, createSkip, createAutoSkips, startLive,   *)
(* createPast, away.create.                                                  *)
Ask(r, i, k, p) ==
  /\ items[i] = None
  /\ Receive(r, "create", i, NewItem(k, p, "PENDING"), "APPROVED", None)
  /\ UNCHANGED <<joined, items, locker, monthLock>>
CommitCreate(r) ==
  LET q == requests[r]
  IN  /\ Committing(r, "create")
      /\ \/ Refused(r)                     \* MONTH_LOCKED, the unique key, a break running
         \/ /\ ~MonthIsLocked(r)
            /\ items[q.item] = None
            /\ \E gone \in GiveWay(q.row) : Insert(q.item, q.row, gone)
            /\ Done(r)
      /\ UNCHANGED <<joined, locker, monthLock>>

(* autoClose deletes the undecided auto-skips of a day that ended before     *)
(* they were owed; no month lock is looked at.                               *)
DropSkip(i) ==
  /\ Exists(i) /\ items[i].kind = "SKIP" /\ ~IsDecided(i)
  /\ Write(i, Deleted)
  /\ UNCHANGED <<joined, requests, locker, monthLock>>

-----------------------------------------------------------------------------
(* Items are decided *)

MayDecide(a, p) == p \in Decides[a] /\ p \in joined

(* decideRow: the checks are on the row as it was read. *)
Decide(r, a, i, verdict) ==
  /\ Waits(i)
  /\ items[i].owner # a /\ MayDecide(a, items[i].owner)
  /\ ~(items[i].kind = "MEETING" /\ items[i].running)
  /\ Receive(r, "decide", i, items[i], verdict, a)
  /\ UNCHANGED <<joined, items, locker, monthLock>>
(* The decision is a conditional update: only what waits is decided. *)
CommitDecide(r) ==
  LET q == requests[r]
  IN  /\ Committing(r, "decide")
      /\ \/ /\ ~MonthIsLocked(r) /\ Waits(q.item)
            /\ Write(q.item, [items[q.item] EXCEPT !.status = q.verdict, !.by = q.me])
            /\ Done(r)
         \/ MonthIsLocked(r) /\ Refused(r)
         \/ ~Waits(q.item) /\ Refused(r)       \* ALREADY_DECIDED
      /\ UNCHANGED <<joined, locker, monthLock>>

(* reopen: by an Admin, or by the one the row names as its decider. *)
Reopen(r, a, i) ==
  /\ IsDecided(i)
  /\ items[i].owner # a /\ MayDecide(a, items[i].owner)
  /\ a \in Admins \/ items[i].by = a
  /\ Receive(r, "reopen", i, items[i], "APPROVED", a)
  /\ UNCHANGED <<joined, items, locker, monthLock>>
CommitReopen_NoMonth(r) ==            \* mutant: a reopening looks at no month lock
  LET q == requests[r]
  IN  /\ Committing(r, "reopen")
      /\ IF IsDecided(q.item)
         THEN Write(q.item, [items[q.item] EXCEPT !.status = "PENDING", !.by = None])
         ELSE UNCHANGED items
      /\ Done(r)
      /\ UNCHANGED <<joined, locker, monthLock>>
CommitReopen(r) ==
  LET q == requests[r]
  IN  /\ Committing(r, "reopen")
      /\ \/ /\ ~MonthIsLocked(r) /\ IsDecided(q.item)
            /\ Write(q.item, [items[q.item] EXCEPT !.status = "PENDING", !.by = None])
            /\ Done(r)
         \/ MonthIsLocked(r) /\ Refused(r)
         \/ ~IsDecided(q.item) /\ Refused(r)   \* STALE
      /\ UNCHANGED <<joined, locker, monthLock>>

-----------------------------------------------------------------------------
(* Breaks and meetings end *)

(* The presence session of a break closes; back late, the person may ask for *)
(* the minutes to count.  Presence and record are two transactions.          *)
EndBreak(i) ==
  /\ Exists(i) /\ items[i].kind = "BREAK" /\ items[i].running
  /\ Write(i, [items[i] EXCEPT !.running = FALSE])
  /\ UNCHANGED <<joined, requests, locker, monthLock>>
EndBreakAsking(r, i) ==
  /\ Exists(i) /\ items[i].kind = "BREAK" /\ items[i].running
  /\ Write(i, [items[i] EXCEPT !.running = FALSE])
  /\ Receive(r, "finish", i, items[i], "APPROVED", None)
  /\ UNCHANGED <<joined, locker, monthLock>>
(* finishBreak: a decided record is put back to waiting with the overrun.    *)
CommitFinish(r) ==
  LET q == requests[r]
  IN  /\ Committing(r, "finish")
      /\ \/ /\ ~MonthIsLocked(r) /\ Exists(q.item)
            /\ Write(q.item, [items[q.item] EXCEPT
                 !.asked = TRUE, !.status = "PENDING",
                 !.by = IF Waits(q.item) THEN @ ELSE None])
            /\ Done(r)
         \/ MonthIsLocked(r) /\ Refused(r)
         \/ ~Exists(q.item) /\ Refused(r)
      /\ UNCHANGED <<joined, locker, monthLock>>

(* A live meeting under a minute is discarded. *)
Discard(row) == [row EXCEPT !.running = FALSE, !.status = "NOT_REQUIRED"]
Stopped(i, short) ==
  Write(i, IF short THEN Discard(items[i]) ELSE [items[i] EXCEPT !.running = FALSE])

EndMeeting(r, i) ==
  /\ Exists(i) /\ items[i].kind = "MEETING" /\ items[i].running
  /\ Receive(r, "end", i, items[i], "APPROVED", None)
  /\ UNCHANGED <<joined, items, locker, monthLock>>
CommitEnd(r) ==
  LET q == requests[r]
      live == Exists(q.item) /\ items[q.item].kind = "MEETING" /\ items[q.item].running
  IN  /\ Committing(r, "end")
      /\ \/ /\ live /\ ~(Waits(q.item) /\ MonthIsLocked(r))
            /\ \E short \in BOOLEAN : Stopped(q.item, short)
            /\ Done(r)
         \/ live /\ Waits(q.item) /\ MonthIsLocked(r) /\ Refused(r)
         \/ ~live /\ Refused(r)                \* DISCARDED, UNCHANGED
      /\ UNCHANGED <<joined, locker, monthLock>>

(* heal: a meeting whose presence session was closed another way takes that  *)
(* end; a short one is discarded by a later statement, whatever it has       *)
(* become.  No month lock is taken.                                          *)
Heal(i) ==
  /\ Exists(i) /\ items[i].kind = "MEETING" /\ items[i].running
  /\ Stopped(i, FALSE)
  /\ UNCHANGED <<joined, requests, locker, monthLock>>
HealShort(r, i) ==
  /\ Exists(i) /\ items[i].kind = "MEETING" /\ items[i].running
  /\ Stopped(i, FALSE)
  /\ Receive(r, "heal", i, items[i], "APPROVED", None)
  /\ UNCHANGED <<joined, locker, monthLock>>
HealDiscard(r) ==
  LET q == requests[r]
  IN  /\ requests[r] # None /\ q.op = "heal" /\ q.pc = "discard"
      /\ IF Exists(q.item) THEN Write(q.item, Discard(items[q.item])) ELSE UNCHANGED items
      /\ Done(r)
      /\ UNCHANGED <<joined, locker, monthLock>>

-----------------------------------------------------------------------------
(* The payroll lock, and who belongs to the organisation *)

(* A row counts by the organisation its person belongs to now, an away event *)
(* by the one it was recorded in.                                            *)
Counted(i) == Exists(i) /\ IF items[i].kind = "AWAY" THEN items[i].home
                                                     ELSE items[i].owner \in joined

(* The everyone report: the status of each item of the organisation's people. *)
Shot(i) == IF Exists(i) /\ items[i].owner \in joined THEN items[i].status ELSE None

LockBegin_NoWait ==                   \* mutant: the decisions in flight are not waited for
  /\ ~Exclusive
  /\ locker' = [locker EXCEPT !.pc = "count"]
  /\ UNCHANGED <<joined, items, requests, monthLock>>
LockBegin ==
  /\ ~Exclusive /\ Shared = {}
  /\ locker' = [locker EXCEPT !.pc = "count"]
  /\ UNCHANGED <<joined, items, requests, monthLock>>
LockCount ==
  /\ locker.pc = "count"
  /\ monthLock = None
  /\ \A i \in Items : Counted(i) => ~Waits(i)
  /\ locker' = [locker EXCEPT !.pc = "build"]
  /\ UNCHANGED <<joined, items, requests, monthLock>>
LockBuild ==
  /\ locker.pc = "build"
  /\ locker' = [pc |-> "commit", shot |-> [i \in Items |-> Shot(i)]]
  /\ UNCHANGED <<joined, items, requests, monthLock>>
LockCommit ==
  /\ locker.pc = "commit"
  /\ monthLock' = locker.shot
  /\ locker' = [pc |-> "idle", shot |-> None]
  /\ UNCHANGED <<joined, items, requests>>
(* The month is locked already, something waits, a session is open, or the   *)
(* transaction failed or ran out of its 180 seconds.                         *)
LockGivesUp ==
  /\ Exclusive
  /\ locker' = [pc |-> "idle", shot |-> None]
  /\ UNCHANGED <<joined, items, requests, monthLock>>

Unlock ==
  /\ ~Exclusive /\ Shared = {}
  /\ monthLock # None
  /\ monthLock' = None
  /\ UNCHANGED <<joined, items, requests, locker>>

(* assignPerson: only someone who belongs to no organisation. *)
Join(p) ==
  /\ p \notin joined
  /\ joined' = joined \cup {p}
  /\ UNCHANGED <<items, requests, locker, monthLock>>

(* A transaction that fails or times out leaves nothing behind. *)
Fail(r) ==
  /\ requests[r] # None
  /\ Done(r)
  /\ UNCHANGED <<joined, items, locker, monthLock>>

-----------------------------------------------------------------------------
Init ==
  /\ joined = Members
  /\ items = [i \in Items |-> None]
  /\ requests = [r \in Slots |-> None]
  /\ locker = [pc |-> "idle", shot |-> None]
  /\ monthLock = None

Arrive(r, i) ==
  \/ \E k \in Kinds, p \in People : Ask(r, i, k, p)
  \/ \E a \in Approvers :
       Reopen(r, a, i) \/ \E verdict \in Decided : Decide(r, a, i, verdict)
  \/ EndBreakAsking(r, i) \/ EndMeeting(r, i) \/ HealShort(r, i)

Commit(r) ==
  \/ CommitCreate(r) \/ CommitDecide(r) \/ CommitReopen(r)
  \/ CommitFinish(r) \/ CommitEnd(r) \/ HealDiscard(r)

Next ==
  \/ \E i \in Items :
       \/ \E k \in Kinds, p \in People : Note(i, k, p)
       \/ DropSkip(i) \/ EndBreak(i) \/ Heal(i)
       \/ \E r \in Slots : Arrive(r, i)
  \/ \E r \in Slots : Begin(r) \/ Commit(r) \/ Fail(r)
  \/ LockBegin \/ LockCount \/ LockBuild \/ LockCommit \/ LockGivesUp \/ Unlock
  \/ \E p \in People : Join(p)

Spec == Init /\ [][Next]_vars

-----------------------------------------------------------------------------
(* Properties *)

(* Type correctness of the rows, the requests in flight and the lock.        *)
TypeOK ==
  /\ joined \subseteq People
  /\ items \in [Items -> Item \cup {None, Deleted}]
  /\ requests \in [Slots -> Request \cup {None}]
  /\ locker \in [pc: {"idle", "count", "build", "commit"}, shot: Snapshots \cup {None}]
  /\ monthLock \in Snapshots \cup {None}

(* The register this implements: the items of the people who belong to the   *)
(* organisation from the start.                                              *)
Decisions == [i \in Items |->
  IF Exists(i) /\ items[i].owner \in Members
  THEN [status |-> items[i].status, by |-> items[i].by] ELSE None]
Register == INSTANCE MonthRegister WITH decisions <- Decisions, locked <- monthLock

RegisterSpec == Register!RegisterSpec
LockedIsDecided == Register!LockedIsDecided
SnapshotStands == Register!SnapshotStands
DecidedOnce == Register!DecidedOnce

(* A transaction that holds the shared lock and a lockMonth never overlap:   *)
(* from the count on, nothing of the members waits or is decided anew, so    *)
(* the snapshot built outside the transaction is the month it commits.       *)
LockerIsAlone ==
  Exclusive =>
    /\ Shared = {}
    /\ locker.pc \in {"build", "commit"} => \A i \in Items : ~Register!Waits(i)
    /\ locker.pc = "commit" => Register!Tells(locker.shot)

(* What a payroll lock promises of the members: nothing waits in the locked  *)
(* month, the snapshot agrees with every decision, and from the count to the *)
(* commit nothing was decided beside it (lockMonth, assertMonthOpen).        *)
LockedMonthHolds == LockedIsDecided /\ SnapshotStands /\ LockerIsAlone

(* prisma-break-record.repository, finishBreak: "a record can never end      *)
(* APPROVED with an overrun nobody reviewed": the approver who decides one   *)
(* with an overrun had read it with its overrun.                             *)
OverrunIsReviewed ==
  [][\A i \in Items :
       (Waits(i) /\ items[i].asked /\ items'[i] # Deleted /\ items'[i].status = "APPROVED")
         => \E r \in Slots : /\ requests[r] # None /\ requests'[r] = None
                             /\ requests[r].op = "decide" /\ requests[r].item = i
                             /\ requests[r].row.asked]_vars
=============================================================================
