--------------------------- MODULE MonthRegister ---------------------------
(***************************************************************************)
(* What approvals and the payroll lock promise of one organisation-month,  *)
(* whoever decides and whoever locks: an item waits, is decided once, may  *)
(* be put back to waiting; a month locks only when nothing in it waits,    *)
(* with a snapshot of its decisions, and until it is unlocked nothing in   *)
(* it begins to wait or is decided (month-lock.ts, month-lock.service.ts). *)
(*                                                                         *)
(* Approvals implements it with transactions and advisory locks.           *)
(***************************************************************************)
CONSTANTS
  Items,           \* ids of break records, meetings and away events of the month
  Approvers,       \* the people who may decide
  None             \* SQL null, and "no row"

Decided == {"APPROVED", "REJECTED"}
Statuses == Decided \cup {"NOT_REQUIRED", "PENDING"}
Decision == [status: Statuses, by: Approvers \cup {None}]

VARIABLES
  decisions,       \* [Items -> decision or None]
  locked           \* the snapshot of month_locks, or None

registerVars == <<decisions, locked>>

Waits(i) == decisions[i] # None /\ decisions[i].status = "PENDING"
IsDecided(i) == decisions[i] # None /\ decisions[i].status \in Decided

(* A snapshot tells every decision of the month. *)
Tells(s) == /\ s \in [Items -> Statuses \cup {None}]
            /\ \A i \in Items : IsDecided(i) => s[i] = decisions[i].status

-----------------------------------------------------------------------------
Set(i, status, by) ==
  /\ decisions' = [decisions EXCEPT ![i] = [status |-> status, by |-> by]]
  /\ UNCHANGED locked
(* A break that comes removes the auto-skips it takes the place of.          *)
Replacing(i, status, gone) ==
  /\ i \notin gone
  /\ decisions' = [j \in Items |-> IF j = i THEN [status |-> status, by |-> None]
                                 ELSE IF j \in gone THEN None ELSE decisions[j]]
  /\ UNCHANGED locked

(* An item that needs no approval may come at any time; one that does, a new *)
(* ask on one that did not, and a reopening only while the month is open.    *)
Noted(i, gone) == decisions[i] = None /\ Replacing(i, "NOT_REQUIRED", gone)
Asked(i, gone) == locked = None /\ ~Waits(i) /\ Replacing(i, "PENDING", gone)
DecidedBy(i, a, verdict) == locked = None /\ Waits(i) /\ Set(i, verdict, a)
(* A live meeting under a minute is discarded; a skip that was never owed goes. *)
Discarded(i) == decisions[i] # None /\ Set(i, "NOT_REQUIRED", decisions[i].by)
Gone(i) == decisions' = [decisions EXCEPT ![i] = None] /\ UNCHANGED locked

Locked(s) ==
  /\ locked = None
  /\ \A i \in Items : ~Waits(i)
  /\ Tells(s)
  /\ locked' = s
  /\ UNCHANGED decisions
Unlocked == locked' = None /\ UNCHANGED decisions

RegisterInit == decisions = [i \in Items |-> None] /\ locked = None

RegisterNext ==
  \/ \E i \in Items :
       \/ \E gone \in SUBSET Items : Noted(i, gone) \/ Asked(i, gone)
       \/ Discarded(i) \/ Gone(i)
       \/ \E a \in Approvers, verdict \in Decided : DecidedBy(i, a, verdict)
  \/ \E s \in [Items -> Statuses \cup {None}] : Locked(s)
  \/ Unlocked

RegisterSpec == RegisterInit /\ [][RegisterNext]_registerVars

-----------------------------------------------------------------------------
(* Properties *)

(* A locked month has nothing left to decide ("never locked while one waits"). *)
LockedIsDecided == locked # None => \A i \in Items : ~Waits(i)

(* The payroll snapshot agrees with every decision as long as the month is   *)
(* locked.                                                                   *)
SnapshotStands == locked # None => Tells(locked)

(* A decision is taken once: it keeps its verdict and its decider until the  *)
(* item is put back to waiting, discarded or removed ("two approvers acting  *)
(* at once cannot both win").                                                *)
DecidedOnce ==
  [][\A i \in Items : IsDecided(i) =>
       \/ decisions'[i] = decisions[i]
       \/ decisions'[i] = None
       \/ decisions'[i].status \in {"PENDING", "NOT_REQUIRED"}]_registerVars
=============================================================================
