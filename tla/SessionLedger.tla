--------------------------- MODULE SessionLedger ---------------------------
(***************************************************************************)
(* What the table work_sessions promises of one person, whoever writes it: *)
(* the contract of WorkSessionRepository (work-session.repository.ts) and  *)
(* of the automatic close (auto-close.ts).  A session opens only when none *)
(* is open; it ends by End Day or, within its limits, automatically; an    *)
(* automatic end may move later or be taken back by a replayed action; an  *)
(* End Day is for good.                                                    *)
(*                                                                         *)
(* WorkDay extends this module with the requests and transactions that     *)
(* write the table, and implements LedgerSpec.                             *)
(***************************************************************************)
EXTENDS Naturals

CONSTANTS
  SessionIds,      \* ids of work_sessions rows (bounds how many are created)
  Days,            \* day keys
  MaxTime,         \* bound of the clock
  ShiftEnd,        \* end of the shift of a working day, or None for a day off
  CloseAfter,      \* settings.autoCloseAfterShiftEndMin
  NoShiftLength,   \* NO_SHIFT_SESSION_MS
  None             \* SQL null, and "no row"

Times == 0 .. MaxTime

Sources == {"AGENT", "LEGACY", "REPLAY"}

(* endReason is null until the first close; a reopened session keeps it.     *)
Session == [date: Days, start: Times, end: Times \cup {None},
            reason: {"OPEN", "USER", "AUTO_CLOSED"},
            source: Sources]

ASSUME CloseAssumption ==
  /\ MaxTime \in Nat
  /\ ShiftEnd \in [Days -> Nat \cup {None}]
  /\ CloseAfter \in Nat
  /\ NoShiftLength \in Nat
ASSUME NoneAssumption ==
  /\ None \notin Nat
  /\ None \notin SessionIds
  /\ None \notin Days
  /\ None \notin Session

VARIABLE
  sessions         \* [SessionIds -> row or None]

Rows == {i \in SessionIds : sessions[i] # None}
OpenIds == {i \in Rows : sessions[i].end = None}
ClosedIds == Rows \ OpenIds

AtLeast(t, low) == IF t < low THEN low ELSE t

(* latestEndOf: the end of the shift plus the grace, a fixed length without  *)
(* a shift, and never sooner than the grace after the start.                 *)
LatestEnd(s) ==
  AtLeast(IF ShiftEnd[s.date] = None THEN s.start + NoShiftLength
                                     ELSE ShiftEnd[s.date] + CloseAfter,
          s.start + CloseAfter)

-----------------------------------------------------------------------------
(* The abstract specification *)

NewSession(date, t, source) ==
  [date |-> date, start |-> t, end |-> None, reason |-> "OPEN", source |-> source]

Opened(i) ==
  /\ OpenIds = {} /\ i \notin Rows
  /\ \E date \in Days, t \in Times, source \in Sources :
       sessions' = [sessions EXCEPT ![i] = NewSession(date, t, source)]

Ended(i, t) ==
  /\ i \in OpenIds /\ sessions[i].start <= t
  /\ sessions' = [sessions EXCEPT ![i] = [@ EXCEPT !.end = t, !.reason = "USER"]]

AutoClosed(i, t) ==
  /\ i \in OpenIds /\ sessions[i].start <= t /\ t <= LatestEnd(sessions[i])
  /\ sessions' = [sessions EXCEPT ![i] = [@ EXCEPT !.end = t, !.reason = "AUTO_CLOSED"]]

Extended(i, t) ==
  /\ i \in ClosedIds /\ sessions[i].reason = "AUTO_CLOSED"
  /\ sessions[i].end < t /\ t <= LatestEnd(sessions[i])
  /\ sessions' = [sessions EXCEPT ![i] = [@ EXCEPT !.end = t, !.source = "REPLAY"]]

Reopened(i) ==
  /\ OpenIds = {} /\ i \in Rows /\ sessions[i].reason = "AUTO_CLOSED"
  /\ sessions' = [sessions EXCEPT ![i] = [@ EXCEPT !.end = None, !.source = "REPLAY"]]

LedgerInit == sessions = [i \in SessionIds |-> None]

LedgerNext ==
  \E i \in SessionIds :
    \/ Opened(i)
    \/ \E t \in Times : Ended(i, t) \/ AutoClosed(i, t) \/ Extended(i, t)
    \/ Reopened(i)

LedgerSpec == LedgerInit /\ [][LedgerNext]_sessions

-----------------------------------------------------------------------------
(* Properties *)

LedgerTypeOK == sessions \in [SessionIds -> Session \cup {None}]

(* A person never has two open work sessions.                                *)
OneOpen == \A i, j \in OpenIds : i = j

(* An automatic close, and every move of it by a late sample, stays between  *)
(* the session's start and its latest end (latestEndOfSession: "no automatic *)
(* close, nor a move of one, nor a replayed reopen, ever goes past it"), and *)
(* no session ends before it starts.                                         *)
ClosesWithinLimits ==
  \A i \in ClosedIds :
    /\ sessions[i].start <= sessions[i].end
    /\ sessions[i].reason = "AUTO_CLOSED" => sessions[i].end <= LatestEnd(sessions[i])

(* What the person ended stays ended at that instant; an automatic close     *)
(* only moves later, or is taken back whole by a replayed action.            *)
ClosedMovesOnlyForward ==
  [][\A i \in ClosedIds :
       \/ sessions'[i] = sessions[i]
       \/ /\ sessions[i].reason = "AUTO_CLOSED"
          /\ sessions'[i].end = None \/ sessions'[i].end > sessions[i].end]_sessions
=============================================================================
