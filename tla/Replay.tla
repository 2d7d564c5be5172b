------------------------------- MODULE Replay -------------------------------
(***************************************************************************)
(* The offline replay of one person's actions (replay.interceptor.ts): the *)
(* rows of agent_events, the copies of a request in flight, the working    *)
(* day a copy may reopen, and the agent that resends its journal.          *)
(*                                                                         *)
(* Every database call of the interceptor is an await, so a copy is at     *)
(* pc and remembers what it has read.  Two minutes may pass anywhere, and  *)
(* the process may crash anywhere: a copy may find the placeholder of one  *)
(* that is still running.                                                  *)
(*                                                                         *)
(* The other writers of the day take the steps of SessionLedger, which     *)
(* WorkDay implements.  Left out: End Day marks, the month lock, idempotent*)
(* requests without an event time, event times ahead of the server, the    *)
(* live window of 30 seconds, and the removal of rows after 30 days, which *)
(* no journal of 7 days reaches.                                           *)
(***************************************************************************)
EXTENDS SessionLedger, FiniteSets

CONSTANTS
  Copies,          \* requests that may be in flight at once
  Length,          \* actions in the agent's journal
  EventAt,         \* X-Event-At of each action
  EndsDay,         \* the actions that are an End Day
  StaleAfter,      \* STALE_PLACEHOLDER_MS
  MaxAge,          \* MAX_AGE_MS
  Tolerance,       \* ORDER_TOLERANCE_MS
  DayLength,       \* the 20 hours of reopenAutoClosed
  MaxFailures      \* bound: how often an action may fail after it was committed

Events == 1 .. Length

ASSUME JournalAssumption ==
  /\ IsFiniteSet(Copies)
  /\ Length \in Nat
  /\ EventAt \in [Events -> Times]
  /\ EndsDay \subseteq Events
  /\ {StaleAfter, MaxAge, Tolerance, DayLength, MaxFailures} \subseteq Nat

VARIABLES
  clock,           \* the server's clock
  events,          \* agent_events: [Events -> row or None]
  copies,          \* [Copies -> request in flight or None]
  sent,            \* the action of the journal the agent is sending
  applied,         \* how often each action was applied (history)
  takeovers,       \* how often its placeholder was deleted as stale (history)
  halfway,         \* how often it failed after its writes were committed (history)
  unstored         \* actions answered for good with nothing stored (history)

vars == <<clock, sessions, events, copies, sent, applied, takeovers, halfway, unstored>>

EventRow == [status: {"IN_PROGRESS", "OK", "REFUSED"}, received: Times]

(* What a reopened session looked like (Reopened). *)
Before == [id: SessionIds, end: Times, source: Sources]
Copy == [event: Events, now: Times,
         pc: {"find", "takeover", "judge", "create", "read", "reopen", "handle",
              "restore", "settle"},
         before: Before \cup {None},
         answer: {"OK", "REFUSED", "FAILED", None}]

ASSUME NoneIsNoEvent ==
  None \notin EventRow \cup Copy \cup Before \cup {"OK", "REFUSED", "FAILED"}

Settled(e) == events[e] # None /\ events[e].status # "IN_PROGRESS"
InProgress(e) == events[e] # None /\ events[e].status = "IN_PROGRESS"
IsReplay(q) == EventAt[q.event] < q.now

-----------------------------------------------------------------------------
(* The agent (external): it sends the next action only after a final answer, *)
(* and the same one again whenever an answer is lost or is not final, even   *)
(* while the first copy still runs.                                          *)

Send(c) ==
  /\ copies[c] = None
  /\ sent <= Length /\ EventAt[sent] <= clock
  /\ copies' = [copies EXCEPT ![c] =
       [event |-> sent, now |-> clock, pc |-> "find", before |-> None, answer |-> None]]
  /\ UNCHANGED <<clock, sessions, events, sent, applied, takeovers, halfway, unstored>>

At(c, pc) == copies[c] # None /\ copies[c].pc = pc
Goto(c, pc) == copies' = [copies EXCEPT ![c].pc = pc] /\ UNCHANGED sent
Answered(c, final) ==
  /\ copies' = [copies EXCEPT ![c] = None]
  /\ \/ UNCHANGED sent
     \/ final /\ copies[c].event = sent /\ sent' = sent + 1

-----------------------------------------------------------------------------
(* begin *)

Find_AnyRowIsFinal(c) ==              \* mutant: a running action answers a repeat
  /\ At(c, "find")
  /\ \/ events[copies[c].event] # None /\ Answered(c, TRUE)
     \/ events[copies[c].event] = None /\ Goto(c, "judge")
  /\ UNCHANGED <<clock, sessions, events, applied, takeovers, halfway, unstored>>
Find(c) ==
  LET e == copies[c].event
  IN  /\ At(c, "find")
      /\ \/ Settled(e) /\ Answered(c, TRUE)              \* REPEAT
         \/ /\ InProgress(e)
            /\ IF copies[c].now < events[e].received + StaleAfter
               THEN Answered(c, FALSE)                   \* EVENT_IN_PROGRESS
               ELSE Goto(c, "takeover")
         \/ events[e] = None /\ Goto(c, "judge")
      /\ UNCHANGED <<clock, sessions, events, applied, takeovers, halfway, unstored>>

(* deleteMany of the placeholder: whatever copy it belongs to by now. *)
TakeOver(c) ==
  LET e == copies[c].event
  IN  /\ At(c, "takeover")
      /\ \/ /\ InProgress(e)
            /\ events' = [events EXCEPT ![e] = None]
            /\ takeovers' = [takeovers EXCEPT ![e] = @ + 1]
         \/ ~InProgress(e) /\ UNCHANGED <<events, takeovers>>
      /\ Goto(c, "judge")
      /\ UNCHANGED <<clock, sessions, applied, halfway, unstored>>

(* EVENT_TIME_INVALID: too old, or older than a settled action. *)
TooOld(q) == q.now > EventAt[q.event] + MaxAge
OutOfOrder(q) == /\ IsReplay(q)
                 /\ \E e \in Events : Settled(e) /\ EventAt[q.event] + Tolerance < EventAt[e]
Judge(c) ==
  LET q == copies[c]
  IN  /\ At(c, "judge")
      /\ IF TooOld(q) \/ OutOfOrder(q)
         THEN Answered(c, TRUE) /\ unstored' = unstored \cup {q.event}
         ELSE Goto(c, "create") /\ UNCHANGED unstored
      /\ UNCHANGED <<clock, sessions, events, applied, takeovers, halfway>>

Create_Upsert(c) ==                   \* mutant: the placeholder is upserted
  LET q == copies[c]
  IN  /\ At(c, "create")
      /\ events' = [events EXCEPT ![q.event] =
                      [status |-> "IN_PROGRESS", received |-> clock]]
      /\ Goto(c, IF IsReplay(q) THEN "read" ELSE "handle")
      /\ UNCHANGED <<clock, sessions, applied, takeovers, halfway, unstored>>
Create(c) ==
  LET q == copies[c]
  IN  /\ At(c, "create")
      /\ \/ /\ events[q.event] = None
            /\ events' = [events EXCEPT ![q.event] =
                            [status |-> "IN_PROGRESS", received |-> clock]]
            /\ Goto(c, IF IsReplay(q) THEN "read" ELSE "handle")
         \/ /\ events[q.event] # None                    \* P2002
            /\ Answered(c, FALSE)
            /\ UNCHANGED events
      /\ UNCHANGED <<clock, sessions, applied, takeovers, halfway, unstored>>

-----------------------------------------------------------------------------
(* reopenAutoClosed *)

IsLast(i) == /\ i \in Rows
             /\ \A j \in Rows : sessions[j].start <= sessions[i].start
Reopens(i, t) ==
  /\ IsLast(i) /\ OpenIds = {}
  /\ sessions[i].reason = "AUTO_CLOSED"
  /\ sessions[i].end < t
  /\ t <= sessions[i].start + DayLength /\ t <= LatestEnd(sessions[i])
ReadDay(c) ==
  LET q == copies[c]
  IN  /\ At(c, "read")
      /\ \/ \E i \in SessionIds :
              /\ Reopens(i, EventAt[q.event])
              /\ copies' = [copies EXCEPT ![c] = [@ EXCEPT !.pc = "reopen",
                   !.before = [id |-> i, end |-> sessions[i].end,
                               source |-> sessions[i].source]]]
              /\ UNCHANGED sent
         \/ /\ \E i \in SessionIds : IsLast(i) /\ ~Reopens(i, EventAt[q.event])
            /\ Goto(c, "handle")
         \/ Rows = {} /\ Goto(c, "handle")
      /\ UNCHANGED <<clock, sessions, events, applied, takeovers, halfway, unstored>>

Forgotten(e) == [events EXCEPT ![e] = IF InProgress(e) THEN None ELSE @]
(* The update takes no lock; the unique index on open sessions refuses it    *)
(* when another has been opened meanwhile, and the placeholder goes.         *)
Reopen(c) ==
  LET b == copies[c].before
  IN  /\ At(c, "reopen")
      /\ \/ /\ OpenIds \subseteq {b.id}
            /\ sessions' = [sessions EXCEPT ![b.id] =
                              [@ EXCEPT !.end = None, !.source = "REPLAY"]]
            /\ Goto(c, "handle")
            /\ UNCHANGED <<events, unstored>>
         \/ /\ ~(OpenIds \subseteq {b.id})
            /\ events' = Forgotten(copies[c].event)
            /\ Answered(c, TRUE)                         \* 409, as the filter answers P2002
            /\ unstored' = unstored \cup {copies[c].event}
            /\ UNCHANGED sessions
      /\ UNCHANGED <<clock, applied, takeovers, halfway>>

-----------------------------------------------------------------------------
(* The handler, and what its answer does *)

Answer(c, a) ==
  /\ copies' = [copies EXCEPT ![c] =
       [@ EXCEPT !.answer = a,
                 !.pc = IF a # "OK" /\ copies[c].before # None THEN "restore" ELSE "settle"]]
  /\ UNCHANGED sent

(* The transaction of the action.  An End Day closes the open session at the *)
(* action's time, never before its start, and is accepted again on an ended  *)
(* day; any other action of a 4.0 agent needs the day open.  The handler is  *)
(* not done with it: it still notifies and reads the view it answers.        *)
Apply(c) ==
  LET q == copies[c]  at == IF IsReplay(q) THEN EventAt[q.event] ELSE clock
  IN  /\ At(c, "handle")
      /\ \/ /\ q.event \in EndsDay
            /\ \/ \E i \in OpenIds : Ended(i, AtLeast(at, sessions[i].start))
               \/ OpenIds = {} /\ Rows # {} /\ UNCHANGED sessions
         \/ q.event \notin EndsDay /\ OpenIds # {} /\ UNCHANGED sessions
      /\ applied' = [applied EXCEPT ![q.event] = @ + 1]
      /\ Answer(c, "OK")
      /\ UNCHANGED <<clock, events, takeovers, halfway, unstored>>
(* It may be refused (4xx) or fail (5xx) before that, for reasons of its own; *)
(* what it had committed by then (a stale day closed, a paused break ended,  *)
(* the planned skips of an End Day) is not the action, and to the session it *)
(* is a step of Others.                                                      *)
Refuse(c) ==
  /\ At(c, "handle")
  /\ Answer(c, "REFUSED") \/ Answer(c, "FAILED")
  /\ UNCHANGED <<clock, sessions, events, applied, takeovers, halfway, unstored>>
(* And it may fail after it: the writes stay, the answer is an error.        *)
FailLate(c) ==
  LET e == copies[c].event
  IN  /\ At(c, "settle") /\ copies[c].answer = "OK"
      /\ halfway[e] < MaxFailures
      /\ Answer(c, "REFUSED") \/ Answer(c, "FAILED")
      /\ halfway' = [halfway EXCEPT ![e] = @ + 1]
      /\ UNCHANGED <<clock, sessions, events, applied, takeovers, unstored>>

(* restore writes back what it remembers, or fails with a warning. *)
Restore(c) ==
  LET b == copies[c].before
  IN  /\ At(c, "restore")
      /\ \/ sessions' = [sessions EXCEPT ![b.id] =
              [@ EXCEPT !.end = b.end, !.reason = "AUTO_CLOSED", !.source = b.source]]
         \/ UNCHANGED sessions
      /\ Goto(c, "settle")
      /\ UNCHANGED <<clock, events, applied, takeovers, halfway, unstored>>

Settle_AlwaysOK(c) ==                 \* mutant: every answer is stored like a success
  LET q == copies[c]
  IN  /\ At(c, "settle") /\ q.answer # "FAILED"
      /\ events[q.event] # None
      /\ events' = [events EXCEPT ![q.event].status = "OK"]
      /\ Answered(c, TRUE)
      /\ UNCHANGED <<clock, sessions, applied, takeovers, halfway, unstored>>
(* finish, whose failure is only logged, or forget. *)
Settle(c) ==
  LET q == copies[c]
  IN  /\ At(c, "settle")
      /\ \/ /\ q.answer # "FAILED"
            /\ \/ /\ events[q.event] # None
                  /\ events' = [events EXCEPT ![q.event].status = q.answer]
               \/ UNCHANGED events
            /\ Answered(c, TRUE)
         \/ /\ q.answer = "FAILED"
            /\ \/ events' = Forgotten(q.event)
               \/ UNCHANGED events
            /\ Answered(c, FALSE)
      /\ UNCHANGED <<clock, sessions, applied, takeovers, halfway, unstored>>

-----------------------------------------------------------------------------
(* Everything else *)

(* The process crashes: what is in flight is gone. *)
Crash ==
  /\ copies' = [c \in Copies |-> None]
  /\ UNCHANGED <<clock, sessions, events, sent, applied, takeovers, halfway, unstored>>

(* The portal, live requests, the job and late samples. *)
Others ==
  /\ \E i \in SessionIds :
       \/ Opened(i) /\ sessions'[i].start = clock /\ sessions'[i].source = "AGENT"
       \/ Ended(i, clock)
       \/ \E t \in 0 .. clock : \/ AutoClosed(i, t) /\ clock > LatestEnd(sessions[i])
                                \/ Extended(i, t)
  /\ UNCHANGED <<clock, events, copies, sent, applied, takeovers, halfway, unstored>>

Tick ==
  /\ clock < MaxTime
  /\ clock' = clock + 1
  /\ UNCHANGED <<sessions, events, copies, sent, applied, takeovers, halfway, unstored>>

Init ==
  /\ LedgerInit
  /\ clock = 0
  /\ events = [e \in Events |-> None]
  /\ copies = [c \in Copies |-> None]
  /\ sent = 1
  /\ applied = [e \in Events |-> 0]
  /\ takeovers = [e \in Events |-> 0]
  /\ halfway = [e \in Events |-> 0]
  /\ unstored = {}

Step(c) ==
  \/ Send(c) \/ Find(c) \/ TakeOver(c) \/ Judge(c) \/ Create(c) \/ ReadDay(c) \/ Reopen(c)
  \/ Apply(c) \/ Refuse(c) \/ FailLate(c) \/ Restore(c) \/ Settle(c)

Next == (\E c \in Copies : Step(c)) \/ Crash \/ Others \/ Tick

Spec == Init /\ [][Next]_vars

-----------------------------------------------------------------------------
(* Properties *)

(* Every row, request and counter has its type: in particular only a success *)
(* or a refusal is ever stored as an answer.                                 *)
TypeOK ==
  /\ LedgerTypeOK
  /\ clock \in Times /\ sent \in 1 .. Length + 1
  /\ events \in [Events -> EventRow \cup {None}]
  /\ copies \in [Copies -> Copy \cup {None}]
  /\ applied \in [Events -> Nat] /\ takeovers \in [Events -> Nat]
  /\ halfway \in [Events -> Nat]
  /\ unstored \subseteq Events

Holds(c, e) == /\ copies[c] # None /\ copies[c].event = e
               /\ copies[c].pc \in {"read", "reopen", "handle", "restore", "settle"}
Unapplied(e) == {c \in Copies : Holds(c, e) /\ copies[c].pc \in {"read", "reopen", "handle"}}

(* "So a journal resent after a lost answer never doubles anything", as far  *)
(* as it goes: an action is applied once more for each placeholder that was  *)
(* deleted as stale and each run that failed after its commit, and the       *)
(* copies that may still apply it are counted in.                            *)
AppliedPerPlaceholder ==
  \A e \in Events :
    applied[e] + Cardinality(Unapplied(e)) + (IF events[e] = None THEN 1 ELSE 0)
      <= 1 + takeovers[e] + halfway[e]

(* "Only the copy holding the placeholder may reopen a day": as long as no   *)
(* placeholder was taken over, one copy is past it, and it is in progress.   *)
OneHolder ==
  \A e \in Events : takeovers[e] = 0 =>
    \A c, d \in Copies : (Holds(c, e) /\ Holds(d, e)) => c = d /\ InProgress(e)

(* The placeholder lets one copy through: an action is applied once for each *)
(* placeholder, and whoever is past it holds it (ReplayInterceptor.begin).   *)
PlaceholderHolds == TypeOK /\ AppliedPerPlaceholder /\ OneHolder

(* A stored answer tells what happened to the action, and an action of which *)
(* nothing is stored was not applied; apart are the actions that failed      *)
(* after their commit, of which the answer is the error.                     *)
AnswerIsTrue ==
  \A e \in Events : takeovers[e] + halfway[e] = 0 =>
    /\ events[e] = None => applied[e] = 0
    /\ Settled(e) => (events[e].status = "OK" <=> applied[e] = 1)

(* The journal is applied in its order: while a later action has been        *)
(* applied, no copy of an earlier one is about to be, unless the earlier was *)
(* answered without a word in agent_events or taken over as stale.           *)
JournalOrder ==
  \A e, f \in Events :
    (e < f /\ applied[f] > 0 /\ takeovers[e] = 0 /\ e \notin unstored)
      => Unapplied(e) = {}
=============================================================================
