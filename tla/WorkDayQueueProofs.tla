------------------------- MODULE WorkDayQueueProofs -------------------------
(***************************************************************************)
(* The working day, and the queue of items it leaves to be approved.       *)
(*                                                                         *)
(* WorkDay implements the session ledger for every set of requests, days,  *)
(* shifts and clock bounds, whatever the handlers read before they take    *)
(* the row lock.  So a person has at most one open session, a closed one   *)
(* keeps to its limits, and time is never taken back from it.  The types   *)
(* alone do not carry the refinement: a handler writes an instant it       *)
(* planned earlier.  PlansHold says what is still true of the plan when    *)
(* the lock is taken; it is inductive because no step changes the day or   *)
(* the start of a session, hence its latest end.                           *)
(*                                                                         *)
(* ApprovalQueue for every number of rows, people and departments: its     *)
(* invariant joins what the row of an item says to what a run of the job   *)
(* has read of it, and to the place its owner has now.                     *)
(***************************************************************************)
EXTENDS WorkDay, ApprovalQueue, SessionLedgerProofs

-----------------------------------------------------------------------------
(* Helpers of the model *)

(* A close planned by autoCloseAt is within the session's limits. *)
LEMMA ClosesAtLimit ==
  ASSUME NEW s \in Session, NEW now \in Times, NEW t \in Times,
         ClosesAt(s, now, t), inputs \subseteq Times
  PROVE  t <= LatestEnd(s)
<1>1. LatestEnd(s) \in Nat /\ s.start <= LatestEnd(s)
  BY LatestEndType
<1>2. \A u \in SessionInputs(s, now) : AtMost(u, LatestEnd(s)) <= LatestEnd(s)
  BY <1>1, CloseAssumption DEF AtMost, SessionInputs, Times
<1> QED
  BY <1>1, <1>2 DEF ClosesAt, IsLatest

(* createSessionTx gives the new session an instant of the clock. *)
LEMMA StartsAtType ==
  ASSUME NEW x, NEW now \in Times, NEW t, StartsAt(x, now, t)
  PROVE  t \in Times
  BY CloseAssumption DEF StartsAt, AtMost, Times

(* A request as it arrives. *)
LEMMA NewRequestType ==
  ASSUME NEW op \in Ops, NEW gen \in Generations, NEW now \in Times,
         NEW replay \in BOOLEAN, NEW x \in Times
  PROVE  NewRequest(op, gen, now, replay, x) \in Request
  BY DEF NewRequest, Request

(* A handler that is at a step has a request of its own. *)
LEMMA AtType ==
  ASSUME TypeOK, NEW r \in Handlers, NEW ops, NEW pc, At(r, ops, pc)
  PROVE  requests[r] \in Request /\ requests[r] # None /\ requests[r].pc = pc
  BY DEF TypeOK, At

(* A request that is answered leaves its slot; one that goes on keeps what   *)
(* it has.                                                                   *)
RequestsTypeOK == requests \in [Handlers -> Request \cup {None}]

LEMMA DoneType ==
  ASSUME TypeOK, NEW r \in Handlers, Done(r)
  PROVE  RequestsTypeOK'
  BY DEF TypeOK, Done, RequestsTypeOK

LEMMA GotoType ==
  ASSUME TypeOK, NEW r \in Handlers, requests[r] \in Request,
         NEW pc \in {"close", "judge", "act", "extend", "mark", "store"}, Goto(r, pc)
  PROVE  RequestsTypeOK'
<1>1. [requests[r] EXCEPT !.pc = pc] \in Request
  BY DEF Request
<1>2. requests' = [requests EXCEPT ![r] = [requests[r] EXCEPT !.pc = pc]]
  BY DEF Goto
<1> QED
  BY <1>1, <1>2 DEF TypeOK, RequestsTypeOK

(* The End Day marks after a transaction. *)
LEMMA MarkType ==
  ASSUME TypeOK, NEW t \in Times, NEW ds
  PROVE  /\ MarkEnded(ds, t) \in [Days -> Times \cup {None}]
         /\ MarkCleared(ds) \in [Days -> Times \cup {None}]
  BY DEF TypeOK, MarkEnded, MarkCleared

(* What an arriving request, or the job's scan, leaves in its slot. *)
LEMMA AcceptType ==
  ASSUME TypeOK, NEW r \in Handlers, NEW q \in Request, Accept(r, q)
  PROVE  RequestsTypeOK'
<1>1. CASE requests' = [requests EXCEPT ![r] = q]
  BY <1>1 DEF TypeOK, RequestsTypeOK
<1>2. CASE \E i \in OpenIds, t \in Times :
             requests' = [requests EXCEPT ![r] =
                            [q EXCEPT !.pc = "close", !.sess = i, !.at = t]]
  <2>1. PICK i \in OpenIds, t \in Times :
               requests' = [requests EXCEPT ![r] =
                              [q EXCEPT !.pc = "close", !.sess = i, !.at = t]]
    BY <1>2
  <2>2. [q EXCEPT !.pc = "close", !.sess = i, !.at = t] \in Request
    BY DEF Request, OpenIds, Rows
  <2> QED
    BY <2>1, <2>2 DEF TypeOK, RequestsTypeOK
<1> QED
  BY <1>1, <1>2 DEF Accept

-----------------------------------------------------------------------------
(* Refinement: what each transaction does to the table is a ledger step *)

WorkDayInv == TypeOK /\ PlansHold /\ LedgerInv

(* The three ways a session is created open the day in the ledger. *)
LEMMA CreateRefines ==
  ASSUME NEW t \in Times, NEW date \in Days, NEW source \in Sources,
         ~DayIsOpen, Create(t, date, source)
  PROVE  LedgerNext
<1>1. PICK i \in SessionIds \ Rows :
        sessions' = [sessions EXCEPT ![i] = NewSession(date, t, source)]
  BY DEF Create
<1>2. Opened(i)
  BY <1>1 DEF Opened, DayIsOpen
<1> QED
  BY <1>2 DEF LedgerNext

LEMMA CloseStaleRefines ==
  ASSUME WorkDayInv, NEW r \in Handlers, CloseStale(r)
  PROVE  LedgerNext \/ UNCHANGED sessions
<1> DEFINE q == requests[r]
           s == sessions[q.sess]
           t == AtLeast(q.at, s.start)
<1>1. q \in Request /\ q # None /\ q.pc = "close"
  BY AtType DEF CloseStale, WorkDayInv
<1>2. q.sess \in Rows /\ q.at \in Times /\ q.at <= LatestEnd(s)
  BY <1>1 DEF WorkDayInv, PlansHold, PlanHolds
<1>3. s \in Session /\ q.sess \in SessionIds
  BY <1>2 DEF WorkDayInv, TypeOK, Rows
<1>4. LatestEnd(s) \in Nat /\ s.start <= LatestEnd(s)
  BY <1>3, LatestEndType
<1>5. t \in Times /\ s.start <= t /\ t <= LatestEnd(s)
  BY <1>2, <1>3, <1>4, CloseAssumption DEF AtLeast, Session, Times
<1>6. CASE q.sess \in OpenIds /\ Close(q.sess, t, "AUTO_CLOSED")
  <2>1. AutoClosed(q.sess, t)
    BY <1>5, <1>6 DEF AutoClosed, Close
  <2> QED
    BY <1>3, <1>5, <2>1 DEF LedgerNext
<1>7. CASE UNCHANGED sessions
  BY <1>7
<1> QED
  BY <1>6, <1>7 DEF CloseStale

LEMMA StartDayRefines ==
  ASSUME WorkDayInv, NEW r \in Handlers, StartDay(r)
  PROVE  LedgerNext \/ UNCHANGED sessions
<1> DEFINE q == requests[r]
<1>1. q \in Request
  BY AtType DEF StartDay, WorkDayInv
<1>2. CASE ~DayIsOpen
  <2>1. PICK t \in Times : Create(t, ShiftDay[t], SourceOf(q))
    BY <1>2 DEF StartDay
  <2>2. ShiftDay[t] \in Days /\ SourceOf(q) \in Sources
    BY <1>1, ClockAssumption DEF SourceOf, Sources
  <2> QED
    BY <1>2, <2>1, <2>2, CreateRefines
<1>3. CASE DayIsOpen
  BY <1>3 DEF StartDay
<1> QED
  BY <1>2, <1>3

LEMMA EndDayRefines ==
  ASSUME WorkDayInv, NEW r \in Handlers, EndDay(r)
  PROVE  LedgerNext \/ UNCHANGED sessions
<1> DEFINE q == requests[r]
<1>1. q \in Request
  BY AtType DEF EndDay, WorkDayInv
<1>2. CASE \E i \in OpenIds : EndOpenDay(r, i)
  <2>1. PICK i \in OpenIds : EndOpenDay(r, i)
    BY <1>2
  <2> DEFINE t == AtLeast(q.now, sessions[i].start)
  <2>2. i \in SessionIds /\ sessions[i] \in Session
    BY DEF OpenIds, Rows, WorkDayInv, TypeOK
  <2>3. t \in Times /\ sessions[i].start <= t
    BY <1>1, <2>2, CloseAssumption DEF AtLeast, Session, Request, Times
  <2>4. Ended(i, t)
    BY <2>1, <2>3 DEF Ended, EndOpenDay, Close
  <2> QED
    BY <2>2, <2>3, <2>4 DEF LedgerNext
<1>3. CASE EndClosedDay(r)
  BY <1>3 DEF EndClosedDay
<1> QED
  BY <1>2, <1>3 DEF EndDay

LEMMA EnsureOpenRefines ==
  ASSUME WorkDayInv, NEW r \in Handlers, EnsureOpen(r)
  PROVE  LedgerNext \/ UNCHANGED sessions
<1> DEFINE q == requests[r]
<1>1. q \in Request
  BY AtType DEF EnsureOpen, WorkDayInv
<1>2. CASE ~DayIsOpen /\ \E t \in Times : Create(t, ShiftDay[q.now], "LEGACY")
  <2>1. ShiftDay[q.now] \in Days
    BY <1>1, ClockAssumption DEF Request
  <2> QED
    BY <1>2, <2>1, CreateRefines DEF Sources
<1>3. CASE UNCHANGED sessions
  BY <1>3
<1> QED
  BY <1>2, <1>3 DEF EnsureOpen

LEMMA OpenImplicitRefines ==
  ASSUME WorkDayInv, NEW r \in Handlers, OpenImplicit(r)
  PROVE  LedgerNext \/ UNCHANGED sessions
<1> DEFINE q == requests[r]
<1>1. q \in Request
  BY AtType DEF OpenImplicit, WorkDayInv
<1>2. CASE ~DayIsOpen /\ \E t \in Times : Create(t, ShiftDay[q.now], "LEGACY")
  <2>1. ShiftDay[q.now] \in Days
    BY <1>1, ClockAssumption DEF Request
  <2> QED
    BY <1>2, <2>1, CreateRefines DEF Sources
<1>3. CASE UNCHANGED sessions
  BY <1>3
<1> QED
  BY <1>2, <1>3 DEF OpenImplicit

LEMMA ExtendRefines ==
  ASSUME WorkDayInv, NEW r \in Handlers, ExtendAutoClosed(r)
  PROVE  LedgerNext \/ UNCHANGED sessions
<1> DEFINE q == requests[r]
           s == sessions[q.sess]
<1>1. q \in Request /\ q # None /\ q.pc = "extend"
  BY AtType DEF ExtendAutoClosed, WorkDayInv
<1>2. /\ q.sess \in Rows /\ q.at \in Times
      /\ q.at < q.x /\ q.x <= LatestEnd(s)
  BY <1>1 DEF WorkDayInv, PlansHold, PlanHolds
<1>3. q.sess \in SessionIds /\ q.x \in Times
  BY <1>1, <1>2 DEF Rows, Request
<1>4. CASE /\ s.reason = "AUTO_CLOSED" /\ s.end = q.at
           /\ sessions' = [sessions EXCEPT ![q.sess] =
                             [@ EXCEPT !.end = q.x, !.source = "REPLAY"]]
  <2>1. q.sess \in ClosedIds
    BY <1>2, <1>4, NoneAssumption DEF ClosedIds, OpenIds, Times
  <2>2. Extended(q.sess, q.x)
    BY <1>2, <1>4, <2>1 DEF Extended
  <2> QED
    BY <1>3, <2>2 DEF LedgerNext
<1>5. CASE UNCHANGED sessions
  BY <1>5
<1> QED
  BY <1>4, <1>5 DEF ExtendAutoClosed

(* Every step of the working day is a step of the ledger or leaves it alone. *)
LEMMA StepRefines ==
  ASSUME WorkDayInv, Next
  PROVE  LedgerNext \/ UNCHANGED sessions
<1>1. CASE Tick
  BY <1>1 DEF Tick
<1>2. CASE JobScan
  BY <1>2 DEF JobScan
<1>3. ASSUME NEW r \in Slots, NEW op, NEW gen, NEW x, Receive(r, op, gen, x)
      PROVE  UNCHANGED sessions
  BY <1>3 DEF Receive
<1>4. ASSUME NEW r \in Handlers, Handle(r)
      PROVE  LedgerNext \/ UNCHANGED sessions
  <2>1. CASE CloseStale(r) \/ StartDay(r) \/ EndDay(r)
    BY <2>1, CloseStaleRefines, StartDayRefines, EndDayRefines
  <2>2. CASE EnsureOpen(r) \/ OpenImplicit(r) \/ ExtendAutoClosed(r)
    BY <2>2, EnsureOpenRefines, OpenImplicitRefines, ExtendRefines
  <2>3. CASE JudgeEnd(r) \/ FindEndForStatus(r) \/ SwitchStatus(r)
    BY <2>3 DEF JudgeEnd, FindEndForStatus, SwitchStatus
  <2>4. CASE JudgeSample(r) \/ FindLogin(r) \/ FindEnd(r) \/ Store(r)
    BY <2>4 DEF JudgeSample, FindLogin, FindEnd, Store
  <2> QED
    BY <1>4, <2>1, <2>2, <2>3, <2>4 DEF Handle
<1> QED
  BY <1>1, <1>2, <1>3, <1>4 DEF Next

-----------------------------------------------------------------------------
(* Types *)

(* With the table of sessions settled by the ledger, what is left to type    *)
(* are the marks, the status, the samples and the requests.                  *)
LEMMA TypeSplit ==
  TypeOK <=> /\ clock \in Times /\ LedgerTypeOK
             /\ dayEnd \in [Days -> Times \cup {None}]
             /\ login \in [Days -> Times \cup {None}]
             /\ presence \subseteq [date: Days, start: Times]
             /\ inputs \subseteq Times
             /\ RequestsTypeOK
  BY DEF TypeOK, LedgerTypeOK, RequestsTypeOK

LEMMA CloseStaleType ==
  ASSUME WorkDayInv, LedgerTypeOK', NEW r \in Handlers, CloseStale(r)
  PROVE  TypeOK'
<1> DEFINE q == requests[r]
           s == sessions[q.sess]
           t == AtLeast(q.at, s.start)
<1>1. q \in Request /\ q # None /\ q.pc = "close"
  BY AtType DEF CloseStale, WorkDayInv
<1>2. q.sess \in Rows /\ q.at \in Times
  BY <1>1 DEF WorkDayInv, PlansHold, PlanHolds
<1>3. t \in Times
  BY <1>2 DEF WorkDayInv, TypeOK, Rows, Session, AtLeast
<1>4. RequestsTypeOK'
  BY <1>1, DoneType, GotoType DEF CloseStale, WorkDayInv
<1>5. dayEnd' \in [Days -> Times \cup {None}]
  BY <1>3, MarkType DEF CloseStale, WorkDayInv, TypeOK
<1>6. presence' \subseteq [date: Days, start: Times]
  BY DEF CloseStale, WorkDayInv, TypeOK
<1> QED
  BY <1>4, <1>5, <1>6 DEF CloseStale, WorkDayInv, TypeOK, LedgerTypeOK, RequestsTypeOK

LEMMA StartDayType ==
  ASSUME WorkDayInv, LedgerTypeOK', NEW r \in Handlers, StartDay(r)
  PROVE  TypeOK'
<1>1. RequestsTypeOK'
  BY DoneType DEF StartDay, WorkDayInv
<1>2. dayEnd' \in [Days -> Times \cup {None}]
  BY MarkType DEF StartDay, WorkDayInv, TypeOK
<1> QED
  BY <1>1, <1>2 DEF StartDay, WorkDayInv, TypeOK, LedgerTypeOK, RequestsTypeOK

LEMMA EndDayType ==
  ASSUME WorkDayInv, LedgerTypeOK', NEW r \in Handlers, EndDay(r)
  PROVE  TypeOK'
<1> DEFINE q == requests[r]
<1>1. q \in Request
  BY AtType DEF EndDay, WorkDayInv
<1>2. RequestsTypeOK'
  BY DoneType DEF EndDay, WorkDayInv
<1>3. CASE \E i \in OpenIds : EndOpenDay(r, i)
  <2>1. PICK i \in OpenIds : EndOpenDay(r, i)
    BY <1>3
  <2>2. AtLeast(q.now, sessions[i].start) \in Times
    <3>1. sessions[i] \in Session
      BY DEF OpenIds, Rows, WorkDayInv, TypeOK
    <3> QED
      BY <1>1, <3>1 DEF AtLeast, Request, Session
  <2>3. \E ds : dayEnd' = MarkEnded(ds, AtLeast(q.now, sessions[i].start))
    BY <2>1 DEF EndOpenDay
  <2>4. dayEnd' \in [Days -> Times \cup {None}]
    BY <2>2, <2>3, MarkType DEF WorkDayInv
  <2>5. presence' = {}
    BY <2>1 DEF EndOpenDay
  <2> QED
    BY <1>2, <2>4, <2>5 DEF EndDay, WorkDayInv, TypeOK, LedgerTypeOK, RequestsTypeOK
<1>4. CASE EndClosedDay(r)
  <2>1. q.now \in Times
    BY <1>1 DEF Request
  <2>2. dayEnd' \in [Days -> Times \cup {None}]
    <3>1. \/ dayEnd' = dayEnd
          \/ \E t \in Times : \E ds : dayEnd' = MarkEnded(ds, t)
      BY <1>4, <2>1 DEF EndClosedDay
    <3> QED
      BY <3>1, MarkType DEF WorkDayInv, TypeOK
  <2>3. presence' \subseteq [date: Days, start: Times]
    BY <1>4 DEF EndClosedDay, WorkDayInv, TypeOK
  <2> QED
    BY <1>2, <2>2, <2>3 DEF EndDay, WorkDayInv, TypeOK, LedgerTypeOK, RequestsTypeOK
<1> QED
  BY <1>3, <1>4 DEF EndDay

LEMMA EnsureOpenType ==
  ASSUME WorkDayInv, LedgerTypeOK', NEW r \in Handlers, EnsureOpen(r)
  PROVE  TypeOK'
<1> DEFINE q == requests[r]
<1>1. q \in Request
  BY AtType DEF EnsureOpen, WorkDayInv
<1>2. CASE Done(r)
  BY <1>2, DoneType DEF EnsureOpen, WorkDayInv, TypeOK, LedgerTypeOK, RequestsTypeOK
<1>3. CASE \E i \in OpenIds :
             requests' = [requests EXCEPT ![r] =
                            [@ EXCEPT !.pc = "act", !.day = sessions[i].date]]
  <2>1. PICK i \in OpenIds :
          requests' = [requests EXCEPT ![r] =
                         [@ EXCEPT !.pc = "act", !.day = sessions[i].date]]
    BY <1>3
  <2>2. sessions[i].date \in Days
    BY DEF OpenIds, Rows, WorkDayInv, TypeOK, Session
  <2>3. [q EXCEPT !.pc = "act", !.day = sessions[i].date] \in Request
    BY <1>1, <2>2 DEF Request
  <2>4. RequestsTypeOK'
    BY <2>1, <2>3 DEF WorkDayInv, TypeOK, RequestsTypeOK
  <2> QED
    BY <2>4 DEF EnsureOpen, WorkDayInv, TypeOK, LedgerTypeOK, RequestsTypeOK
<1> QED
  BY <1>2, <1>3 DEF EnsureOpen

LEMMA StatusType ==
  ASSUME WorkDayInv, LedgerTypeOK', NEW r \in Handlers,
         FindEndForStatus(r) \/ SwitchStatus(r)
  PROVE  TypeOK'
<1> DEFINE q == requests[r]
<1>1. CASE FindEndForStatus(r)
  <2>1. q \in Request /\ CalendarDay[q.now] \in Days
    BY <1>1, AtType, ClockAssumption DEF FindEndForStatus, WorkDayInv, Request
  <2>2. [q EXCEPT !.pc = "act", !.day = CalendarDay[q.now]] \in Request
    BY <2>1 DEF Request
  <2>3. RequestsTypeOK'
    BY <1>1, <2>2, DoneType DEF FindEndForStatus, WorkDayInv, TypeOK, RequestsTypeOK
  <2> QED
    BY <1>1, <2>3 DEF FindEndForStatus, WorkDayInv, TypeOK, LedgerTypeOK, RequestsTypeOK
<1>2. CASE SwitchStatus(r)
  <2>1. /\ q \in Request /\ q # None /\ q.pc = "act"
        /\ q.op \in {"presence", "back"}
    BY <1>2, AtType DEF SwitchStatus, WorkDayInv, At
  <2>2. q.now \in Times /\ (q.op = "presence" => q.day \in Days)
    BY <2>1 DEF WorkDayInv, PlansHold, PlanHolds, Request
  <2>3. presence' \subseteq [date: Days, start: Times]
    BY <1>2, <2>1, <2>2 DEF SwitchStatus
  <2>4. RequestsTypeOK'
    BY <1>2, DoneType DEF SwitchStatus, WorkDayInv
  <2> QED
    BY <1>2, <2>3, <2>4 DEF SwitchStatus, WorkDayInv, TypeOK, LedgerTypeOK, RequestsTypeOK
<1> QED
  BY <1>1, <1>2

LEMMA JudgeSampleType ==
  ASSUME WorkDayInv, LedgerTypeOK', NEW r \in Handlers, JudgeSample(r)
  PROVE  TypeOK'
<1> DEFINE q == requests[r]
<1>1. q \in Request
  BY AtType DEF JudgeSample, WorkDayInv
<1>2. CASE Done(r) \/ Goto(r, "mark")
  BY <1>1, <1>2, DoneType, GotoType
     DEF JudgeSample, WorkDayInv, TypeOK, LedgerTypeOK, RequestsTypeOK
<1>3. CASE \E i \in SessionIds :
             /\ Extendable(q.x, i)
             /\ requests' = [requests EXCEPT ![r] =
                  [@ EXCEPT !.pc = "extend", !.sess = i,
                            !.at = sessions[i].end, !.open = DayIsOpen]]
  <2>1. PICK i \in SessionIds :
          /\ Extendable(q.x, i)
          /\ requests' = [requests EXCEPT ![r] =
               [@ EXCEPT !.pc = "extend", !.sess = i,
                         !.at = sessions[i].end, !.open = DayIsOpen]]
    BY <1>3
  <2>2. sessions[i].end \in Times /\ DayIsOpen \in BOOLEAN
    BY <2>1 DEF Extendable, ClosedIds, OpenIds, Rows, WorkDayInv, TypeOK, Session, DayIsOpen
  <2>3. [q EXCEPT !.pc = "extend", !.sess = i,
                  !.at = sessions[i].end, !.open = DayIsOpen] \in Request
    BY <1>1, <2>2 DEF Request
  <2>4. RequestsTypeOK'
    BY <2>1, <2>3 DEF WorkDayInv, TypeOK, RequestsTypeOK
  <2> QED
    BY <2>4 DEF JudgeSample, WorkDayInv, TypeOK, LedgerTypeOK, RequestsTypeOK
<1> QED
  BY <1>2, <1>3 DEF JudgeSample

LEMMA ExtendType ==
  ASSUME WorkDayInv, LedgerTypeOK', NEW r \in Handlers, ExtendAutoClosed(r)
  PROVE  TypeOK'
<1> DEFINE q == requests[r]
           s == sessions[q.sess]
<1>1. q \in Request
  BY AtType DEF ExtendAutoClosed, WorkDayInv
<1>2. RequestsTypeOK'
  BY <1>1, DoneType, GotoType DEF ExtendAutoClosed, WorkDayInv
<1>3. dayEnd' \in [Days -> Times \cup {None}]
  BY <1>1 DEF ExtendAutoClosed, WorkDayInv, TypeOK, Request
<1> QED
  BY <1>2, <1>3 DEF ExtendAutoClosed, WorkDayInv, TypeOK, LedgerTypeOK, RequestsTypeOK

LEMMA OldSampleType ==
  ASSUME WorkDayInv, LedgerTypeOK', NEW r \in Handlers, FindLogin(r) \/ OpenImplicit(r)
  PROVE  TypeOK'
<1> DEFINE q == requests[r]
<1>1. q \in Request
  BY AtType DEF FindLogin, OpenImplicit, WorkDayInv
<1>2. CASE Goto(r, "mark")
  BY <1>1, <1>2, GotoType
     DEF FindLogin, OpenImplicit, WorkDayInv, TypeOK, LedgerTypeOK, RequestsTypeOK
<1>3. CASE FindLogin(r) /\ ~Goto(r, "mark")
  <2>1. PICK t \in Times :
          requests' = [requests EXCEPT ![r] = [@ EXCEPT !.pc = "act", !.at = t]]
    BY <1>3 DEF FindLogin
  <2>2. [q EXCEPT !.pc = "act", !.at = t] \in Request
    BY <1>1 DEF Request
  <2>3. RequestsTypeOK'
    BY <2>1, <2>2 DEF WorkDayInv, TypeOK, RequestsTypeOK
  <2> QED
    BY <1>3, <2>3 DEF FindLogin, WorkDayInv, TypeOK, LedgerTypeOK, RequestsTypeOK
<1> QED
  BY <1>2, <1>3 DEF OpenImplicit

LEMMA ReportType ==
  ASSUME WorkDayInv, LedgerTypeOK', NEW r \in Handlers,
         JudgeEnd(r) \/ FindEnd(r) \/ Store(r)
  PROVE  TypeOK'
<1> DEFINE q == requests[r]
<1>1. q \in Request
  BY AtType DEF JudgeEnd, FindEnd, Store, WorkDayInv
<1>2. RequestsTypeOK'
  BY <1>1, DoneType, GotoType DEF JudgeEnd, FindEnd, Store, WorkDayInv
<1>3. q.x \in Times /\ CalendarDay[q.x] \in Days
  BY <1>1, ClockAssumption DEF Request
<1>4. /\ login' \in [Days -> Times \cup {None}]
      /\ inputs' \subseteq Times
  BY <1>3 DEF JudgeEnd, FindEnd, Store, WorkDayInv, TypeOK
<1> QED
  BY <1>2, <1>4 DEF JudgeEnd, FindEnd, Store, WorkDayInv, TypeOK, LedgerTypeOK, RequestsTypeOK

LEMMA TypeStep ==
  ASSUME WorkDayInv, LedgerTypeOK', Next
  PROVE  TypeOK'
<1>1. CASE Tick
  BY <1>1, CloseAssumption
     DEF Tick, WorkDayInv, TypeOK, LedgerTypeOK, RequestsTypeOK, Times
<1>2. CASE JobScan
  <2>1. NewRequest("job", "LEGACY", clock, FALSE, clock) \in Request
    BY NewRequestType DEF WorkDayInv, TypeOK, Ops, Generations
  <2>2. RequestsTypeOK'
    BY <1>2, <2>1, AcceptType DEF JobScan, WorkDayInv, Handlers
  <2> QED
    BY <1>2, <2>2 DEF JobScan, WorkDayInv, TypeOK, LedgerTypeOK, RequestsTypeOK
<1>3. ASSUME NEW r \in Slots, NEW k \in Kinds, NEW x \in Times, Receive(r, k[1], k[2], x)
      PROVE  TypeOK'
  <2>1. NewRequest(k[1], k[2], clock, FALSE, x) \in Request
    BY NewRequestType, RequestAssumption DEF WorkDayInv, TypeOK
  <2>2. RequestsTypeOK'
    BY <1>3, <2>1, AcceptType DEF Receive, WorkDayInv, Handlers
  <2> QED
    BY <1>3, <2>2 DEF Receive, WorkDayInv, TypeOK, LedgerTypeOK, RequestsTypeOK
<1>4. ASSUME NEW r \in Handlers, Handle(r)
      PROVE  TypeOK'
  BY <1>4, CloseStaleType, StartDayType, EndDayType, EnsureOpenType, StatusType,
     JudgeSampleType, ExtendType, OldSampleType, ReportType DEF Handle
<1> QED
  BY <1>1, <1>2, <1>3, <1>4 DEF Next
-----------------------------------------------------------------------------
(* Plans: what a handler has read stays usable until its transaction *)

(* A step of the table drops no row and moves no day and no start, so no     *)
(* latest end either.                                                        *)
LEMMA KeepsRows ==
  ASSUME LedgerInv, LedgerNext \/ UNCHANGED sessions, NEW i \in Rows
  PROVE  i \in Rows' /\ LatestEnd(sessions'[i]) = LatestEnd(sessions[i])
<1>1. CASE UNCHANGED sessions
  BY <1>1 DEF Rows
<1>2. CASE LedgerNext
  <2>1. PICK j \in SessionIds, s \in Session : Rewrite(j, s)
    BY <1>2, LedgerStep
  <2>2. /\ sessions'[j] = s /\ j \in Rows'
        /\ \A k \in SessionIds \ {j} : sessions'[k] = sessions[k]
    BY <2>1, RowWritten DEF LedgerInv, Rewrite
  <2>3. CASE i = j
    <3>1. s.date = sessions[i].date /\ s.start = sessions[i].start
      BY <2>1, <2>3 DEF Rewrite
    <3> QED
      BY <2>2, <2>3, <3>1 DEF LatestEnd
  <2>4. CASE i # j
    BY <2>2, <2>4 DEF Rows
  <2> QED
    BY <2>3, <2>4
<1> QED
  BY <1>1, <1>2

(* The plan of a handler that does not move survives the step. *)
LEMMA PlanKept ==
  ASSUME WorkDayInv, LedgerNext \/ UNCHANGED sessions,
         NEW h \in Handlers, requests[h] # None, requests'[h] = requests[h]
  PROVE  PlanHolds(requests[h])'
<1>1. PlanHolds(requests[h])
  BY DEF WorkDayInv, PlansHold
<1>2. \A i \in Rows : i \in Rows' /\ LatestEnd(sessions'[i]) = LatestEnd(sessions[i])
  BY KeepsRows DEF WorkDayInv
<1> QED
  BY <1>1, <1>2 DEF PlanHolds, LatestEnd

(* So a step has only the plan of its own handler to answer for. *)
LEMMA PlansAfter ==
  ASSUME WorkDayInv, LedgerNext \/ UNCHANGED sessions, NEW r \in Handlers,
         \A h \in Handlers \ {r} : requests'[h] = requests[h],
         requests'[r] = None \/ PlanHolds(requests[r])'
  PROVE  PlansHold'
<1> SUFFICES ASSUME NEW h \in Handlers', requests'[h] # None
             PROVE  PlanHolds(requests[h])'
  BY DEF PlansHold
<1>1. h \in Handlers
  BY DEF Handlers
<1>2. CASE h = r
  BY <1>2
<1>3. CASE h # r
  BY <1>1, <1>3, PlanKept
<1> QED
  BY <1>2, <1>3

(* A handler that finishes, or goes on with nothing to carry, plans nothing. *)
LEMMA NothingPlanned ==
  ASSUME WorkDayInv, LedgerNext \/ UNCHANGED sessions, NEW r \in Handlers,
         requests[r] \in Request,
         \/ Done(r)
         \/ \E pc \in {"judge", "mark", "store"} : Goto(r, pc)
         \/ requests[r].op # "presence" /\ Goto(r, "act")
  PROVE  PlansHold'
<1>1. \A h \in Handlers \ {r} : requests'[h] = requests[h]
  BY DEF Done, Goto, WorkDayInv, TypeOK
<1>2. CASE Done(r)
  <2>1. requests'[r] = None
    BY <1>2 DEF Done, WorkDayInv, TypeOK
  <2> QED
    BY <1>1, <2>1, PlansAfter
<1>3. CASE \E pc \in {"judge", "mark", "store"} : Goto(r, pc)
  <2>1. requests'[r].pc \in {"judge", "mark", "store"}
    BY <1>3 DEF Goto, WorkDayInv, TypeOK, Request
  <2>2. PlanHolds(requests[r])'
    BY <2>1 DEF PlanHolds
  <2> QED
    BY <1>1, <2>2, PlansAfter
<1>4. CASE requests[r].op # "presence" /\ Goto(r, "act")
  <2>1. requests'[r].pc = "act" /\ requests'[r].op = requests[r].op
    BY <1>4 DEF Goto, WorkDayInv, TypeOK, Request
  <2>2. PlanHolds(requests[r])'
    BY <1>4, <2>1 DEF PlanHolds
  <2> QED
    BY <1>1, <2>2, PlansAfter
<1> QED
  BY <1>2, <1>3, <1>4

(* A request arrives with nothing planned, or with the automatic close of a  *)
(* stale session within that session's limits.                               *)
LEMMA AcceptPlans ==
  ASSUME WorkDayInv, UNCHANGED sessions, NEW r \in Handlers,
         NEW op \in Ops, NEW gen \in Generations, NEW x \in Times,
         Accept(r, NewRequest(op, gen, clock, FALSE, x))
  PROVE  PlansHold'
<1> DEFINE q == NewRequest(op, gen, clock, FALSE, x)
<1>1. q \in Request /\ q.pc = "judge" /\ q.now = clock
  <2>1. clock \in Times
    BY DEF WorkDayInv, TypeOK
  <2> QED
    BY <2>1, NewRequestType DEF NewRequest
<1>2. CASE requests' = [requests EXCEPT ![r] = q]
  <2>1. \A h \in Handlers \ {r} : requests'[h] = requests[h]
    BY <1>2 DEF WorkDayInv, TypeOK
  <2>2. requests'[r].pc = "judge"
    BY <1>1, <1>2 DEF WorkDayInv, TypeOK
  <2>3. PlanHolds(requests[r])'
    BY <2>2 DEF PlanHolds
  <2> QED
    BY <2>1, <2>3, PlansAfter
<1>3. CASE \E i \in OpenIds, t \in Times :
             /\ ClosesAt(sessions[i], q.now, t)
             /\ requests' = [requests EXCEPT ![r] =
                               [q EXCEPT !.pc = "close", !.sess = i, !.at = t]]
  <2>1. PICK i \in OpenIds, t \in Times :
             /\ ClosesAt(sessions[i], q.now, t)
             /\ requests' = [requests EXCEPT ![r] =
                               [q EXCEPT !.pc = "close", !.sess = i, !.at = t]]
    BY <1>3
  <2>2. i \in Rows /\ sessions[i] \in Session
    BY DEF OpenIds, Rows, WorkDayInv, TypeOK
  <2>3. t <= LatestEnd(sessions[i])
    BY <1>1, <2>1, <2>2, ClosesAtLimit DEF WorkDayInv, TypeOK
  <2>4. \A h \in Handlers \ {r} : requests'[h] = requests[h]
    BY <2>1 DEF WorkDayInv, TypeOK
  <2>5. requests'[r].pc = "close" /\ requests'[r].sess = i /\ requests'[r].at = t
    BY <1>1, <2>1 DEF WorkDayInv, TypeOK, Request
  <2>6. PlanHolds(requests[r])'
    BY <2>2, <2>3, <2>5 DEF PlanHolds, Rows, LatestEnd
  <2> QED
    BY <2>4, <2>6, PlansAfter
<1> QED
  BY <1>2, <1>3 DEF Accept

LEMMA ArrivalPlans ==
  ASSUME WorkDayInv,
         \/ JobScan
         \/ \E r \in Slots, k \in Kinds, x \in Times : Receive(r, k[1], k[2], x)
  PROVE  PlansHold'
<1>1. CASE JobScan
  BY <1>1, AcceptPlans DEF JobScan, Handlers, Ops, Generations, WorkDayInv, TypeOK
<1>2. ASSUME NEW r \in Slots, NEW k \in Kinds, NEW x \in Times, Receive(r, k[1], k[2], x)
      PROVE  PlansHold'
  <2>1. k[1] \in Ops /\ k[2] \in Generations
    BY RequestAssumption
  <2> QED
    BY <1>2, <2>1, AcceptPlans DEF Receive, Handlers
<1> QED
  BY <1>1, <1>2

(* The steps that write the table, and those that only judge, carry nothing. *)
LEMMA QuietPlans ==
  ASSUME WorkDayInv, LedgerNext \/ UNCHANGED sessions, NEW r \in Handlers,
         \/ CloseStale(r) \/ StartDay(r) \/ JudgeEnd(r) \/ EndDay(r)
         \/ SwitchStatus(r) \/ ExtendAutoClosed(r)
         \/ OpenImplicit(r) \/ FindEnd(r) \/ Store(r)
  PROVE  PlansHold'
<1>1. CASE CloseStale(r) \/ ExtendAutoClosed(r) \/ OpenImplicit(r) \/ FindEnd(r)
  <2>1. requests[r] \in Request
    BY <1>1, AtType DEF CloseStale, ExtendAutoClosed, OpenImplicit, FindEnd, WorkDayInv
  <2>2. Done(r) \/ \E pc \in {"judge", "mark", "store"} : Goto(r, pc)
    BY <1>1 DEF CloseStale, ExtendAutoClosed, OpenImplicit, FindEnd
  <2> QED
    BY <2>1, <2>2, NothingPlanned
<1>2. CASE StartDay(r) \/ EndDay(r) \/ SwitchStatus(r) \/ Store(r)
  <2>1. requests[r] \in Request
    BY <1>2, AtType DEF StartDay, EndDay, SwitchStatus, Store, WorkDayInv
  <2>2. Done(r)
    BY <1>2 DEF StartDay, EndDay, SwitchStatus, Store
  <2> QED
    BY <2>1, <2>2, NothingPlanned
<1>3. CASE JudgeEnd(r)
  <2>1. requests[r] \in Request /\ requests[r].op = "end"
    BY <1>3, AtType DEF JudgeEnd, WorkDayInv, At
  <2>2. Done(r) \/ Goto(r, "act")
    BY <1>3 DEF JudgeEnd
  <2> QED
    BY <2>1, <2>2, NothingPlanned
<1> QED
  BY <1>1, <1>2, <1>3

(* A status carries the day it is of. *)
LEMMA StatusPlans ==
  ASSUME WorkDayInv, LedgerNext \/ UNCHANGED sessions, NEW r \in Handlers,
         EnsureOpen(r) \/ FindEndForStatus(r)
  PROVE  PlansHold'
<1> DEFINE q == requests[r]
<1>1. q \in Request
  BY AtType DEF EnsureOpen, FindEndForStatus, WorkDayInv
<1>2. CASE Done(r)
  BY <1>1, <1>2, NothingPlanned
<1>3. CASE \E day \in Days :
             requests' = [requests EXCEPT ![r] = [@ EXCEPT !.pc = "act", !.day = day]]
  <2>1. PICK day \in Days :
          requests' = [requests EXCEPT ![r] = [@ EXCEPT !.pc = "act", !.day = day]]
    BY <1>3
  <2>2. \A h \in Handlers \ {r} : requests'[h] = requests[h]
    BY <2>1 DEF WorkDayInv, TypeOK
  <2>3. requests'[r].pc = "act" /\ requests'[r].day = day
    BY <1>1, <2>1 DEF WorkDayInv, TypeOK, Request
  <2>4. PlanHolds(requests[r])'
    BY <2>3 DEF PlanHolds
  <2> QED
    BY <2>2, <2>4, PlansAfter
<1>4. \A i \in OpenIds : sessions[i].date \in Days
  BY DEF OpenIds, Rows, WorkDayInv, TypeOK, Session
<1>5. CalendarDay[q.now] \in Days
  BY <1>1, ClockAssumption DEF Request
<1> QED
  BY <1>2, <1>3, <1>4, <1>5 DEF EnsureOpen, FindEndForStatus

(* A late sample carries the automatic close it will move, and comes after   *)
(* it and within the session's limits.                                       *)
LEMMA JudgeSamplePlans ==
  ASSUME WorkDayInv, LedgerNext \/ UNCHANGED sessions, NEW r \in Handlers,
         JudgeSample(r)
  PROVE  PlansHold'
<1> DEFINE q == requests[r]
<1>1. q \in Request
  BY AtType DEF JudgeSample, WorkDayInv
<1>2. CASE Done(r) \/ Goto(r, "mark")
  BY <1>1, <1>2, NothingPlanned
<1>3. CASE \E i \in SessionIds :
             /\ Extendable(q.x, i) /\ sessions[i].end # q.x
             /\ requests' = [requests EXCEPT ![r] =
                  [@ EXCEPT !.pc = "extend", !.sess = i,
                            !.at = sessions[i].end, !.open = DayIsOpen]]
  <2>1. PICK i \in SessionIds :
             /\ Extendable(q.x, i) /\ sessions[i].end # q.x
             /\ requests' = [requests EXCEPT ![r] =
                  [@ EXCEPT !.pc = "extend", !.sess = i,
                            !.at = sessions[i].end, !.open = DayIsOpen]]
    BY <1>3
  <2>2. i \in Rows /\ sessions[i].end \in Times
    BY <2>1 DEF Extendable, ClosedIds, OpenIds, Rows, WorkDayInv, TypeOK, Session
  <2>3. sessions[i].end < q.x /\ q.x <= LatestEnd(sessions[i])
    BY <1>1, <2>1, <2>2, CloseAssumption DEF Extendable, Request, Times
  <2>4. \A h \in Handlers \ {r} : requests'[h] = requests[h]
    BY <2>1 DEF WorkDayInv, TypeOK
  <2>5. /\ requests'[r].pc = "extend" /\ requests'[r].sess = i
        /\ requests'[r].at = sessions[i].end /\ requests'[r].x = q.x
    BY <1>1, <2>1 DEF WorkDayInv, TypeOK, Request
  <2>6. i \in Rows' /\ LatestEnd(sessions'[i]) = LatestEnd(sessions[i])
    BY <2>2, KeepsRows DEF WorkDayInv
  <2>7. PlanHolds(requests[r])'
    BY <2>2, <2>3, <2>5, <2>6 DEF PlanHolds, LatestEnd
  <2> QED
    BY <2>4, <2>7, PlansAfter
<1> QED
  BY <1>2, <1>3 DEF JudgeSample

(* An older sample carries the start it will give the day it opens. *)
LEMMA FindLoginPlans ==
  ASSUME WorkDayInv, LedgerNext \/ UNCHANGED sessions, NEW r \in Handlers, FindLogin(r)
  PROVE  PlansHold'
<1> DEFINE q == requests[r]
<1>1. q \in Request /\ q.op = "sample"
  BY AtType DEF FindLogin, WorkDayInv, At
<1>2. CASE Goto(r, "mark")
  BY <1>1, <1>2, NothingPlanned
<1>3. CASE \E t \in Times :
             requests' = [requests EXCEPT ![r] = [@ EXCEPT !.pc = "act", !.at = t]]
  <2>1. PICK t \in Times :
          requests' = [requests EXCEPT ![r] = [@ EXCEPT !.pc = "act", !.at = t]]
    BY <1>3
  <2>2. \A h \in Handlers \ {r} : requests'[h] = requests[h]
    BY <2>1 DEF WorkDayInv, TypeOK
  <2>3. requests'[r].pc = "act" /\ requests'[r].op = "sample"
    BY <1>1, <2>1 DEF WorkDayInv, TypeOK, Request
  <2>4. PlanHolds(requests[r])'
    BY <2>3 DEF PlanHolds
  <2> QED
    BY <2>2, <2>4, PlansAfter
<1> QED
  BY <1>2, <1>3 DEF FindLogin

LEMMA PlansStep ==
  ASSUME WorkDayInv, Next
  PROVE  PlansHold'
<1>1. LedgerNext \/ UNCHANGED sessions
  BY StepRefines
<1>2. CASE Tick
  BY <1>2 DEF Tick, WorkDayInv, PlansHold, PlanHolds, Rows, LatestEnd
<1>3. CASE \E r \in Handlers : Handle(r)
  BY <1>1, <1>3, QuietPlans, StatusPlans, JudgeSamplePlans, FindLoginPlans DEF Handle
<1> QED
  BY <1>2, <1>3, ArrivalPlans DEF Next

-----------------------------------------------------------------------------
(* Theorems *)

LEMMA WorkDayInvInit == Init => WorkDayInv
<1> SUFFICES ASSUME Init PROVE WorkDayInv
  OBVIOUS
<1>1. TypeOK
  BY CloseAssumption DEF Init, TypeOK, Times
<1>2. PlansHold
  BY DEF Init, PlansHold
<1>3. LedgerInv
  BY NoneAssumption DEF Init, LedgerInv, LedgerTypeOK, OneOpen, ClosesWithinLimits,
     OpenIds, ClosedIds, Rows
<1> QED
  BY <1>1, <1>2, <1>3 DEF WorkDayInv

LEMMA WorkDayInvStep == WorkDayInv /\ [Next]_vars => WorkDayInv'
<1> SUFFICES ASSUME WorkDayInv, [Next]_vars PROVE WorkDayInv'
  OBVIOUS
<1>1. CASE Next
  <2>1. LedgerInv'
    <3>1. CASE LedgerNext
      BY <3>1, LedgerStep, RewriteKeepsInv DEF WorkDayInv
    <3>2. CASE UNCHANGED sessions
      BY <3>2 DEF WorkDayInv, LedgerInv, LedgerTypeOK, OneOpen, ClosesWithinLimits,
         OpenIds, ClosedIds, Rows, LatestEnd
    <3> QED
      BY <1>1, <3>1, <3>2, StepRefines
  <2> QED
    BY <1>1, <2>1, TypeStep, PlansStep DEF WorkDayInv, LedgerInv
<1>2. CASE UNCHANGED vars
  BY <1>2 DEF vars, WorkDayInv, TypeOK, PlansHold, PlanHolds, LedgerInv, LedgerTypeOK,
     OneOpen, ClosesWithinLimits, OpenIds, ClosedIds, Rows, LatestEnd
<1> QED
  BY <1>1, <1>2

LEMMA WorkDayInvariant == Spec => []WorkDayInv
  BY WorkDayInvInit, WorkDayInvStep, PTL DEF Spec

(* Every table and every request in flight keeps its type. *)
THEOREM WorkDayTypes == Spec => []TypeOK
  BY WorkDayInvariant, PTL DEF WorkDayInv

(* What a handler read before the person's lock (the stale session of        *)
(* autoCloseIfStale, the automatic close extendAutoClosed will move) is      *)
(* still usable when it has the lock, however many handlers committed        *)
(* in between.                                                               *)
THEOREM WorkDayPlans == Spec => []PlansHold
  BY WorkDayInvariant, PTL DEF WorkDayInv

(* The handlers and the job together implement the promise of the session    *)
(* table: each of their transactions is one step of it.                      *)
THEOREM WorkDayImplementsLedger == Spec => LedgerSpec
<1>1. Init => LedgerInit
  BY DEF Init, LedgerInit
<1>2. WorkDayInv /\ [Next]_vars => [LedgerNext]_sessions
  BY StepRefines DEF vars
<1> QED
  BY <1>1, <1>2, WorkDayInvariant, PTL DEF Spec, LedgerSpec

(* Whatever races, the person never has two open work sessions. *)
THEOREM WorkDayOneOpen == Spec => []OneOpen
  BY WorkDayImplementsLedger, LedgerOneOpen, PTL

(* No session ends before its start, and no automatic close, nor a move of   *)
(* one, goes past the session's latest end.                                  *)
THEOREM WorkDayLimits == Spec => []ClosesWithinLimits
  BY WorkDayImplementsLedger, LedgerLimits, PTL

(* No handler takes time back from a closed session. *)
THEOREM WorkDayForward == Spec => ClosedMovesOnlyForward
  BY WorkDayImplementsLedger, LedgerForward, PTL

(* What the handlers store and what they plan before the person's lock stays *)
(* within the session's limits (autoCloseAt, closeStale, extendAutoClosed).  *)
THEOREM WorkDaySessionsHold == Spec => []SessionsHold
  BY WorkDayLimits, WorkDayPlans, PTL DEF SessionsHold

-----------------------------------------------------------------------------
(* Marks: the day a session is dated by was a working day before it began    *)

(* A request keeps the clock it came with; the start FindLogin plans is of   *)
(* the working day it will open; and a session is dated by the working day   *)
(* of some moment no later than its start.                                   *)
ClockHolds(q) ==
  /\ q.now <= clock /\ q.x <= q.now
  /\ q.op = "sample" /\ q.pc = "act" =>
       q.at \in Times /\ q.at <= q.now /\ ShiftDay[q.at] = ShiftDay[q.now]
ClocksHold == \A h \in Handlers : requests[h] # None => ClockHolds(requests[h])
DatesHold ==
  \A i \in Rows : \E u \in Times : u <= sessions[i].start /\ ShiftDay[u] = sessions[i].date

MarksInv == WorkDayInv /\ ClocksHold /\ DatesHold

(* createSessionTx begins a session no sooner than it is asked to, and no    *)
(* later than the clock it is given.                                         *)
LEMMA StartsNoSooner ==
  ASSUME NEW x \in Times, NEW now \in Times, NEW t, StartsAt(x, now, t)
  PROVE  /\ t \in Times /\ t <= now
         /\ x <= now => x <= t
<1>1. PICK u \in Times : IsLatest({x} \cup {sessions[i].end : i \in ClosedIds}, u)
                         /\ t = AtMost(u, now)
  BY DEF StartsAt
<1>2. x <= u
  BY <1>1 DEF IsLatest
<1> QED
  BY <1>1, <1>2, CloseAssumption DEF AtMost, Times

(* What a handler does to the requests: its own is answered, or goes on with *)
(* the clock and the instant it came with.                                   *)
Carries(r) ==
  /\ \A h \in Handlers \ {r} : requests'[h] = requests[h]
  /\ \/ requests'[r] = None
     \/ /\ requests'[r].op = requests[r].op
        /\ requests'[r].now = requests[r].now /\ requests'[r].x = requests[r].x
        /\ requests'[r].op = "sample" => requests'[r].pc # "act"

LEMMA MovesOn ==
  ASSUME TypeOK, NEW r \in Handlers, requests[r] \in Request,
         \/ Done(r)
         \/ \E pc \in {"judge", "mark", "store"} : Goto(r, pc)
         \/ requests[r].op # "sample" /\ Goto(r, "act")
         \/ \E day \in Days : /\ requests[r].op # "sample"
                              /\ requests' = [requests EXCEPT ![r] =
                                                [@ EXCEPT !.pc = "act", !.day = day]]
         \/ \E i \in SessionIds :
              requests' = [requests EXCEPT ![r] =
                 [@ EXCEPT !.pc = "extend", !.sess = i,
                           !.at = sessions[i].end, !.open = DayIsOpen]]
  PROVE  Carries(r)
<1>1. CASE Done(r)
  BY <1>1 DEF Done, Carries, TypeOK
<1>2. ASSUME NEW pc \in {"judge", "mark", "store"}, Goto(r, pc)
      PROVE  Carries(r)
  BY <1>2 DEF Goto, Carries, TypeOK, Request
<1>3. CASE requests[r].op # "sample" /\ Goto(r, "act")
  BY <1>3 DEF Goto, Carries, TypeOK, Request
<1>4. ASSUME NEW day \in Days, requests[r].op # "sample",
             requests' = [requests EXCEPT ![r] = [@ EXCEPT !.pc = "act", !.day = day]]
      PROVE  Carries(r)
  BY <1>4 DEF Carries, TypeOK, Request
<1>5. ASSUME NEW i \in SessionIds,
             requests' = [requests EXCEPT ![r] =
                 [@ EXCEPT !.pc = "extend", !.sess = i,
                           !.at = sessions[i].end, !.open = DayIsOpen]]
      PROVE  Carries(r)
  BY <1>5 DEF Carries, TypeOK, Request
<1> QED
  BY <1>1, <1>2, <1>3, <1>4, <1>5

LEMMA HandlersCarry ==
  ASSUME WorkDayInv, NEW r \in Handlers, Handle(r), ~FindLogin(r)
  PROVE  Carries(r)
<1>1. TypeOK
  BY DEF WorkDayInv
<1>2. CASE CloseStale(r) \/ StartDay(r) \/ JudgeEnd(r) \/ EndDay(r) \/ SwitchStatus(r)
  <2>1. requests[r] \in Request /\ (JudgeEnd(r) => requests[r].op = "end")
    BY <1>1, <1>2, AtType DEF CloseStale, StartDay, JudgeEnd, EndDay, SwitchStatus, At
  <2>2. \/ Done(r) \/ Goto(r, "judge")
        \/ JudgeEnd(r) /\ Goto(r, "act")
    BY <1>2 DEF CloseStale, StartDay, JudgeEnd, EndDay, SwitchStatus
  <2> QED
    BY <1>1, <2>1, <2>2, MovesOn
<1>3. CASE EnsureOpen(r) \/ FindEndForStatus(r)
  <2>1. requests[r] \in Request /\ requests[r].op # "sample"
    BY <1>1, <1>3, AtType DEF EnsureOpen, FindEndForStatus, At
  <2>2. \A i \in OpenIds : sessions[i].date \in Days
    BY <1>1 DEF OpenIds, Rows, TypeOK, Session
  <2>3. CalendarDay[requests[r].now] \in Days
    BY <2>1, ClockAssumption DEF Request
  <2>4. \/ Done(r)
        \/ \E day \in Days :
             requests' = [requests EXCEPT ![r] = [@ EXCEPT !.pc = "act", !.day = day]]
    BY <1>3, <2>2, <2>3 DEF EnsureOpen, FindEndForStatus
  <2> QED
    BY <1>1, <2>1, <2>4, MovesOn
<1>4. CASE JudgeSample(r)
  <2>1. requests[r] \in Request
    BY <1>1, <1>4, AtType DEF JudgeSample
  <2>2. \/ Done(r) \/ Goto(r, "mark")
        \/ \E i \in SessionIds :
              requests' = [requests EXCEPT ![r] =
                 [@ EXCEPT !.pc = "extend", !.sess = i,
                           !.at = sessions[i].end, !.open = DayIsOpen]]
    BY <1>4 DEF JudgeSample
  <2> QED
    BY <1>1, <2>1, <2>2, MovesOn
<1>5. CASE ExtendAutoClosed(r) \/ OpenImplicit(r) \/ FindEnd(r) \/ Store(r)
  <2>1. requests[r] \in Request
    BY <1>1, <1>5, AtType DEF ExtendAutoClosed, OpenImplicit, FindEnd, Store
  <2>2. Done(r) \/ \E pc \in {"judge", "mark", "store"} : Goto(r, pc)
    BY <1>5 DEF ExtendAutoClosed, OpenImplicit, FindEnd, Store
  <2> QED
    BY <1>1, <2>1, <2>2, MovesOn
<1> QED
  BY <1>2, <1>3, <1>4, <1>5 DEF Handle

LEMMA CarriedClocks ==
  ASSUME MarksInv, NEW r \in Handlers, requests[r] # None, Carries(r), clock' = clock
  PROVE  ClocksHold'
<1> SUFFICES ASSUME NEW h \in Handlers', requests'[h] # None
             PROVE  ClockHolds(requests[h])'
  BY DEF ClocksHold
<1>1. h \in Handlers
  BY DEF Handlers
<1>2. CASE h = r
  BY <1>2 DEF MarksInv, ClocksHold, ClockHolds, Carries
<1>3. CASE h # r
  BY <1>1, <1>3 DEF MarksInv, ClocksHold, ClockHolds, Carries
<1> QED
  BY <1>2, <1>3

(* openImplicitForSample: the first login known for the working day, or the  *)
(* sample, or a little before now; all of the working day of now.            *)
LEMMA FindLoginClocks ==
  ASSUME MarksInv, NEW r \in Handlers, FindLogin(r)
  PROVE  ClocksHold'
<1> DEFINE q == requests[r]
           today == ShiftDay[q.now]
<1>1. /\ TypeOK /\ q \in Request /\ q # None
      /\ q.now \in Times /\ q.x \in Times /\ q.now <= clock /\ q.x <= q.now
  BY AtType DEF FindLogin, MarksInv, WorkDayInv, ClocksHold, ClockHolds, Request
<1>2. CASE Goto(r, "mark")
  <2>1. Carries(r)
    BY <1>1, <1>2, MovesOn
  <2> QED
    BY <1>1, <2>1, CarriedClocks DEF FindLogin
<1>3. CASE ShiftDay[q.x] = today /\ ~Goto(r, "mark")
  <2> DEFINE logins == {login[d] : d \in {e \in {today, CalendarDay[q.now]} : login[e] # None}}
             known == {t \in logins : t <= q.now /\ ShiftDay[t] = today}
  <2>1. PICK t \in Times :
          /\ IF known = {} THEN t = (IF q.x + Backdate < q.now THEN q.now - Backdate ELSE q.x)
             ELSE t \in known /\ \A u \in known : t <= u
          /\ requests' = [requests EXCEPT ![r] = [@ EXCEPT !.pc = "act", !.at = t]]
    BY <1>3 DEF FindLogin
  <2>2. t <= q.now /\ ShiftDay[t] = today
    <3>1. CASE known # {}
      BY <2>1, <3>1
    <3>2. CASE known = {}
      <4>1. q.x <= t /\ t <= q.now
        BY <1>1, <2>1, <3>2, ClockAssumption, CloseAssumption DEF Times
      <4>2. ShiftDay[t] = ShiftDay[q.x]
        BY <1>1, <1>3, <4>1, DaysAssumption
      <4> QED
        BY <1>3, <4>1, <4>2
    <3> QED
      BY <3>1, <3>2
  <2> HIDE DEF known
  <2>3. /\ \A h \in Handlers \ {r} : requests'[h] = requests[h]
        /\ requests'[r].now = q.now /\ requests'[r].x = q.x /\ requests'[r].at = t
    BY <1>1, <2>1 DEF TypeOK, Request
  <2>4. ClockHolds(requests[r])'
    BY <1>1, <2>2, <2>3 DEF ClockHolds, FindLogin
  <2> SUFFICES ASSUME NEW h \in Handlers', requests'[h] # None
               PROVE  ClockHolds(requests[h])'
    BY DEF ClocksHold
  <2>5. CASE h # r
    <3>1. h \in Handlers /\ clock' = clock
      BY DEF Handlers, FindLogin
    <3> QED
      BY <2>3, <2>5, <3>1 DEF MarksInv, ClocksHold, ClockHolds
  <2> QED
    BY <2>4, <2>5
<1> QED
  BY <1>2, <1>3 DEF FindLogin

(* What a transaction does to the table: every row keeps its day and start,  *)
(* and a row it adds is dated by a working day at or before its start.       *)
Dated(date, t) == \E u \in Times : u <= t /\ ShiftDay[u] = date

LEMMA CreatedIsSession ==
  ASSUME NEW t \in Times, NEW date \in Days, NEW source \in Sources
  PROVE  NewSession(date, t, source) # None
  BY NoneAssumption DEF NewSession, Session

LEMMA CreatedIsDated ==
  ASSUME MarksInv, NEW t \in Times, NEW date \in Days, NEW source \in Sources,
         Dated(date, t), Create(t, date, source)
  PROVE  /\ DatesHold'
         /\ \E i \in SessionIds : /\ sessions'[i].date = date /\ sessions'[i].start = t
                                  /\ i \in OpenIds'
<1>1. PICK i \in SessionIds \ Rows :
        sessions' = [sessions EXCEPT ![i] = NewSession(date, t, source)]
  BY DEF Create
<1>2. /\ sessions'[i] = NewSession(date, t, source)
      /\ \A j \in SessionIds \ {i} : sessions'[j] = sessions[j]
  BY <1>1 DEF MarksInv, WorkDayInv, TypeOK
<1>3. /\ sessions'[i].date = date /\ sessions'[i].start = t /\ sessions'[i].end = None
  BY <1>2 DEF NewSession
<1>4. sessions'[i] # None
  BY <1>1, <1>2, CreatedIsSession
<1>5. i \in OpenIds'
  BY <1>3, <1>4 DEF OpenIds, Rows
<1>6. DatesHold'
  <2> SUFFICES ASSUME NEW j \in Rows'
               PROVE  \E u \in Times : u <= sessions'[j].start /\ ShiftDay[u] = sessions'[j].date
    BY DEF DatesHold
  <2>1. CASE j = i
    BY <1>3, <2>1 DEF Dated
  <2>2. CASE j # i
    <3>1. j \in Rows /\ sessions'[j] = sessions[j]
      BY <1>2, <2>2 DEF Rows
    <3> QED
      BY <3>1 DEF MarksInv, DatesHold
  <2> QED
    BY <2>1, <2>2
<1> QED
  BY <1>3, <1>5, <1>6

(* Of one row, everything but the day and the start may be written. *)
LEMMA RewrittenIsDated ==
  ASSUME MarksInv, NEW i \in Rows, NEW s \in Session,
         s.date = sessions[i].date, s.start = sessions[i].start,
         sessions' = [sessions EXCEPT ![i] = s]
  PROVE  DatesHold'
<1>1. \A j \in Rows' : /\ j \in Rows
                       /\ sessions'[j].date = sessions[j].date
                       /\ sessions'[j].start = sessions[j].start
  BY DEF MarksInv, WorkDayInv, TypeOK, Rows
<1> QED
  BY <1>1 DEF MarksInv, DatesHold

LEMMA SameTableIsDated ==
  ASSUME MarksInv, UNCHANGED sessions
  PROVE  DatesHold'
  BY DEF MarksInv, DatesHold, Rows

(* What a step owes to the marks. *)
MarksStand ==
  \A d \in Days : (dayEnd[d] # None /\ dayEnd'[d] # None) => dayEnd[d] <= dayEnd'[d]
MarksKept == CloseMarksItsDay /\ UnmarkedOnlyToWork /\ MarksStand

(* A session that is over is known by dates of the calendar. *)
LEMMA ReadAsDays ==
  ASSUME NEW s \in Session, s.end \in Times
  PROVE  ReadAs(s) \subseteq Days
  BY ClockAssumption DEF ReadAs, Session

LEMMA ClosedReadAsDays ==
  ASSUME MarksInv, NEW i \in ClosedIds
  PROVE  ReadAs(sessions[i]) \subseteq Days
<1>1. sessions[i] \in Session /\ sessions[i].end \in Times
  BY DEF ClosedIds, OpenIds, Rows, MarksInv, WorkDayInv, TypeOK, Session
<1> QED
  BY <1>1, ReadAsDays

(* markDayEnded takes no mark away and moves none. *)
LEMMA MarkedOnly ==
  ASSUME MarksInv,
         \/ UNCHANGED dayEnd
         \/ \E t \in Times : \E ds : dayEnd' = MarkEnded(ds, t)
  PROVE  UnmarkedOnlyToWork /\ MarksStand
<1>1. \A d \in Days : dayEnd[d] # None => dayEnd'[d] = dayEnd[d]
  BY DEF MarkEnded
<1>2. \A d \in Days : dayEnd[d] # None => dayEnd[d] \in Nat
  BY DEF MarksInv, WorkDayInv, TypeOK, Times
<1>3. \A i \in ClosedIds : ReadAs(sessions[i]) \subseteq Days
  BY ClosedReadAsDays
<1>4. UnmarkedOnlyToWork
  BY <1>1, <1>3 DEF UnmarkedOnlyToWork
<1> QED
  BY <1>1, <1>2, <1>4 DEF MarksStand

(* A step that closes nothing has no day to mark. *)
LEMMA NothingCloses ==
  ASSUME \A i \in OpenIds : i \in SessionIds /\ sessions'[i] = sessions[i]
  PROVE  CloseMarksItsDay
  BY DEF CloseMarksItsDay, ClosedIds, OpenIds, Rows

(* A close in the table writes an end over an open row of the same day; the  *)
(* marks it sets are those of the dates the row is then known by.            *)
LEMMA CloseMarks ==
  ASSUME MarksInv, NEW i \in OpenIds, NEW t \in Times, NEW why \in {"USER", "AUTO_CLOSED"},
         Close(i, t, why), NEW ds, sessions[i].date \in ds, dayEnd' = MarkEnded(ds, t),
         (why = "USER" /\ sessions[i].start < t) => CalendarDay[t] \in ds
  PROVE  DatesHold' /\ MarksKept
<1> DEFINE s == [sessions[i] EXCEPT !.end = t, !.reason = why]
<1>1. i \in Rows /\ i \in SessionIds /\ sessions[i] \in Session
  BY DEF OpenIds, Rows, MarksInv, WorkDayInv, TypeOK
<1>2. /\ s \in Session /\ s.date = sessions[i].date /\ s.start = sessions[i].start
      /\ s.end = t /\ s.reason = why
  BY <1>1 DEF Session
<1>3. sessions' = [sessions EXCEPT ![i] = s] /\ sessions'[i] = s
  BY <1>1 DEF Close, MarksInv, WorkDayInv, TypeOK
<1> HIDE DEF s
<1>4. DatesHold'
  BY <1>1, <1>2, <1>3, RewrittenIsDated
<1>5. \A d \in ReadAs(s) : dayEnd'[d] # None
  <2>1. ReadAs(s) \subseteq Days
    BY <1>2, ReadAsDays
  <2>2. ReadAs(s) \subseteq ds
    BY <1>2 DEF ReadAs
  <2>3. t # None
    BY NoneAssumption DEF Times
  <2> QED
    BY <2>1, <2>2, <2>3 DEF MarkEnded
<1>6. CloseMarksItsDay
  <2> SUFFICES ASSUME NEW j \in OpenIds, j \in ClosedIds'
               PROVE  \A d \in ReadAs(sessions'[j]) : dayEnd'[d] # None
    BY DEF CloseMarksItsDay
  <2>1. CASE j = i
    BY <1>3, <1>5, <2>1
  <2>2. CASE j # i
    <3>1. i = j
      BY <1>1 DEF MarksInv, WorkDayInv, LedgerInv, OneOpen
    <3> QED
      BY <2>2, <3>1
  <2> QED
    BY <2>1, <2>2
<1> QED
  BY <1>4, <1>6, MarkedOnly DEF MarksKept

LEMMA CloseStaleMarks ==
  ASSUME MarksInv, NEW r \in Handlers, CloseStale(r)
  PROVE  DatesHold' /\ MarksKept
<1> DEFINE q == requests[r]
           s == sessions[q.sess]
           t == AtLeast(q.at, s.start)
<1>1. q \in Request /\ q # None /\ q.pc = "close"
  BY AtType DEF CloseStale, MarksInv, WorkDayInv
<1>2. q.sess \in Rows /\ q.at \in Times
  BY <1>1 DEF MarksInv, WorkDayInv, PlansHold, PlanHolds
<1>3. t \in Times
  BY <1>2 DEF MarksInv, WorkDayInv, TypeOK, Rows, Session, AtLeast
<1>4. CASE /\ q.sess \in OpenIds /\ Close(q.sess, t, "AUTO_CLOSED")
           /\ dayEnd' = MarkEnded({s.date}, t)
  BY <1>3, <1>4, CloseMarks
<1>5. CASE UNCHANGED <<sessions, dayEnd>>
  <2>1. CloseMarksItsDay
    BY <1>5, NothingCloses DEF OpenIds, Rows
  <2> QED
    BY <1>5, <2>1, SameTableIsDated, MarkedOnly DEF MarksKept
<1> QED
  BY <1>4, <1>5 DEF CloseStale

LEMMA EndDayMarks ==
  ASSUME MarksInv, NEW r \in Handlers, EndDay(r)
  PROVE  DatesHold' /\ MarksKept
<1> DEFINE q == requests[r]
<1>1. q \in Request /\ q.now \in Times
  BY AtType DEF EndDay, MarksInv, WorkDayInv, Request
<1>2. ASSUME NEW i \in OpenIds, EndOpenDay(r, i)
      PROVE  DatesHold' /\ MarksKept
  <2> DEFINE t == AtLeast(q.now, sessions[i].start)
             ds == {sessions[i].date, ShiftDay[q.now], CalendarDay[q.now]}
  <2>1. t \in Times
    BY <1>1 DEF AtLeast, MarksInv, WorkDayInv, TypeOK, OpenIds, Rows, Session
  <2>2. Close(i, t, "USER") /\ dayEnd' = MarkEnded(ds, t)
    BY <1>2 DEF EndOpenDay
  <2>3. sessions[i].date \in ds
    OBVIOUS
  <2>4. sessions[i].start < t => CalendarDay[t] \in ds
    <3>1. sessions[i].start \in Nat /\ q.now \in Nat
      BY <1>1, CloseAssumption
         DEF MarksInv, WorkDayInv, TypeOK, OpenIds, Rows, Session, Times
    <3>2. sessions[i].start < t => t = q.now
      BY <3>1 DEF AtLeast
    <3> QED
      BY <3>2
  <2> HIDE DEF t, ds
  <2> QED
    BY <2>1, <2>2, <2>3, <2>4, CloseMarks
<1>3. CASE EndClosedDay(r)
  <2>1. UNCHANGED sessions
    BY <1>3 DEF EndClosedDay
  <2>2. \/ UNCHANGED dayEnd
        \/ \E t \in Times : \E ds : dayEnd' = MarkEnded(ds, t)
    BY <1>1, <1>3 DEF EndClosedDay
  <2>3. CloseMarksItsDay
    BY <2>1, NothingCloses DEF OpenIds, Rows
  <2> QED
    BY <2>1, <2>2, <2>3, SameTableIsDated, MarkedOnly DEF MarksKept
<1> QED
  BY <1>2, <1>3 DEF EndDay

(* startDay takes the marks of two days: the one it opens, and the calendar  *)
(* day of its clock, which the new session has then run on.                  *)
LEMMA StartDayMarks ==
  ASSUME MarksInv, NEW r \in Handlers, StartDay(r)
  PROVE  DatesHold' /\ MarksKept
<1> DEFINE q == requests[r]
<1>1. /\ q \in Request /\ q # None
      /\ q.now \in Times /\ q.x \in Times /\ q.x <= q.now /\ q.now <= clock
  BY AtType DEF StartDay, MarksInv, WorkDayInv, Request, ClocksHold, ClockHolds
<1>2. CASE UNCHANGED <<sessions, dayEnd>>
  <2>1. CloseMarksItsDay
    BY <1>2, NothingCloses DEF OpenIds, Rows
  <2> QED
    BY <1>2, <2>1, SameTableIsDated, MarkedOnly DEF MarksKept
<1>3. CASE ~DayIsOpen
  <2>1. PICK t \in Times :
          /\ StartsAt(q.x, q.now, t)
          /\ Create(t, ShiftDay[t], SourceOf(q))
          /\ dayEnd' = MarkCleared({ShiftDay[t], CalendarDay[q.now]})
    BY <1>3 DEF StartDay
  <2>2. t <= q.now
    BY <1>1, <2>1, StartsNoSooner
  <2>3. ShiftDay[t] \in Days /\ SourceOf(q) \in Sources /\ Dated(ShiftDay[t], t)
    BY <1>1, ClockAssumption, CloseAssumption DEF SourceOf, Sources, Dated, Times
  <2>4. /\ DatesHold'
        /\ \E j \in SessionIds : /\ sessions'[j].date = ShiftDay[t] /\ sessions'[j].start = t
                                 /\ j \in OpenIds'
    BY <2>1, <2>3, CreatedIsDated
  <2>5. PICK j \in OpenIds' : sessions'[j].date = ShiftDay[t] /\ sessions'[j].start = t
    BY <2>4
  <2>6. UnmarkedOnlyToWork
    <3> SUFFICES ASSUME NEW i \in ClosedIds, NEW d \in ReadAs(sessions[i]),
                        dayEnd[d] # None, dayEnd'[d] = None
                 PROVE  d \in {ShiftDay[t], CalendarDay[q.now]}
      <4>1. j \in OpenIds' \ OpenIds
        BY <1>3, <2>5 DEF DayIsOpen
      <4>2. \E u \in Times : sessions'[j].start <= u /\ u <= clock /\ CalendarDay[u] = CalendarDay[q.now]
        BY <1>1, <2>2, <2>5
      <4> QED
        BY <2>5, <4>1, <4>2 DEF UnmarkedOnlyToWork
    <3>1. d \in Days
      BY ClosedReadAsDays
    <3> QED
      BY <2>1, <3>1 DEF MarkCleared
  <2>7. MarksStand
    <3>1. \A d \in Days : dayEnd'[d] # None => dayEnd'[d] = dayEnd[d]
      BY <2>1 DEF MarkCleared
    <3> QED
      BY <3>1, CloseAssumption DEF MarksStand, MarksInv, WorkDayInv, TypeOK, Times
  <2>8. CloseMarksItsDay
    BY <1>3 DEF DayIsOpen, CloseMarksItsDay
  <2> QED
    BY <2>4, <2>6, <2>7, <2>8 DEF MarksKept
<1> QED
  BY <1>2, <1>3 DEF StartDay

(* The implicit starts take no mark. *)
LEMMA ImplicitStartMarks ==
  ASSUME MarksInv, NEW r \in Handlers, EnsureOpen(r) \/ OpenImplicit(r)
  PROVE  DatesHold' /\ MarksKept
<1> DEFINE q == requests[r]
<1>1. /\ q \in Request /\ q # None /\ q.now \in Times /\ q.now <= clock /\ clock \in Times
      /\ ShiftDay[q.now] \in Days
  BY AtType, ClockAssumption
     DEF EnsureOpen, OpenImplicit, MarksInv, WorkDayInv, TypeOK, Request, ClocksHold, ClockHolds
<1>2. UNCHANGED dayEnd
  BY DEF EnsureOpen, OpenImplicit
<1>3. CASE UNCHANGED sessions
  <2>1. CloseMarksItsDay
    BY <1>3, NothingCloses DEF OpenIds, Rows
  <2> QED
    BY <1>2, <1>3, <2>1, SameTableIsDated, MarkedOnly DEF MarksKept
<1>4. ASSUME NEW t \in Times, ~DayIsOpen, Create(t, ShiftDay[q.now], "LEGACY"),
             Dated(ShiftDay[q.now], t)
      PROVE  DatesHold' /\ MarksKept
  <2>1. DatesHold'
    BY <1>1, <1>4, CreatedIsDated DEF Sources
  <2>2. CloseMarksItsDay
    BY <1>4 DEF DayIsOpen, CloseMarksItsDay
  <2> QED
    BY <1>2, <2>1, <2>2, MarkedOnly DEF MarksKept
<1>5. CASE EnsureOpen(r) /\ ~UNCHANGED sessions
  <2>1. PICK t \in Times : /\ ~DayIsOpen /\ StartsAt(q.now, q.now, t)
                           /\ Create(t, ShiftDay[q.now], "LEGACY")
    BY <1>5 DEF EnsureOpen
  <2>2. q.now <= t
    BY <1>1, <2>1, StartsNoSooner, CloseAssumption DEF Times
  <2> QED
    BY <1>1, <1>4, <2>1, <2>2 DEF Dated
<1>6. CASE OpenImplicit(r) /\ ~UNCHANGED sessions
  <2>1. PICK t \in Times : /\ ~DayIsOpen /\ StartsAt(q.at, clock, t)
                           /\ Create(t, ShiftDay[q.now], "LEGACY")
    BY <1>6 DEF OpenImplicit
  <2>2. q.at \in Times /\ q.at <= q.now /\ ShiftDay[q.at] = ShiftDay[q.now]
    BY <1>1, <1>6 DEF OpenImplicit, At, MarksInv, ClocksHold, ClockHolds
  <2>3. q.at <= t
    BY <1>1, <2>1, <2>2, StartsNoSooner, CloseAssumption DEF Times
  <2> QED
    BY <1>4, <2>1, <2>2, <2>3 DEF Dated
<1> QED
  BY <1>3, <1>5, <1>6

(* A late sample moves the mark with the automatic close, later. *)
LEMMA ExtendMarks ==
  ASSUME MarksInv, NEW r \in Handlers, ExtendAutoClosed(r)
  PROVE  DatesHold' /\ MarksKept
<1> DEFINE q == requests[r]
           old == sessions[q.sess]
           s == [old EXCEPT !.end = q.x, !.source = "REPLAY"]
<1>1. q \in Request /\ q # None /\ q.pc = "extend" /\ q.x \in Times /\ q.x # None
  BY AtType, NoneAssumption DEF ExtendAutoClosed, MarksInv, WorkDayInv, Request, Times
<1>2. q.sess \in Rows /\ q.at \in Times /\ q.at < q.x /\ old \in Session
  BY <1>1 DEF MarksInv, WorkDayInv, TypeOK, PlansHold, PlanHolds, Rows
<1>3. CASE UNCHANGED <<sessions, dayEnd>>
  <2>1. CloseMarksItsDay
    BY <1>3, NothingCloses DEF OpenIds, Rows
  <2> QED
    BY <1>3, <2>1, SameTableIsDated, MarkedOnly DEF MarksKept
<1>4. CASE /\ old.end = q.at
           /\ sessions' = [sessions EXCEPT ![q.sess] = [@ EXCEPT !.end = q.x, !.source = "REPLAY"]]
           /\ dayEnd' = [dayEnd EXCEPT ![old.date] = IF @ = q.at THEN q.x ELSE @]
  <2>1. s \in Session /\ s.date = old.date /\ s.start = old.start
    BY <1>1, <1>2 DEF Session, Sources
  <2>2. DatesHold'
    BY <1>2, <1>4, <2>1, RewrittenIsDated
  <2>3. q.sess \notin OpenIds
    BY <1>2, <1>4, NoneAssumption DEF OpenIds, Times
  <2>4. CloseMarksItsDay
    BY <1>4, <2>3, NothingCloses DEF OpenIds, Rows, MarksInv, WorkDayInv, TypeOK
  <2>5. /\ old.date \in Days /\ dayEnd \in [Days -> Times \cup {None}]
        /\ \A d \in Days : \/ dayEnd'[d] = dayEnd[d]
                           \/ dayEnd[d] = q.at /\ dayEnd'[d] = q.x
    BY <1>2, <1>4 DEF Session, MarksInv, WorkDayInv, TypeOK
  <2>6. MarksStand
    BY <1>1, <1>2, <2>5, CloseAssumption DEF MarksStand, Times
  <2>7. \A d \in Days : dayEnd[d] # None => dayEnd'[d] # None
    BY <1>1, <2>5
  <2>8. UnmarkedOnlyToWork
    BY <2>7, ClosedReadAsDays DEF UnmarkedOnlyToWork
  <2> QED
    BY <2>2, <2>4, <2>6, <2>8 DEF MarksKept
<1> QED
  BY <1>3, <1>4 DEF ExtendAutoClosed

(* A request is taken up at the present clock.                               *)
LEMMA AcceptClocks ==
  ASSUME MarksInv, NEW r \in Handlers, NEW q \in Request, q.now = clock, q.x <= clock,
         q.pc = "judge", Accept(r, q), clock' = clock
  PROVE  ClocksHold'
<1> DEFINE Taken(n) == n.now = clock /\ n.x = q.x /\ n.pc \in {"judge", "close"}
<1>1. requests \in [Handlers -> Request \cup {None}]
  BY DEF MarksInv, WorkDayInv, TypeOK
<1>2. PICK n : Taken(n) /\ requests' = [requests EXCEPT ![r] = n]
  <2>1. CASE requests' = [requests EXCEPT ![r] = q]
    BY <2>1
  <2>2. ASSUME NEW i \in OpenIds, NEW t \in Times,
               requests' = [requests EXCEPT ![r] =
                              [q EXCEPT !.pc = "close", !.sess = i, !.at = t]]
        PROVE  \E n : Taken(n) /\ requests' = [requests EXCEPT ![r] = n]
    <3>1. Taken([q EXCEPT !.pc = "close", !.sess = i, !.at = t])
      BY DEF Request
    <3> QED
      BY <2>2, <3>1
  <2> QED
    BY <2>1, <2>2 DEF Accept
<1> SUFFICES ASSUME NEW h \in Handlers, requests'[h] # None
             PROVE  ClockHolds(requests[h])'
  BY DEF ClocksHold, Handlers
<1>3. CASE h = r
  BY <1>1, <1>2, <1>3 DEF ClockHolds, MarksInv, WorkDayInv, TypeOK, Times
<1>4. CASE h # r
  BY <1>1, <1>2, <1>4 DEF MarksInv, ClocksHold, ClockHolds
<1> QED
  BY <1>3, <1>4

LEMMA MarksStep ==
  ASSUME MarksInv, Next
  PROVE  ClocksHold' /\ DatesHold' /\ MarksKept
<1>1. ASSUME UNCHANGED <<sessions, dayEnd>>
      PROVE  DatesHold' /\ MarksKept
  <2>1. CloseMarksItsDay
    BY <1>1, NothingCloses DEF OpenIds, Rows
  <2> QED
    BY <1>1, <2>1, SameTableIsDated, MarkedOnly DEF MarksKept
<1>2. CASE Tick
  <2>1. ClocksHold'
    BY <1>2 DEF Tick, MarksInv, WorkDayInv, TypeOK, ClocksHold, ClockHolds, Request, Times,
                Handlers
  <2> QED
    BY <1>1, <1>2, <2>1 DEF Tick
<1>4. CASE JobScan
  <2> DEFINE q == NewRequest("job", "LEGACY", clock, FALSE, clock)
  <2>1. q \in Request /\ q.now = clock /\ q.x <= clock /\ q.pc = "judge"
    <3>1. clock \in Times /\ clock <= clock
      BY CloseAssumption DEF MarksInv, WorkDayInv, TypeOK, Times
    <3>2. q \in Request
      BY <3>1, NewRequestType DEF Ops, Generations
    <3> QED
      BY <3>1, <3>2 DEF NewRequest
  <2> HIDE DEF q
  <2>2. Accept(Job, q) /\ Job \in Handlers /\ UNCHANGED <<clock, sessions, dayEnd>>
    BY <1>4 DEF JobScan, Handlers, q
  <2> QED
    BY <1>1, <2>1, <2>2, AcceptClocks
<1>5. ASSUME NEW r \in Slots, NEW k \in Kinds, NEW x \in Times, Receive(r, k[1], k[2], x)
      PROVE  ClocksHold' /\ DatesHold' /\ MarksKept
  <2> DEFINE q == NewRequest(k[1], k[2], clock, FALSE, x)
  <2>1. q \in Request /\ q.now = clock /\ q.x <= clock /\ q.pc = "judge"
    BY <1>5, NewRequestType, RequestAssumption
       DEF MarksInv, WorkDayInv, TypeOK, NewRequest, Receive
  <2> HIDE DEF q
  <2>2. Accept(r, q) /\ r \in Handlers /\ UNCHANGED <<clock, sessions, dayEnd>>
    BY <1>5 DEF Receive, Handlers, q
  <2> QED
    BY <1>1, <2>1, <2>2, AcceptClocks
<1>6. ASSUME NEW r \in Handlers, Handle(r)
      PROVE  ClocksHold' /\ DatesHold' /\ MarksKept
  <2>1. ClocksHold'
    <3>1. CASE FindLogin(r)
      BY <3>1, FindLoginClocks
    <3>2. CASE ~FindLogin(r)
      <4>1. Carries(r)
        BY <1>6, <3>2, HandlersCarry DEF MarksInv
      <4>2. clock' = clock /\ requests[r] # None
        BY <1>6 DEF Handle, CloseStale, StartDay, JudgeEnd, EndDay, EnsureOpen,
                    FindEndForStatus, SwitchStatus, JudgeSample, ExtendAutoClosed,
                    FindLogin, OpenImplicit, FindEnd, Store, At
      <4> QED
        BY <4>1, <4>2, CarriedClocks
    <3> QED
      BY <3>1, <3>2
  <2>2. CASE JudgeEnd(r) \/ FindEndForStatus(r) \/ SwitchStatus(r) \/ JudgeSample(r)
             \/ FindLogin(r) \/ FindEnd(r) \/ Store(r)
    <3>1. UNCHANGED <<sessions, dayEnd>>
      BY <2>2 DEF JudgeEnd, FindEndForStatus, SwitchStatus, JudgeSample, FindLogin,
                  FindEnd, Store
    <3> QED
      BY <1>1, <2>1, <3>1
  <2> QED
    BY <1>6, <2>1, <2>2, CloseStaleMarks, StartDayMarks, EndDayMarks, ImplicitStartMarks,
       ExtendMarks DEF Handle
<1> QED
  BY <1>2, <1>4, <1>5, <1>6 DEF Next

LEMMA MarksInvariant == Spec => []MarksInv /\ [][MarksKept]_vars
<1>1. Init => MarksInv
  BY WorkDayInvInit DEF MarksInv, ClocksHold, DatesHold, Rows, Init
<1>2. MarksInv /\ [Next]_vars => MarksInv' /\ [MarksKept]_vars
  <2> SUFFICES ASSUME MarksInv, [Next]_vars PROVE MarksInv' /\ [MarksKept]_vars
    OBVIOUS
  <2>1. WorkDayInv'
    BY WorkDayInvStep DEF MarksInv
  <2>2. CASE Next
    BY <2>1, <2>2, MarksStep DEF MarksInv
  <2>3. CASE UNCHANGED vars
    BY <2>1, <2>3 DEF vars, MarksInv, ClocksHold, ClockHolds, DatesHold, Rows
  <2> QED
    BY <2>2, <2>3
<1> QED
  BY <1>1, <1>2, PTL DEF Spec

(* Whatever closes a session marks the date it is kept under, and an End Day *)
(* the calendar day it was pressed on too (markDayEnded); the marks go only  *)
(* when a Start Day opens a session that runs on that date.                  *)
THEOREM WorkDayMarked == Spec => ClosedDayIsMarked
  BY MarksInvariant, PTL DEF ClosedDayIsMarked, MarksKept

(* Neither the closed sessions nor the marks of their days move back,        *)
(* however samples, actions and closes overtake each other.                  *)
THEOREM WorkDayMovesOnlyForward == Spec => MovesOnlyForward
  BY WorkDayForward, MarksInvariant, PTL
     DEF MovesOnlyForward, MarkNeverMovesBack, MarksKept, MarksStand

-----------------------------------------------------------------------------
(* The approval queue: what its invariant is made of *)

QueueTypes ==
  /\ entries \in [Entries -> EntryRow \cup {Nobody}]
  /\ posts \in [Persons -> PostRow]
  /\ heard \in [Entries -> SUBSET (Persons \cup {Chief})]

(* What a run claims or has done, it does to rows that are there. *)
ClaimsHold ==
  /\ \A c \in sla.claims : c.entry \in Entries /\ entries[c.entry] # Nobody
  /\ \A e \in sla.done : \E c \in sla.claims : c.entry = e

(* Of an item that does not wait anew, the run still knows the truth. *)
HoldsTrue(e) == e \notin crossed /\ Waiting(e) => entries[e].left = Overdue
Told(e) == e \notin crossed /\ Waiting(e) => heard[e] # {}

RunHolds ==
  /\ sla.step \in {"escalate", "markEscalated"} => \A c \in sla.claims : HoldsTrue(c.entry)
  /\ sla.step = "markEscalated" => \A e \in sla.done : Told(e)

MarksHold ==
  \A e \in Entries \ crossed :
    Waiting(e) /\ entries[e].escalated => entries[e].left = Overdue /\ heard[e] # {}

(* What waits is stored for whom its owner's place makes it wait, unless the *)
(* event of a move is still to come or was lost.                             *)
RoutesHold ==
  \A e \in Entries :
    Waiting(e) /\ entries[e].owner \notin moved /\ e \notin astray =>
      entries[e].role = Route(entries[e].owner)

QueueInv == QueueTypes /\ ClaimsHold /\ RunHolds /\ MarksHold /\ RoutesHold

-----------------------------------------------------------------------------
(* What the operators of the model return *)

(* BreakApprovalPolicy.route stores one of two roles. *)
LEMMA RouteType == ASSUME NEW p PROVE Route(p) \in {"MANAGER", "ADMIN"}
BY DEF Route

(* slaCandidates claims items that wait, and for the escalation only overdue *)
(* ones.                                                                     *)
LEMMA ClaimsAreDue ==
  ASSUME NEW rows, NEW column, NEW c \in Claims(rows, column)
  PROVE  /\ c.entry \in Entries /\ Waiting(c.entry)
         /\ column = "escalated" => rows[c.entry].left = Overdue
BY DEF Claims, EscalationDue

(* A wait that begins is typed, unmarked and not overdue. *)
LEMMA FreshRow ==
  ASSUME NEW row \in EntryRow, NEW role \in {"MANAGER", "ADMIN"}
  PROVE  /\ NewWait(row, role) \in EntryRow
         /\ NewWait(row, role).escalated = FALSE
         /\ NewWait(row, role).role = role
         /\ NewWait(row, role).owner = row.owner
<1>1. FreshWait(row) \in EntryRow /\ FreshWait(row).escalated = FALSE
      /\ FreshWait(row).owner = row.owner
  <2>1. Sla \in (Overdue .. Sla) \cup {Nobody} BY SlaAssumption DEF Overdue
  <2>. DEFINE r1 == [row EXCEPT !.state = "PENDING"]
              r2 == [r1 EXCEPT !.left = Sla]
              r3 == [r2 EXCEPT !.reminded = FALSE]
              r4 == [r3 EXCEPT !.escalated = FALSE]
  <2>2. r1 \in EntryRow /\ r1.owner = row.owner BY DEF EntryRow
  <2>3. r2 \in EntryRow /\ r2.owner = row.owner
    <3>. HIDE DEF r1
    <3>. QED BY <2>1, <2>2 DEF EntryRow
  <2>4. r3 \in EntryRow /\ r3.owner = row.owner
    <3>. HIDE DEF r2
    <3>. QED BY <2>3 DEF EntryRow
  <2>5. r4 \in EntryRow /\ r4.owner = row.owner /\ r4.escalated = FALSE
    <3>. HIDE DEF r3
    <3>. QED BY <2>4 DEF EntryRow
  <2>. QED BY <2>5 DEF FreshWait
<1>. QED BY <1>1 DEF NewWait, EntryRow

(* A write of one column leaves the others alone. *)
LEMMA OneColumn ==
  ASSUME NEW row \in EntryRow
  PROVE  /\ LET new == [row EXCEPT !.state = "DECIDED"] IN new # Nobody /\ new.state = "DECIDED"
         /\ \A role \in {"MANAGER", "ADMIN"} :
              LET new == [row EXCEPT !.role = role]
              IN  /\ new # Nobody /\ new.state = row.state /\ new.left = row.left
                  /\ new.escalated = row.escalated /\ new.owner = row.owner /\ new.role = role
         /\ \A left \in Overdue .. Sla :
              LET new == [row EXCEPT !.left = left]
              IN  /\ new # Nobody /\ new.state = row.state /\ new.left = left
                  /\ new.escalated = row.escalated /\ new.owner = row.owner
                  /\ new.role = row.role
         /\ LET new == [row EXCEPT !.reminded = TRUE]
            IN  /\ new # Nobody /\ new.state = row.state /\ new.left = row.left
                /\ new.escalated = row.escalated /\ new.owner = row.owner /\ new.role = row.role
         /\ LET new == [row EXCEPT !.escalated = TRUE]
            IN  /\ new # Nobody /\ new.state = row.state /\ new.left = row.left
                /\ new.owner = row.owner /\ new.role = row.role
<1>1. LET new == [row EXCEPT !.state = "DECIDED"] IN new # Nobody /\ new.state = "DECIDED"
  <2>1. [row EXCEPT !.state = "DECIDED"] \in EntryRow BY DEF EntryRow
  <2>2. [row EXCEPT !.state = "DECIDED"].state = "DECIDED" BY DEF EntryRow
  <2>. QED BY <2>1, <2>2, RowAssumption
<1>2. ASSUME NEW role \in {"MANAGER", "ADMIN"}
      PROVE  LET new == [row EXCEPT !.role = role]
             IN  /\ new # Nobody /\ new.state = row.state /\ new.left = row.left
                 /\ new.escalated = row.escalated /\ new.owner = row.owner /\ new.role = role
  <2>1. PICK new : new = [row EXCEPT !.role = role] OBVIOUS
  <2>2. new \in EntryRow BY <2>1 DEF EntryRow
  <2>3. /\ new.state = row.state /\ new.left = row.left
        /\ new.escalated = row.escalated /\ new.owner = row.owner /\ new.role = role
    BY <2>1 DEF EntryRow
  <2>. QED BY <2>1, <2>2, <2>3, RowAssumption
<1>3. ASSUME NEW left \in Overdue .. Sla
      PROVE  LET new == [row EXCEPT !.left = left]
             IN  /\ new # Nobody /\ new.state = row.state /\ new.left = left
                 /\ new.escalated = row.escalated /\ new.owner = row.owner
                 /\ new.role = row.role
  <2>1. PICK new : new = [row EXCEPT !.left = left] OBVIOUS
  <2>2. new \in EntryRow BY <2>1 DEF EntryRow
  <2>3. /\ new.state = row.state /\ new.left = left
        /\ new.escalated = row.escalated /\ new.owner = row.owner /\ new.role = row.role
    BY <2>1 DEF EntryRow
  <2>. QED BY <2>1, <2>2, <2>3, RowAssumption
<1>4. LET new == [row EXCEPT !.reminded = TRUE]
      IN  /\ new # Nobody /\ new.state = row.state /\ new.left = row.left
          /\ new.escalated = row.escalated /\ new.owner = row.owner /\ new.role = row.role
  <2>1. PICK new : new = [row EXCEPT !.reminded = TRUE] OBVIOUS
  <2>2. new \in EntryRow BY <2>1 DEF EntryRow
  <2>3. /\ new.state = row.state /\ new.left = row.left
        /\ new.escalated = row.escalated /\ new.owner = row.owner /\ new.role = row.role
    BY <2>1 DEF EntryRow
  <2>. QED BY <2>1, <2>2, <2>3, RowAssumption
<1>5. LET new == [row EXCEPT !.escalated = TRUE]
      IN  /\ new # Nobody /\ new.state = row.state /\ new.left = row.left
          /\ new.owner = row.owner /\ new.role = row.role
  <2>1. PICK new : new = [row EXCEPT !.escalated = TRUE] OBVIOUS
  <2>2. new \in EntryRow BY <2>1 DEF EntryRow
  <2>3. /\ new.state = row.state /\ new.left = row.left
        /\ new.owner = row.owner /\ new.role = row.role
    BY <2>1 DEF EntryRow
  <2>. QED BY <2>1, <2>2, <2>3, RowAssumption
<1>. QED BY <1>1, <1>2, <1>3, <1>4, <1>5

-----------------------------------------------------------------------------
(* Types *)

(* Each step of QueueNext keeps rows, places and notices what they are. *)
LEMMA TypesStep ==
  ASSUME QueueTypes, ClaimsHold, [QueueNext]_queueVars PROVE QueueTypes'
<1> USE DEF QueueTypes
<1>1. ASSUME NEW e \in Entries, NEW p \in Owners, NEW due \in {Sla, Nobody}, Enter(e, p, due)
      PROVE  QueueTypes'
  <2>1. [owner |-> p, role |-> Route(p), state |-> "PENDING", left |-> due,
         reminded |-> FALSE, escalated |-> FALSE] \in EntryRow
    BY RouteType, SlaAssumption DEF EntryRow, Overdue
  <2>. QED BY <1>1, <2>1 DEF Enter
<1>2. ASSUME NEW e \in Entries, NEW a, Rule(a, e) PROVE QueueTypes'
  <2>1. [entries[e] EXCEPT !.state = "DECIDED"] \in EntryRow
    BY <1>2 DEF Rule, Waiting, EntryRow
  <2>. QED BY <1>2, <2>1 DEF Rule
<1>3. ASSUME NEW e \in Entries, NEW role \in {"MANAGER", "ADMIN"}, BeginsAnew(e, role),
             UNCHANGED posts
      PROVE  QueueTypes'
  <2>1. entries[e] \in EntryRow BY <1>3 DEF BeginsAnew
  <2>. QED BY <1>3, <2>1, FreshRow DEF BeginsAnew
<1>4. ASSUME NEW e \in Entries, NEW a, Reconsider(a, e) PROVE QueueTypes'
  <2>1. entries[e].role \in {"MANAGER", "ADMIN"}
    BY <1>4 DEF Reconsider, BeginsAnew, EntryRow
  <2>. QED BY <1>3, <1>4, <2>1 DEF Reconsider
<1>5. ASSUME NEW e \in Entries, AskAgain(e) PROVE QueueTypes'
  BY <1>3, <1>5, RouteType DEF AskAgain
<1>6. ASSUME NEW p \in Persons, HandleMove(p) PROVE QueueTypes'
  <2>1. \A e \in Entries : Waiting(e) => [entries[e] EXCEPT !.role = Route(p)] \in EntryRow
    BY RouteType DEF Waiting, EntryRow
  <2>. QED BY <1>6, <2>1 DEF HandleMove
<1>7. ASSUME NEW p \in Persons, NEW post \in Placements[p], Place(p, post) PROVE QueueTypes'
  BY <1>7, PlacementsAssumption DEF Place, Persons
<1>8. ASSUME NEW fill \in Overdue .. Sla, BeginRun(fill) PROVE QueueTypes'
  <2>1. \A e \in Entries : Waiting(e) => [entries[e] EXCEPT !.left = fill] \in EntryRow
    BY DEF Waiting, EntryRow
  <2>. QED BY <1>8, <2>1 DEF BeginRun
<1>9. ASSUME NEW told \in SUBSET (Persons \cup {Chief}), Remind(told) PROVE QueueTypes'
  BY <1>9 DEF Remind
<1>10. ASSUME NEW told \in SUBSET (Persons \cup {Chief}), Escalate(told) PROVE QueueTypes'
  BY <1>10 DEF Escalate
<1>11. CASE Elapse
  <2>1. \A e \in Entries : Waiting(e) /\ entries[e].left \in 0 .. Sla =>
           [entries[e] EXCEPT !.left = @ - 1] \in EntryRow
    BY SlaAssumption DEF Waiting, EntryRow, Overdue
  <2>. QED BY <1>11, <2>1 DEF Elapse
<1>12. CASE MarkReminded
  <2>1. ASSUME NEW e \in Entries, e \in sla.done
        PROVE  [entries[e] EXCEPT !.reminded = TRUE] \in EntryRow
    <3>1. entries[e] \in EntryRow BY <2>1 DEF ClaimsHold
    <3>. QED BY <3>1 DEF EntryRow
  <2>. QED BY <1>12, <2>1 DEF MarkReminded
<1>13. CASE MarkEscalated
  <2>1. ASSUME NEW e \in Entries, e \in sla.done
        PROVE  [entries[e] EXCEPT !.escalated = TRUE] \in EntryRow
    <3>1. entries[e] \in EntryRow BY <2>1 DEF ClaimsHold
    <3>. QED BY <3>1 DEF EntryRow
  <2>. QED BY <1>13, <2>1 DEF MarkEscalated
<1>14. CASE ChiefChanges \/ RunFails \/ Restart \/ UNCHANGED queueVars
  BY <1>14 DEF ChiefChanges, RunFails, Restart, queueVars
<1>. QED
  BY <1>1, <1>2, <1>4, <1>5, <1>6, <1>7, <1>8, <1>9, <1>10, <1>11, <1>12, <1>13, <1>14
  DEF QueueNext

-----------------------------------------------------------------------------
(* The run and the marks *)

RunInv == ClaimsHold /\ RunHolds /\ MarksHold

(* An item stays what the run knows of it: it no longer waits, waits anew    *)
(* and is crossed, or is as overdue, as marked and as told as before.        *)
StaysKnown(e) ==
  /\ entries[e] # Nobody => entries[e]' # Nobody
  /\ e \notin crossed' /\ Waiting(e)' =>
       \/ /\ e \notin crossed /\ Waiting(e)
          /\ entries[e].left = Overdue => entries[e]'.left = Overdue
          /\ entries[e]'.escalated = entries[e].escalated
          /\ heard[e] # {} => heard[e]' # {}
       \/ ~Held(e) /\ entries[e]'.escalated = FALSE

(* A step outside the job's run that leaves every item known keeps what the  *)
(* run and the marks rely on.                                                *)
LEMMA KnownKept ==
  ASSUME RunInv, sla' = sla, \A e \in Entries : StaysKnown(e)
  PROVE  RunInv'
<1> USE DEF RunInv
<1>1. ClaimsHold'
  BY DEF ClaimsHold, StaysKnown
<1>2. RunHolds'
  <2>1. ASSUME sla.step \in {"escalate", "markEscalated"}, NEW c \in sla.claims
        PROVE  HoldsTrue(c.entry)'
    <3>1. c.entry \in Entries /\ Held(c.entry) /\ HoldsTrue(c.entry)
      BY <2>1 DEF ClaimsHold, RunHolds, Held
    <3>. QED BY <3>1 DEF StaysKnown, HoldsTrue
  <2>2. ASSUME sla.step = "markEscalated", NEW e \in sla.done PROVE Told(e)'
    <3>1. e \in Entries /\ Held(e) /\ Told(e)
      BY <2>2 DEF ClaimsHold, RunHolds, Held
    <3>. QED BY <3>1 DEF StaysKnown, Told
  <2>. QED BY <2>1, <2>2 DEF RunHolds
<1>3. MarksHold'
  BY DEF MarksHold, StaysKnown
<1>. QED BY <1>1, <1>2, <1>3

(* A wait that begins is known: it is unmarked, and crossed if the run holds *)
(* the item.                                                                 *)
LEMMA NewWaitIsKnown ==
  ASSUME QueueTypes, NEW e \in Entries, NEW role \in {"MANAGER", "ADMIN"}, BeginsAnew(e, role),
         sla' = sla
  PROVE  \A x \in Entries : StaysKnown(x)
<1> SUFFICES ASSUME NEW x \in Entries PROVE StaysKnown(x)
  OBVIOUS
<1>1. entries[e] \in EntryRow BY DEF QueueTypes, BeginsAnew
<1>2. CASE x = e
  <2>1. entries[x]' = NewWait(entries[e], role)
    BY <1>2 DEF BeginsAnew, QueueTypes
  <2>2. NewWait(entries[e], role) \in EntryRow /\ NewWait(entries[e], role).escalated = FALSE
    BY <1>1, FreshRow
  <2>3. entries[x]'.escalated = FALSE /\ entries[x]' # Nobody
    BY <2>1, <2>2, RowAssumption
  <2>. QED BY <1>2, <2>3 DEF BeginsAnew, StaysKnown, Held
<1>3. CASE x # e
  BY <1>3 DEF BeginsAnew, StaysKnown, QueueTypes, Waiting
<1>. QED BY <1>2, <1>3

(* Each step of QueueNext keeps what the run and the marks rely on.          *)
LEMMA RunStep ==
  ASSUME QueueTypes, RunInv, [QueueNext]_queueVars PROVE RunInv'
<1> USE DEF QueueTypes
<1>1. ASSUME NEW e \in Entries, NEW p \in Owners, NEW due \in {Sla, Nobody}, Enter(e, p, due)
      PROVE  RunInv'
  <2>1. ASSUME NEW x \in Entries PROVE StaysKnown(x)
    BY <1>1 DEF Enter, StaysKnown, Waiting, RunInv, ClaimsHold, Held
  <2>. QED BY <1>1, <2>1, KnownKept DEF Enter
<1>2. ASSUME NEW e \in Entries, NEW a, Rule(a, e) PROVE RunInv'
  <2>1. ASSUME NEW x \in Entries PROVE StaysKnown(x)
    BY <1>2, OneColumn DEF Rule, StaysKnown, Waiting
  <2>. QED BY <1>2, <2>1, KnownKept DEF Rule
<1>4. ASSUME NEW e \in Entries, NEW a, Reconsider(a, e) PROVE RunInv'
  <2>1. entries[e].role \in {"MANAGER", "ADMIN"}
    BY <1>4 DEF Reconsider, BeginsAnew, EntryRow
  <2>. QED BY <1>4, <2>1, NewWaitIsKnown, KnownKept DEF Reconsider
<1>5. ASSUME NEW e \in Entries, AskAgain(e) PROVE RunInv'
  BY <1>5, RouteType, NewWaitIsKnown, KnownKept DEF AskAgain
<1>6. ASSUME NEW p \in Persons, HandleMove(p) PROVE RunInv'
  <2>1. ASSUME NEW x \in Entries PROVE StaysKnown(x)
    BY <1>6, OneColumn, RouteType DEF HandleMove, StaysKnown, Waiting
  <2>. QED BY <1>6, <2>1, KnownKept DEF HandleMove
<1>7. CASE Elapse
  <2>1. ASSUME NEW x \in Entries PROVE StaysKnown(x)
    <3>1. CASE Waiting(x) /\ entries[x].left \in 0 .. Sla
      <4>1. entries[x] \in EntryRow /\ entries[x].left - 1 \in Overdue .. Sla
            /\ entries[x].left # Overdue
        BY <3>1, SlaAssumption DEF Waiting, Overdue
      <4>2. entries[x]' = [entries[x] EXCEPT !.left = entries[x].left - 1]
        BY <1>7, <3>1 DEF Elapse
      <4>. QED BY <1>7, <3>1, <4>1, <4>2, OneColumn DEF Elapse, StaysKnown, Waiting
    <3>2. CASE ~(Waiting(x) /\ entries[x].left \in 0 .. Sla)
      BY <1>7, <3>2 DEF Elapse, StaysKnown, Waiting
    <3>. QED BY <3>1, <3>2
  <2>. QED BY <1>7, <2>1, KnownKept DEF Elapse
<1>8. ASSUME \/ \E p \in Persons : \E post \in Placements[p] : Place(p, post)
             \/ ChiefChanges \/ UNCHANGED queueVars
      PROVE  RunInv'
  <2>1. ASSUME NEW x \in Entries PROVE StaysKnown(x)
    BY <1>8 DEF Place, ChiefChanges, queueVars, StaysKnown, Waiting
  <2>. QED BY <1>8, <2>1, KnownKept DEF Place, ChiefChanges, queueVars
<1>9. ASSUME NEW fill \in Overdue .. Sla, BeginRun(fill) PROVE RunInv'
  <2>1. ASSUME NEW x \in Entries PROVE StaysKnown(x)
    BY <1>9, SlaAssumption, OneColumn DEF BeginRun, StaysKnown, Waiting, Overdue
  <2>2. sla'.step = "remind" /\ sla'.done = {}
    BY <1>9 DEF BeginRun, NoRun
  <2>3. MarksHold' BY <2>1 DEF RunInv, MarksHold, StaysKnown
  <2>4. ClaimsHold'
    <3>1. ASSUME NEW c \in sla'.claims PROVE c.entry \in Entries /\ entries[c.entry]' # Nobody
      <4>1. c.entry \in Entries /\ Waiting(c.entry)
        BY <1>9, ClaimsAreDue DEF BeginRun, NoRun
      <4>. QED BY <2>1, <4>1 DEF StaysKnown, Waiting
    <3>. QED BY <2>2, <3>1 DEF ClaimsHold
  <2>. QED BY <2>2, <2>3, <2>4 DEF RunInv, RunHolds
<1>10. ASSUME NEW told \in SUBSET (Persons \cup {Chief}), Remind(told) PROVE RunInv'
  <2>1. sla'.step = "markReminded" /\ sla'.claims = sla.claims
        /\ \A e \in sla'.done : \E c \in sla.claims : c.entry = e
    BY <1>10 DEF Remind
  <2>. QED BY <1>10, <2>1 DEF Remind, RunInv, RunHolds, ClaimsHold, MarksHold, Waiting
<1>11. CASE MarkReminded
  <2>1. ASSUME NEW x \in Entries PROVE StaysKnown(x)
    BY <1>11, OneColumn DEF MarkReminded, StaysKnown, Waiting, RunInv, ClaimsHold
  <2>2. sla'.step = "escalate" /\ sla'.done = {} /\ sla'.claims = Claims(entries, "escalated")
    BY <1>11 DEF MarkReminded
  <2>3. ASSUME NEW c \in sla'.claims
        PROVE  c.entry \in Entries /\ entries[c.entry]' # Nobody /\ HoldsTrue(c.entry)'
    <3>1. c.entry \in Entries /\ Waiting(c.entry) /\ entries[c.entry].left = Overdue
      BY <2>2, ClaimsAreDue
    <3>. QED BY <1>11, <3>1, OneColumn DEF MarkReminded, HoldsTrue, Waiting
  <2>4. MarksHold' BY <2>1 DEF RunInv, MarksHold, StaysKnown
  <2>. QED BY <2>2, <2>3, <2>4 DEF RunInv, ClaimsHold, RunHolds
<1>12. ASSUME NEW told \in SUBSET (Persons \cup {Chief}), Escalate(told) PROVE RunInv'
  <2>1. /\ sla'.step = "markEscalated" /\ sla'.claims = sla.claims /\ sla'.done = Marked(told)
        /\ UNCHANGED <<entries, crossed>>
    BY <1>12 DEF Escalate
  <2>2. ASSUME NEW e \in Entries PROVE heard[e] \subseteq heard'[e]
    BY <1>12 DEF Escalate
  <2>3. ASSUME NEW e \in Marked(told)
        PROVE  (\E c \in sla.claims : c.entry = e) /\ Told(e)'
    <3>1. PICK c \in sla.claims : c.entry = e
      BY DEF Marked, ToldManagers
    <3>2. e \in Entries BY <3>1 DEF RunInv, ClaimsHold
    <3>3. CASE Chief \in told
      BY <1>12, <3>1, <3>2, <3>3 DEF Escalate, Told
    <3>4. CASE Chief \notin told
      <4>1. e \in ToldManagers(told) /\ told # {}
        BY <3>4 DEF Marked, ToldManagers
      <4>. QED BY <1>12, <3>1, <3>2, <3>4, <4>1 DEF Escalate, Told
    <3>. QED BY <3>1, <3>3, <3>4
  <2>4. ClaimsHold' BY <2>1, <2>3 DEF RunInv, ClaimsHold
  <2>5. RunHolds'
    BY <1>12, <2>1, <2>3 DEF Escalate, RunInv, RunHolds, HoldsTrue, Waiting
  <2>6. MarksHold' BY <2>1, <2>2 DEF RunInv, MarksHold, Waiting
  <2>. QED BY <2>4, <2>5, <2>6 DEF RunInv
<1>13. CASE MarkEscalated
  <2>1. ASSUME NEW e \in Entries \ crossed', Waiting(e)', entries'[e].escalated
        PROVE  entries'[e].left = Overdue /\ heard'[e] # {}
    <3>1. CASE e \in sla.done
      <4>1. HoldsTrue(e) /\ Told(e) /\ entries[e] # Nobody
        BY <1>13, <3>1 DEF MarkEscalated, RunInv, RunHolds, ClaimsHold
      <4>2. entries'[e] = [entries[e] EXCEPT !.escalated = TRUE] /\ UNCHANGED <<heard, crossed>>
        BY <1>13, <3>1 DEF MarkEscalated
      <4>. QED BY <2>1, <4>1, <4>2, OneColumn DEF HoldsTrue, Told, Waiting
    <3>2. CASE e \notin sla.done
      BY <1>13, <2>1, <3>2 DEF MarkEscalated, RunInv, MarksHold, Waiting
    <3>. QED BY <3>1, <3>2
  <2>2. MarksHold' BY <2>1 DEF MarksHold
  <2>. QED BY <1>13, <2>2 DEF MarkEscalated, NoRun, RunInv, ClaimsHold, RunHolds
<1>14. CASE RunFails \/ Restart
  BY <1>14 DEF RunFails, Restart, NoRun, RunInv, ClaimsHold, RunHolds, MarksHold, Waiting
<1>. QED
  BY <1>1, <1>2, <1>4, <1>5, <1>6, <1>7, <1>8, <1>9, <1>10, <1>11, <1>12, <1>13, <1>14
  DEF QueueNext

-----------------------------------------------------------------------------
(* The routes *)

(* A step that leaves places, moves and lost moves alone and of each row     *)
(* whether it waits, whose it is and whom it waits for, keeps the routes.    *)
LEMMA RoutesUntouched ==
  ASSUME RoutesHold, UNCHANGED <<posts, moved, astray>>,
         \A e \in Entries : Waiting(e)' => /\ Waiting(e) /\ entries'[e].owner = entries[e].owner
                                           /\ entries'[e].role = entries[e].role
  PROVE  RoutesHold'
BY DEF RoutesHold, Route

(* Each step of QueueNext keeps every item with whom its owner's place makes *)
(* it wait for, or notes that an event will come, or was lost.               *)
LEMMA RoutesStep ==
  ASSUME QueueTypes, ClaimsHold, RoutesHold, [QueueNext]_queueVars PROVE RoutesHold'
<1> USE DEF QueueTypes
<1>1. ASSUME NEW e \in Entries, NEW p \in Owners, NEW due \in {Sla, Nobody}, Enter(e, p, due)
      PROVE  RoutesHold'
  BY <1>1 DEF Enter, RoutesHold, Route, Waiting
<1>2. ASSUME NEW e \in Entries, NEW a, Rule(a, e) PROVE RoutesHold'
  BY <1>2, OneColumn, RoutesUntouched DEF Rule, Waiting
<1>3. ASSUME NEW e \in Entries, NEW role \in {"MANAGER", "ADMIN"}, BeginsAnew(e, role),
             UNCHANGED <<posts, moved>>
      PROVE  RoutesHold'
  <2>1. entries[e] \in EntryRow BY <1>3 DEF BeginsAnew
  <2>2. entries'[e].role = role /\ entries'[e].owner = entries[e].owner
    BY <1>3, <2>1, FreshRow DEF BeginsAnew
  <2>. QED BY <1>3, <2>2 DEF BeginsAnew, RoutesHold, Route, Waiting
<1>4. ASSUME NEW e \in Entries, NEW a, Reconsider(a, e) PROVE RoutesHold'
  <2>1. entries[e].role \in {"MANAGER", "ADMIN"}
    BY <1>4 DEF Reconsider, BeginsAnew, EntryRow
  <2>. QED BY <1>3, <1>4, <2>1 DEF Reconsider
<1>5. ASSUME NEW e \in Entries, AskAgain(e) PROVE RoutesHold'
  BY <1>3, <1>5, RouteType DEF AskAgain
<1>6. ASSUME NEW p \in Persons, HandleMove(p) PROVE RoutesHold'
  <2>1. ASSUME NEW e \in Entries, Waiting(e)', entries'[e].owner \notin moved', e \notin astray'
        PROVE  entries'[e].role = Route(entries'[e].owner)
    <3>1. CASE Waiting(e) /\ entries[e].owner = p
      <4>1. entries'[e] = [entries[e] EXCEPT !.role = Route(p)] /\ entries[e] \in EntryRow
        BY <1>6, <3>1 DEF HandleMove, Waiting
      <4>. QED BY <3>1, <4>1, OneColumn, RouteType
    <3>2. CASE ~(Waiting(e) /\ entries[e].owner = p)
      BY <1>6, <2>1, <3>2 DEF HandleMove, RoutesHold, Waiting
    <3>. QED BY <3>1, <3>2
  <2>. QED BY <1>6, <2>1 DEF HandleMove, RoutesHold, Route
<1>7. ASSUME NEW p \in Persons, NEW post \in Placements[p], Place(p, post) PROVE RoutesHold'
  <2>1. ASSUME NEW q, q \notin moved' PROVE Route(q)' = Route(q)
    <3>1. CASE q # p \/ post # [posts[p] EXCEPT !.active = post.active]
      BY <1>7, <2>1, <3>1 DEF Place, Route
    <3>2. CASE q = p /\ post = [posts[p] EXCEPT !.active = post.active]
      <4>1. post.role = posts[p].role /\ post.dept = posts[p].dept
        BY <3>2 DEF PostRow
      <4>. QED BY <1>7, <3>2, <4>1 DEF Place, Route
    <3>. QED BY <3>1, <3>2
  <2>. QED BY <1>7, <2>1 DEF Place, RoutesHold, Waiting
<1>8. ASSUME NEW fill \in Overdue .. Sla, BeginRun(fill) PROVE RoutesHold'
  BY <1>8, OneColumn, RoutesUntouched DEF BeginRun, Waiting
<1>9. CASE Elapse
  <2>1. \A e \in Entries : Waiting(e) /\ entries[e].left \in 0 .. Sla =>
          entries[e].left - 1 \in Overdue .. Sla
    BY SlaAssumption DEF Overdue
  <2>. QED BY <1>9, <2>1, OneColumn, RoutesUntouched DEF Elapse, Waiting
<1>10. CASE MarkReminded \/ MarkEscalated
  <2>1. \A e \in Entries : e \in sla.done => entries[e] \in EntryRow
    BY DEF ClaimsHold
  <2>2. ASSUME NEW e \in Entries, Waiting(e)'
        PROVE  /\ Waiting(e) /\ entries'[e].owner = entries[e].owner
               /\ entries'[e].role = entries[e].role
    <3>1. CASE e \in sla.done
      <4>1. \/ entries'[e] = [entries[e] EXCEPT !.reminded = TRUE]
            \/ entries'[e] = [entries[e] EXCEPT !.escalated = TRUE]
        BY <1>10, <3>1 DEF MarkReminded, MarkEscalated
      <4>2. entries[e] \in EntryRow /\ entries[e] # Nobody
        BY <2>1, <3>1, RowAssumption
      <4>3. entries'[e].state = "PENDING" BY <2>2 DEF Waiting
      <4>4. /\ entries'[e].state = entries[e].state
            /\ entries'[e].owner = entries[e].owner /\ entries'[e].role = entries[e].role
        <5>1. CASE entries'[e] = [entries[e] EXCEPT !.reminded = TRUE]
          BY <5>1, <4>2, OneColumn
        <5>2. CASE entries'[e] = [entries[e] EXCEPT !.escalated = TRUE]
          BY <5>2, <4>2, OneColumn
        <5>. QED BY <4>1, <5>1, <5>2
      <4>. QED BY <4>2, <4>3, <4>4 DEF Waiting
    <3>2. CASE e \notin sla.done
      <4>1. entries'[e] = entries[e] BY <1>10, <3>2 DEF MarkReminded, MarkEscalated
      <4>. QED BY <2>2, <4>1 DEF Waiting
    <3>. QED BY <3>1, <3>2
  <2>. QED BY <1>10, <2>2, RoutesUntouched DEF MarkReminded, MarkEscalated
<1>11. CASE Restart
  BY <1>11 DEF Restart, RoutesHold, Route, Waiting
<1>12. ASSUME \/ \E told \in SUBSET (Persons \cup {Chief}) : Remind(told) \/ Escalate(told)
              \/ ChiefChanges \/ RunFails \/ UNCHANGED queueVars
       PROVE  RoutesHold'
  BY <1>12, RoutesUntouched DEF Remind, Escalate, ChiefChanges, RunFails, queueVars, Waiting
<1>. QED
  BY <1>1, <1>2, <1>4, <1>5, <1>6, <1>7, <1>8, <1>9, <1>10, <1>11, <1>12 DEF QueueNext

-----------------------------------------------------------------------------
(* The theorems *)

(* The run of the job, the marks and the routes hold in every state.         *)
THEOREM QueueInvariant == QueueSpec => []QueueInv
<1>1. QueueInit => QueueInv
  BY PlacementsAssumption
  DEF QueueInit, QueueInv, QueueTypes, ClaimsHold, RunHolds, MarksHold, RoutesHold, NoRun,
      Waiting, Persons
<1>2. QueueInv /\ [QueueNext]_queueVars => QueueInv'
  BY TypesStep, RunStep, RoutesStep DEF QueueInv, RunInv
<1>. QED BY <1>1, <1>2, PTL DEF QueueSpec

(* worktime.jobs, tick: however runs, decisions, reopenings and moves        *)
(* interleave, an item that is shown as escalated is overdue in its present  *)
(* wait and somebody was told so, unless a run held its last wait.           *)
THEOREM EscalatedIsToldAndOverdue == QueueSpec => []EscalationIsTrue
<1>1. QueueInv => EscalationIsTrue
  BY DEF QueueInv, MarksHold, EscalationIsTrue, View, SlaState, Waiting
<1>. QED BY <1>1, QueueInvariant, PTL

(* A waiting item's stored route is its owner's, so the digest and the lists *)
(* agree on who decides it.                                                  *)
LEMMA InvShows == QueueInv => SomebodySeesIt
<1> SUFFICES ASSUME QueueInv, NEW e \in Entries, Waiting(e)
    PROVE  /\ \A a \in Persons \cup {Chief} : e \in Shown(a) => View(a, e).canDecide
           /\ chiefHere /\ entries[e].escalated => e \in Shown(Chief)
           /\ entries[e].owner \notin moved /\ e \notin astray =>
                /\ chiefHere => \E a \in Persons \cup {Chief} : e \in Digest(a)
                /\ \A a \in Persons \cup {Chief} : e \in Digest(a) => e \in Shown(a)
  BY DEF SomebodySeesIt
<1> DEFINE p == entries[e].owner
<1>1. entries[e] \in EntryRow /\ p \in Owners /\ p \in Persons /\ Chief \notin Persons
  BY SlaAssumption DEF QueueInv, QueueTypes, Waiting, EntryRow, Persons
<1>2. \A a \in Persons \cup {Chief} : e \in Shown(a) => View(a, e).canDecide
  <2>1. posts[p].role \in {"USER", "MANAGER"}
    BY <1>1 DEF QueueInv, QueueTypes, PostRow
  <2>. QED BY <1>1, <2>1 DEF Shown, Mine, Scope, View, MayRule
<1>3. chiefHere /\ entries[e].escalated => e \in Shown(Chief)
  BY <1>1 DEF Shown, Mine, Scope, AdminPool
<1>4. ASSUME p \notin moved, e \notin astray
      PROVE  /\ chiefHere => \E a \in Persons \cup {Chief} : e \in Digest(a)
             /\ \A a \in Persons \cup {Chief} : e \in Digest(a) => e \in Shown(a)
  <2>1. entries[e].role = Route(p) BY <1>4 DEF QueueInv, RoutesHold
  <2>2. CASE posts[p].role = "USER" /\ posts[p].dept # Nobody /\ ActiveManagers(posts[p].dept) # {}
    <3>1. \A a \in Persons \cup {Chief} :
            e \in Digest(a) <=> a \in ActiveManagers(posts[p].dept)
      BY <2>1, <2>2 DEF Digest, Route
    <3>2. p \notin ActiveManagers(posts[p].dept) BY <2>2 DEF ActiveManagers
    <3>3. \A a \in ActiveManagers(posts[p].dept) : a \in Persons /\ (a # p => Manages(a, p))
      BY <2>2 DEF ActiveManagers, Manages
    <3>4. \E a \in Persons \cup {Chief} : e \in Digest(a)
      BY <2>2, <3>1, <3>2, <3>3
    <3>5. ASSUME NEW a \in Persons, Manages(a, p) PROVE e \in Shown(a)
      BY <1>1, <3>5 DEF Shown, Mine, Scope
    <3>. QED BY <1>1, <3>1, <3>2, <3>3, <3>4, <3>5
  <2>3. CASE ~(posts[p].role = "USER" /\ posts[p].dept # Nobody
               /\ ActiveManagers(posts[p].dept) # {})
    <3>1. \A a \in Persons \cup {Chief} : e \in Digest(a) <=> a = Chief /\ chiefHere
      BY <2>1, <2>3 DEF Digest, Route
    <3>2. AdminPool(e) BY <2>1, <2>3 DEF AdminPool, ManagersOf, Route
    <3>. QED BY <1>1, <3>1, <3>2 DEF Shown, Mine, Scope
  <2>. QED BY <2>2, <2>3
<1>. QED BY <1>2, <1>3, <1>4

(* approverScopeOf, scopeSql, canDecide and the digest: what waits is shown  *)
(* to and counted for somebody who may decide it.                            *)
THEOREM WaitingIsSeen == QueueSpec => []SomebodySeesIt
BY InvShows, QueueInvariant, PTL
=============================================================================
