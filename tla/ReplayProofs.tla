---------------------------- MODULE ReplayProofs ----------------------------
(***************************************************************************)
(* What the replay interceptor promises of agent_events, for every number  *)
(* of copies in flight, every journal and every clock: an action is        *)
(* applied once for each placeholder, a stored answer is true, and the     *)
(* journal is applied in its order.                                        *)
(*                                                                         *)
(* AppliedPerPlaceholder is not inductive: a copy whose handler failed has *)
(* not applied the action and may give the placeholder back, so it counts  *)
(* although it is past the handler.  Owing counts it; UnitsHold says that  *)
(* each placeholder is worth one application, held by the row, by one copy *)
(* or by the history.  FinalStands says what lets the agent go on to its   *)
(* next action, which is what the order rests on.                          *)
(***************************************************************************)
EXTENDS Replay, SessionLedgerProofs, FiniteSetTheorems

-----------------------------------------------------------------------------
(* The inductive invariant *)

(* What a copy remembers where it stands. *)
Staged(c) ==
  copies[c] # None =>
    /\ copies[c].answer = None <=> copies[c].pc \notin {"restore", "settle"}
    /\ copies[c].pc \in {"reopen", "restore"} => copies[c].before # None
    /\ copies[c].before # None => copies[c].before.id \in Rows
    /\ copies[c].pc = "restore" => copies[c].answer # "OK"
    /\ copies[c].event <= sent
StagesHold == \A c \in Copies : Staged(c)

(* The copies past the placeholder that have not applied the action. *)
Owes(c, e) == Holds(c, e) /\ copies[c].answer # "OK"
Owing(e) == {c \in Copies : Owes(c, e)}

Spare(e) == IF events[e] = None THEN 1 ELSE 0

(* The placeholders an action has had that no answer gave back, and the runs *)
(* that gave theirs back although they had applied it.                       *)
Worth(e) == 1 + takeovers[e] + halfway[e]

UnitsHold ==
  \A e \in Events : applied[e] + Cardinality(Owing(e)) + Spare(e) <= Worth(e)

AnswersHold ==
  \A e \in Events : (takeovers[e] = 0 /\ halfway[e] = 0) =>
    /\ \A c \in Copies : Holds(c, e) /\ copies[c].answer = "OK" => applied[e] = 1
    /\ Settled(e) => (events[e].status = "OK" <=> applied[e] = 1)

(* What ends an action for the agent. *)
IsFinal(e) ==
  \/ e \in unstored
  \/ takeovers[e] > 0
  \/ events[e] # None /\ \A c \in Copies : ~Holds(c, e)

FinalStands ==
  \A e \in Events : /\ e < sent => IsFinal(e)
                    /\ applied[e] > 0 => e <= sent

ReplayInv == TypeOK /\ StagesHold /\ UnitsHold /\ OneHolder /\ AnswersHold /\ FinalStands

-----------------------------------------------------------------------------
(* Copies *)

(* A request in flight is a copy. *)
LEMMA InFlight ==
  ASSUME TypeOK, NEW c \in Copies, copies[c] # None
  PROVE  copies[c] \in Copy
  BY DEF TypeOK

(* A step of copy c leaves the other copies where they were. *)
Moves(c) ==
  /\ c \in Copies
  /\ DOMAIN copies' = Copies
  /\ \A d \in Copies \ {c} : copies'[d] = copies[d]

LEMMA CopyWritten ==
  ASSUME TypeOK, NEW c \in Copies, NEW q \in Copy \cup {None},
         copies' = [copies EXCEPT ![c] = q]
  PROVE  /\ copies' \in [Copies -> Copy \cup {None}]
         /\ copies'[c] = q
         /\ Moves(c)
  BY DEF TypeOK, Moves

(* What a copy is after each of its steps. *)
LEMMA Forward ==
  ASSUME TypeOK, NEW c \in Copies, copies[c] # None,
         NEW pc \in {"find", "takeover", "judge", "create", "read", "reopen", "handle",
                     "restore", "settle"},
         Goto(c, pc)
  PROVE  /\ copies' \in [Copies -> Copy \cup {None}] /\ Moves(c)
         /\ copies'[c] # None /\ copies'[c].pc = pc
         /\ copies'[c].event = copies[c].event /\ copies'[c].now = copies[c].now
         /\ copies'[c].before = copies[c].before /\ copies'[c].answer = copies[c].answer
         /\ sent' = sent
<1> DEFINE q == [copies[c] EXCEPT !.pc = pc]
<1>1. copies[c] \in Copy
  BY InFlight
<1>2. /\ q \in Copy /\ q.pc = pc /\ q.event = copies[c].event /\ q.now = copies[c].now
      /\ q.before = copies[c].before /\ q.answer = copies[c].answer
  BY <1>1 DEF Copy
<1>3. copies' = [copies EXCEPT ![c] = q] /\ sent' = sent
  BY DEF Goto
<1> HIDE DEF q
<1> QED
  BY <1>2, <1>3, CopyWritten, NoneIsNoEvent

LEMMA Backward ==
  ASSUME TypeOK, NEW c \in Copies, copies[c] # None, NEW final \in BOOLEAN,
         Answered(c, final)
  PROVE  /\ copies' \in [Copies -> Copy \cup {None}] /\ Moves(c)
         /\ copies'[c] = None
         /\ \/ sent' = sent
            \/ final /\ copies[c].event = sent /\ sent' = sent + 1
         /\ sent' \in 1 .. Length + 1 /\ sent <= sent'
<1>1. copies[c].event \in 1 .. Length
  BY InFlight DEF Copy, Events
<1>2. copies' = [copies EXCEPT ![c] = None]
  BY DEF Answered
<1>3. sent \in 1 .. Length + 1 /\ Length \in Nat
  BY JournalAssumption DEF TypeOK
<1>4. \/ sent' = sent
      \/ final /\ copies[c].event = sent /\ sent' = sent + 1
  BY DEF Answered
<1>5. sent' \in 1 .. Length + 1 /\ sent <= sent'
  BY <1>1, <1>3, <1>4
<1>6. copies' \in [Copies -> Copy \cup {None}] /\ Moves(c) /\ copies'[c] = None
  BY <1>2, CopyWritten
<1> QED
  BY <1>4, <1>5, <1>6

LEMMA HandlerAnswers ==
  ASSUME TypeOK, NEW c \in Copies, copies[c] # None, NEW a \in {"OK", "REFUSED", "FAILED"},
         Answer(c, a)
  PROVE  /\ copies' \in [Copies -> Copy \cup {None}] /\ Moves(c)
         /\ copies'[c] # None /\ copies'[c].answer = a
         /\ copies'[c].pc = IF a # "OK" /\ copies[c].before # None THEN "restore" ELSE "settle"
         /\ copies'[c].event = copies[c].event /\ copies'[c].before = copies[c].before
         /\ sent' = sent
<1> DEFINE pc == IF a # "OK" /\ copies[c].before # None THEN "restore" ELSE "settle"
           q == [copies[c] EXCEPT !.answer = a, !.pc = pc]
<1>1. copies[c] \in Copy
  BY InFlight
<1>2. /\ q \in Copy /\ q.pc = pc /\ q.event = copies[c].event
      /\ q.before = copies[c].before /\ q.answer = a
  BY <1>1 DEF Copy
<1>3. copies' = [copies EXCEPT ![c] = q] /\ sent' = sent
  BY DEF Answer
<1> HIDE DEF q
<1> QED
  BY <1>2, <1>3, CopyWritten, NoneIsNoEvent

-----------------------------------------------------------------------------
(* What a step of a copy does to the placeholders *)

(* Nothing: the copy does not pass a placeholder, nor does it apply. *)
Quiet(c) ==
  /\ Moves(c)
  /\ \A e \in Events : /\ Holds(c, e)' <=> Holds(c, e)
                       /\ Holds(c, e) => (copies'[c].answer = "OK" <=> copies[c].answer = "OK")
  /\ UNCHANGED <<events, applied, takeovers, halfway>>

TakesOver(c, e) ==
  /\ Moves(c)
  /\ \A f \in Events : ~Holds(c, f) /\ ~Holds(c, f)'
  /\ events' = [events EXCEPT ![e] = None]
  /\ takeovers' = [takeovers EXCEPT ![e] = @ + 1]
  /\ UNCHANGED <<applied, halfway>>

Enters(c, e) ==
  /\ Moves(c)
  /\ events[e] = None
  /\ \E row \in EventRow : /\ row.status = "IN_PROGRESS"
                           /\ events' = [events EXCEPT ![e] = row]
  /\ \A f \in Events : ~Holds(c, f) /\ (Holds(c, f)' <=> f = e)
  /\ copies'[c].answer = None
  /\ UNCHANGED <<applied, takeovers, halfway>>

GivesUp(c, e) ==
  /\ Moves(c)
  /\ Holds(c, e) /\ copies[c].answer # "OK" /\ copies'[c] = None
  /\ events' = events \/ events' = Forgotten(e)
  /\ UNCHANGED <<applied, takeovers, halfway>>

Applies(c, e) ==
  /\ Moves(c)
  /\ Holds(c, e) /\ copies[c].answer = None /\ e <= sent /\ sent' = sent
  /\ \A f \in Events : Holds(c, f)' <=> f = e
  /\ copies'[c].answer = "OK"
  /\ applied' = [applied EXCEPT ![e] = @ + 1]
  /\ UNCHANGED <<events, takeovers, halfway>>

Spoils(c, e) ==
  /\ Moves(c)
  /\ Holds(c, e) /\ copies[c].answer = "OK"
  /\ \A f \in Events : (Holds(c, f)' <=> f = e) /\ (Holds(c, f) <=> f = e)
  /\ copies'[c].answer # "OK"
  /\ halfway' = [halfway EXCEPT ![e] = @ + 1]
  /\ UNCHANGED <<events, applied, takeovers>>

Stores(c, e) ==
  /\ Moves(c)
  /\ Holds(c, e) /\ copies[c].answer \in {"OK", "REFUSED"} /\ copies'[c] = None
  /\ \/ events' = events
     \/ /\ events[e] # None
        /\ events' = [events EXCEPT ![e].status = copies[c].answer]
  /\ UNCHANGED <<applied, takeovers, halfway>>

(* Every step of a copy is one of these. *)
Effect(c) ==
  \/ Quiet(c)
  \/ \E e \in Events : \/ TakesOver(c, e) \/ Enters(c, e) \/ GivesUp(c, e)
                       \/ Applies(c, e) \/ Spoils(c, e) \/ Stores(c, e)

LEMMA StepHasEffect ==
  ASSUME ReplayInv, NEW c \in Copies, Step(c)
  PROVE  Effect(c)
<1> DEFINE e == copies[c].event
<1>1. TypeOK /\ StagesHold
  BY DEF ReplayInv
<1>2. copies[c] # None => copies[c] \in Copy /\ e \in Events
  BY <1>1, InFlight DEF Copy
<1>3. CASE Send(c)
  <2> DEFINE q == [event |-> sent, now |-> clock, pc |-> "find", before |-> None,
                   answer |-> None]
  <2>1. q \in Copy /\ q.pc = "find"
    BY <1>1, <1>3, JournalAssumption DEF Send, TypeOK, Copy, Events
  <2>2. copies' = [copies EXCEPT ![c] = q] /\ copies[c] = None
    BY <1>3 DEF Send
  <2> HIDE DEF q
  <2>3. Moves(c) /\ copies'[c] = q
    BY <1>1, <2>1, <2>2, CopyWritten
  <2> QED
    BY <1>3, <2>1, <2>2, <2>3 DEF Effect, Quiet, Holds, Send
<1>4. CASE Find(c)
  <2>1. copies[c] # None /\ copies[c].pc = "find"
    BY <1>4 DEF Find, At
  <2>2. \/ \E final \in BOOLEAN : Answered(c, final)
        \/ \E pc \in {"takeover", "judge"} : Goto(c, pc)
    BY <1>4 DEF Find
  <2>3. Moves(c) /\ (copies'[c] = None \/ copies'[c].pc \in {"takeover", "judge"})
    BY <1>1, <2>1, <2>2, Forward, Backward
  <2> QED
    BY <1>4, <2>1, <2>3 DEF Effect, Quiet, Holds, Find
<1>5. CASE TakeOver(c)
  <2>1. copies[c] # None /\ copies[c].pc = "takeover" /\ Goto(c, "judge")
    BY <1>5 DEF TakeOver, At
  <2>2. Moves(c) /\ copies'[c].pc = "judge"
    BY <1>1, <2>1, Forward
  <2>3. CASE InProgress(e)
    BY <1>2, <1>5, <2>1, <2>2, <2>3 DEF Effect, TakesOver, Holds, TakeOver
  <2>4. CASE ~InProgress(e)
    BY <1>5, <2>1, <2>2, <2>4 DEF Effect, Quiet, Holds, TakeOver
  <2> QED
    BY <2>3, <2>4
<1>6. CASE Judge(c)
  <2>1. copies[c] # None /\ copies[c].pc = "judge"
    BY <1>6 DEF Judge, At
  <2>2. Answered(c, TRUE) \/ Goto(c, "create")
    BY <1>6 DEF Judge
  <2>3. Moves(c) /\ (copies'[c] = None \/ copies'[c].pc = "create")
    BY <1>1, <2>1, <2>2, Forward, Backward
  <2> QED
    BY <1>6, <2>1, <2>3 DEF Effect, Quiet, Holds, Judge
<1>7. CASE Create(c)
  <2>1. copies[c] # None /\ copies[c].pc = "create" /\ copies[c].answer = None
    BY <1>1, <1>7 DEF Create, At, StagesHold, Staged
  <2>2. CASE events[e] = None
    <3> DEFINE row == [status |-> "IN_PROGRESS", received |-> clock]
    <3>1. PICK pc \in {"read", "handle"} : Goto(c, pc)
      BY <1>7, <2>2 DEF Create
    <3>2. /\ Moves(c) /\ copies'[c] # None /\ copies'[c].pc \in {"read", "handle"}
          /\ copies'[c].event = e /\ copies'[c].answer = None
      BY <1>1, <2>1, <3>1, Forward
    <3>3. events' = [events EXCEPT ![e] = row] /\ UNCHANGED <<applied, takeovers, halfway>>
      BY <1>7, <2>2 DEF Create
    <3>4. row \in EventRow /\ row.status = "IN_PROGRESS"
      BY <1>1 DEF TypeOK, EventRow
    <3> HIDE DEF row
    <3>5. Enters(c, e)
      BY <2>1, <2>2, <3>2, <3>3, <3>4 DEF Enters, Holds
    <3> QED
      BY <1>2, <2>1, <3>5 DEF Effect
  <2>3. CASE events[e] # None
    <3>1. Moves(c) /\ copies'[c] = None
      BY <1>1, <1>7, <2>1, <2>3, Backward DEF Create
    <3> QED
      BY <1>7, <2>1, <2>3, <3>1 DEF Effect, Quiet, Holds, Create
  <2> QED
    BY <2>2, <2>3
<1>8. CASE ReadDay(c)
  <2>1. copies[c] # None /\ copies[c].pc = "read" /\ copies[c].answer = None
    BY <1>1, <1>8 DEF ReadDay, At, StagesHold, Staged
  <2>2. CASE Goto(c, "handle")
    <3>1. /\ Moves(c) /\ copies'[c] # None /\ copies'[c].pc = "handle"
          /\ copies'[c].event = e /\ copies'[c].answer = None
      BY <1>1, <2>1, <2>2, Forward
    <3> QED
      BY <1>8, <2>1, <3>1 DEF Effect, Quiet, Holds, ReadDay
  <2>3. CASE ~Goto(c, "handle")
    <3>1. PICK i \in SessionIds :
            /\ Reopens(i, EventAt[e])
            /\ copies' = [copies EXCEPT ![c] = [@ EXCEPT !.pc = "reopen",
                 !.before = [id |-> i, end |-> sessions[i].end, source |-> sessions[i].source]]]
      BY <1>8, <2>3 DEF ReadDay
    <3> DEFINE b == [id |-> i, end |-> sessions[i].end, source |-> sessions[i].source]
               q == [copies[c] EXCEPT !.pc = "reopen", !.before = b]
    <3>2. b \in Before
      BY <1>1, <3>1 DEF Reopens, IsLast, Rows, OpenIds, TypeOK, LedgerTypeOK, Session, Before
    <3>3. q \in Copy /\ q.pc = "reopen" /\ q.event = e /\ q.answer = copies[c].answer
      BY <1>2, <2>1, <3>2 DEF Copy
    <3>4. copies' = [copies EXCEPT ![c] = q]
      BY <3>1
    <3> HIDE DEF q
    <3>5. Moves(c) /\ copies'[c] = q /\ q # None
      BY <1>1, <3>3, <3>4, CopyWritten, NoneIsNoEvent
    <3> QED
      BY <1>8, <2>1, <3>3, <3>5 DEF Effect, Quiet, Holds, ReadDay
  <2> QED
    BY <2>2, <2>3
<1>9. CASE Reopen(c)
  <2>1. copies[c] # None /\ copies[c].pc = "reopen" /\ copies[c].answer = None
    BY <1>1, <1>9 DEF Reopen, At, StagesHold, Staged
  <2>2. CASE Goto(c, "handle") /\ UNCHANGED events
    <3>1. /\ Moves(c) /\ copies'[c] # None /\ copies'[c].pc = "handle"
          /\ copies'[c].event = e /\ copies'[c].answer = None
      BY <1>1, <2>1, <2>2, Forward
    <3> QED
      BY <1>9, <2>1, <2>2, <3>1 DEF Effect, Quiet, Holds, Reopen
  <2>3. CASE Answered(c, TRUE) /\ events' = Forgotten(e)
    <3>1. Moves(c) /\ copies'[c] = None
      BY <1>1, <2>1, <2>3, Backward
    <3>2. GivesUp(c, e)
      BY <1>9, <2>1, <2>3, <3>1, NoneIsNoEvent DEF GivesUp, Holds, Reopen
    <3> QED
      BY <1>2, <2>1, <3>2 DEF Effect
  <2> QED
    BY <1>9, <2>2, <2>3 DEF Reopen
<1>10. CASE Apply(c)
  <2>1. /\ copies[c] # None /\ copies[c].pc = "handle" /\ copies[c].answer = None
        /\ e <= sent
    BY <1>1, <1>10 DEF Apply, At, StagesHold, Staged
  <2>2. /\ Moves(c) /\ copies'[c] # None /\ copies'[c].answer = "OK"
        /\ copies'[c].pc = "settle" /\ copies'[c].event = e /\ sent' = sent
    BY <1>1, <1>10, <2>1, HandlerAnswers DEF Apply
  <2>3. Applies(c, e)
    BY <1>10, <2>1, <2>2 DEF Applies, Holds, Apply
  <2> QED
    BY <1>2, <2>1, <2>3 DEF Effect
<1>11. CASE Refuse(c)
  <2>1. /\ copies[c] # None /\ copies[c].pc = "handle" /\ copies[c].answer = None
    BY <1>1, <1>11 DEF Refuse, At, StagesHold, Staged
  <2>2. PICK a \in {"REFUSED", "FAILED"} : Answer(c, a)
    BY <1>11 DEF Refuse
  <2>3. /\ Moves(c) /\ copies'[c] # None /\ copies'[c].answer = a
        /\ copies'[c].pc \in {"restore", "settle"} /\ copies'[c].event = e
    BY <1>1, <2>1, <2>2, HandlerAnswers
  <2> QED
    BY <1>11, <2>1, <2>3, NoneIsNoEvent DEF Effect, Quiet, Holds, Refuse
<1>12. CASE Restore(c)
  <2>1. copies[c] # None /\ copies[c].pc = "restore" /\ Goto(c, "settle")
    BY <1>12 DEF Restore, At
  <2>2. /\ Moves(c) /\ copies'[c] # None /\ copies'[c].pc = "settle"
        /\ copies'[c].event = e /\ copies'[c].answer = copies[c].answer
    BY <1>1, <2>1, Forward
  <2> QED
    BY <1>12, <2>1, <2>2 DEF Effect, Quiet, Holds, Restore
<1>14. CASE FailLate(c)
  <2>1. copies[c] # None /\ copies[c].pc = "settle" /\ copies[c].answer = "OK"
    BY <1>14 DEF FailLate, At
  <2>2. PICK a \in {"REFUSED", "FAILED"} : Answer(c, a)
    BY <1>14 DEF FailLate
  <2>3. /\ Moves(c) /\ copies'[c] # None /\ copies'[c].answer = a
        /\ copies'[c].pc \in {"restore", "settle"} /\ copies'[c].event = e
    BY <1>1, <2>1, <2>2, HandlerAnswers
  <2>4. /\ halfway' = [halfway EXCEPT ![e] = @ + 1]
        /\ UNCHANGED <<events, applied, takeovers>>
    BY <1>14 DEF FailLate
  <2>5. Spoils(c, e)
    BY <2>1, <2>3, <2>4 DEF Spoils, Holds
  <2> QED
    BY <1>2, <2>1, <2>5 DEF Effect
<1>13. CASE Settle(c)
  <2>1. /\ copies[c] # None /\ copies[c].pc = "settle"
        /\ copies[c].answer \in {"OK", "REFUSED", "FAILED"}
    BY <1>1, <1>2, <1>13 DEF Settle, At, StagesHold, Staged, Copy
  <2>2. PICK final \in BOOLEAN : Answered(c, final)
    BY <1>13 DEF Settle
  <2>3. Moves(c) /\ copies'[c] = None
    BY <1>1, <2>1, <2>2, Backward
  <2>4. GivesUp(c, e) \/ Stores(c, e)
    BY <1>13, <2>1, <2>3 DEF GivesUp, Stores, Holds, Settle
  <2> QED
    BY <1>2, <2>1, <2>4 DEF Effect
<1> QED
  BY <1>3, <1>4, <1>5, <1>6, <1>7, <1>8, <1>9, <1>10, <1>11, <1>12, <1>13, <1>14 DEF Step

-----------------------------------------------------------------------------
(* Counting *)

(* The copies that owe an action are finitely many, and a step of one copy   *)
(* changes their number by what it does to that copy.                        *)
LEMMA OwingMoves ==
  ASSUME NEW c \in Copies, NEW e, \A d \in Copies \ {c} : Owes(d, e)' <=> Owes(d, e)
  PROVE  /\ Cardinality(Owing(e)) \in Nat
         /\ (Owes(c, e)' <=> Owes(c, e)) => Cardinality(Owing(e))' = Cardinality(Owing(e))
         /\ (Owes(c, e)' /\ ~Owes(c, e)) => Cardinality(Owing(e))' = Cardinality(Owing(e)) + 1
         /\ (Owes(c, e) /\ ~Owes(c, e)') => Cardinality(Owing(e))' = Cardinality(Owing(e)) - 1
<1>1. IsFiniteSet(Owing(e)) /\ Cardinality(Owing(e)) \in Nat
  <2>1. Owing(e) \in SUBSET Copies
    BY DEF Owing
  <2> QED
    BY <2>1, FS_Subset, FS_CardinalityType, JournalAssumption
<1>2. CASE Owes(c, e)' <=> Owes(c, e)
  <2>1. Owing(e)' = Owing(e)
    BY <1>2 DEF Owing
  <2> QED
    BY <1>1, <1>2, <2>1
<1>3. CASE Owes(c, e)' /\ ~Owes(c, e)
  <2>1. Owing(e)' = Owing(e) \cup {c} /\ c \notin Owing(e)
    BY <1>3 DEF Owing
  <2> QED
    BY <1>1, <1>3, <2>1, FS_AddElement
<1>4. CASE Owes(c, e) /\ ~Owes(c, e)'
  <2>1. Owing(e)' = Owing(e) \ {c} /\ c \in Owing(e)
    BY <1>4 DEF Owing
  <2> QED
    BY <1>1, <1>4, <2>1, FS_RemoveElement
<1> QED
  BY <1>2, <1>3, <1>4

(* A copy that owes an action is counted. *)
LEMMA OwingCounts ==
  ASSUME NEW c \in Copies, NEW e, Owes(c, e)
  PROVE  Cardinality(Owing(e)) \in Nat /\ Cardinality(Owing(e)) >= 1
<1>1. Owing(e) \in SUBSET Copies /\ {c} \in SUBSET Owing(e)
  BY DEF Owing
<1>2. IsFiniteSet(Owing(e)) /\ Cardinality(Owing(e)) \in Nat
  BY <1>1, FS_Subset, FS_CardinalityType, JournalAssumption
<1>3. Cardinality({c}) = 1
  BY FS_Singleton
<1> QED
  BY <1>1, <1>2, <1>3, FS_Subset

(* Copies that did not move hold what they held. *)
LEMMA OthersHold ==
  ASSUME NEW c, Moves(c), NEW d \in Copies \ {c}, NEW e
  PROVE  /\ Holds(d, e)' <=> Holds(d, e)
         /\ Owes(d, e)' <=> Owes(d, e)
  BY DEF Moves, Holds, Owes

(* As long as no placeholder was taken over and no run failed after its      *)
(* commit, an action that a copy has still to apply was not applied.         *)
LEMMA OwedIsNotApplied ==
  ASSUME TypeOK, UnitsHold, NEW c \in Copies, NEW e \in Events, Owes(c, e), takeovers[e] = 0,
         halfway[e] = 0
  PROVE  applied[e] = 0
<1>1. applied[e] + Cardinality(Owing(e)) + Spare(e) <= 1
  BY DEF UnitsHold, Worth
<1>2. applied[e] \in Nat /\ Spare(e) \in Nat
  BY DEF TypeOK, Spare
<1> QED
  BY <1>1, <1>2, OwingCounts

-----------------------------------------------------------------------------
(* Each effect keeps the placeholders' invariants *)

(* A placeholder that goes is worth one; the others stay as they are. *)
LEMMA ForgottenRows ==
  ASSUME TypeOK, NEW e \in Events, events' = events \/ events' = Forgotten(e)
  PROVE  /\ \A f \in Events \ {e} : events'[f] = events[f]
         /\ events'[e] = events[e] \/ (InProgress(e) /\ events'[e] = None)
  BY DEF TypeOK, Forgotten

(* Each placeholder stays worth one application of its action.               *)
LEMMA UnitsKept ==
  ASSUME ReplayInv, NEW c \in Copies, Effect(c)
  PROVE  UnitsHold'
<1>1. /\ TypeOK /\ UnitsHold
      /\ applied \in [Events -> Nat] /\ takeovers \in [Events -> Nat]
      /\ halfway \in [Events -> Nat]
      /\ events \in [Events -> EventRow \cup {None}]
  BY DEF ReplayInv, TypeOK
<1>2. Moves(c)
  BY DEF Effect, Quiet, TakesOver, Enters, GivesUp, Applies, Spoils, Stores
<1> SUFFICES ASSUME NEW f \in Events
             PROVE  applied'[f] + Cardinality(Owing(f))' + Spare(f)' <= Worth(f)'
  BY DEF UnitsHold
<1> DEFINE n == Cardinality(Owing(f))
<1>3. /\ n \in Nat
      /\ (Owes(c, f)' <=> Owes(c, f)) => n' = n
      /\ (Owes(c, f)' /\ ~Owes(c, f)) => n' = n + 1
      /\ (Owes(c, f) /\ ~Owes(c, f)') => n' = n - 1
  BY <1>2, OthersHold, OwingMoves
<1>4. applied[f] + n + Spare(f) <= Worth(f) /\ applied[f] \in Nat /\ Worth(f) \in Nat
  BY <1>1 DEF UnitsHold, Worth
<1> HIDE DEF n
<1>5. CASE Quiet(c)
  <2>1. (Owes(c, f)' <=> Owes(c, f)) /\ Spare(f)' = Spare(f)
    BY <1>5 DEF Quiet, Owes, Spare
  <2>2. n' = n /\ applied'[f] = applied[f] /\ Worth(f)' = Worth(f)
    BY <1>3, <1>5, <2>1 DEF Quiet, Worth
  <2> QED
    BY <1>4, <2>1, <2>2 DEF n
<1>6. ASSUME NEW e \in Events, TakesOver(c, e)
      PROVE  applied'[f] + n' + Spare(f)' <= Worth(f)'
  <2>1. ~Owes(c, f) /\ ~Owes(c, f)'
    BY <1>6 DEF TakesOver, Owes
  <2>2. n' = n /\ applied'[f] = applied[f]
    BY <1>3, <1>6, <2>1 DEF TakesOver
  <2>3. CASE f = e
    <3>1. Worth(f)' = Worth(f) + 1 /\ Spare(f)' = 1
      BY <1>1, <1>6, <2>3 DEF TakesOver, Spare, Worth
    <3>2. Spare(f) \in Nat
      BY DEF Spare
    <3> QED
      BY <1>3, <1>4, <2>2, <3>1, <3>2
  <2>4. CASE f # e
    <3>1. Worth(f)' = Worth(f) /\ Spare(f)' = Spare(f)
      BY <1>1, <1>6, <2>4 DEF TakesOver, Spare, Worth
    <3> QED
      BY <1>4, <2>2, <3>1
  <2> QED
    BY <2>3, <2>4
<1>7. ASSUME NEW e \in Events, Enters(c, e)
      PROVE  applied'[f] + n' + Spare(f)' <= Worth(f)'
  <2>1. PICK row \in EventRow : events' = [events EXCEPT ![e] = row]
    BY <1>7 DEF Enters
  <2>2. applied'[f] = applied[f] /\ Worth(f)' = Worth(f) /\ ~Owes(c, f)
    BY <1>7 DEF Enters, Owes, Worth
  <2>3. CASE f = e
    <3>1. Owes(c, f)' /\ n' = n + 1
      BY <1>3, <1>7, <2>2, <2>3, NoneIsNoEvent DEF Enters, Owes
    <3>2. Spare(f) = 1 /\ Spare(f)' = 0
      BY <1>1, <1>7, <2>1, <2>3, NoneIsNoEvent DEF Enters, Spare
    <3> QED
      BY <1>3, <1>4, <2>2, <3>1, <3>2
  <2>4. CASE f # e
    <3>1. ~Owes(c, f)' /\ n' = n /\ Spare(f)' = Spare(f)
      BY <1>1, <1>3, <1>7, <2>1, <2>2, <2>4 DEF Enters, Owes, Spare
    <3> QED
      BY <1>4, <2>2, <3>1
  <2> QED
    BY <2>3, <2>4
<1>8. ASSUME NEW e \in Events, GivesUp(c, e)
      PROVE  applied'[f] + n' + Spare(f)' <= Worth(f)'
  <2>1. applied'[f] = applied[f] /\ Worth(f)' = Worth(f) /\ ~Owes(c, f)'
    BY <1>8 DEF GivesUp, Owes, Holds, Worth
  <2>2. CASE f = e
    <3>1. n' = n - 1
      BY <1>3, <1>8, <2>1, <2>2 DEF GivesUp, Owes
    <3>2. Spare(f)' <= Spare(f) + 1 /\ Spare(f) \in Nat /\ Spare(f)' \in Nat
      BY DEF Spare
    <3> QED
      BY <1>3, <1>4, <2>1, <3>1, <3>2
  <2>3. CASE f # e
    <3>1. ~Owes(c, f) /\ Spare(f)' = Spare(f)
      BY <1>1, <1>8, <2>3, ForgottenRows DEF GivesUp, Owes, Holds, Spare
    <3> QED
      BY <1>3, <1>4, <2>1, <3>1
  <2> QED
    BY <2>2, <2>3
<1>9. ASSUME NEW e \in Events, Applies(c, e)
      PROVE  applied'[f] + n' + Spare(f)' <= Worth(f)'
  <2>1. /\ Worth(f)' = Worth(f) /\ Spare(f)' = Spare(f) /\ Spare(f) \in Nat
        /\ ~Owes(c, f)'
    BY <1>9 DEF Applies, Owes, Spare, Worth
  <2>2. CASE f = e
    <3>1. applied'[f] = applied[f] + 1 /\ n' = n - 1
      BY <1>1, <1>3, <1>9, <2>1, <2>2, NoneIsNoEvent DEF Applies, Owes
    <3> QED
      BY <1>3, <1>4, <2>1, <3>1
  <2>3. CASE f # e
    <3>1. applied'[f] = applied[f] /\ ~Owes(c, f)
      BY <1>1, <1>9, <2>3 DEF Applies, Owes, Holds
    <3> QED
      BY <1>3, <1>4, <2>1, <3>1
  <2> QED
    BY <2>2, <2>3
<1>10. ASSUME NEW e \in Events, Stores(c, e)
       PROVE  applied'[f] + n' + Spare(f)' <= Worth(f)'
  <2>1. applied'[f] = applied[f] /\ Worth(f)' = Worth(f) /\ ~Owes(c, f)'
    BY <1>10 DEF Stores, Owes, Holds, Worth
  <2>2. n' = n \/ n' = n - 1
    BY <1>3, <2>1
  <2>3. Spare(f)' = Spare(f) /\ Spare(f) \in Nat
    <3>1. CASE events' = events
      BY <3>1 DEF Spare
    <3>2. CASE events[e] # None /\ events' = [events EXCEPT ![e].status = copies[c].answer]
      <4>1. events[e] \in EventRow
        BY <1>1, <3>2
      <4>2. [events[e] EXCEPT !.status = copies[c].answer] \in EventRow
        BY <1>10, <4>1 DEF Stores, EventRow
      <4> QED
        BY <1>1, <3>2, <4>2, NoneIsNoEvent DEF Spare
    <3> QED
      BY <1>10, <3>1, <3>2 DEF Stores
  <2> QED
    BY <1>3, <1>4, <2>1, <2>2, <2>3
<1>11. ASSUME NEW e \in Events, Spoils(c, e)
       PROVE  applied'[f] + n' + Spare(f)' <= Worth(f)'
  <2>1. applied'[f] = applied[f] /\ Spare(f)' = Spare(f) /\ Spare(f) \in Nat
    BY <1>11 DEF Spoils, Spare
  <2>2. CASE f = e
    <3>1. ~Owes(c, f) /\ Owes(c, f)'
      BY <1>11, <2>2 DEF Spoils, Owes
    <3>2. Worth(f)' = Worth(f) + 1
      BY <1>1, <1>11, <2>2 DEF Spoils, Worth
    <3> QED
      BY <1>3, <1>4, <2>1, <3>1, <3>2
  <2>3. CASE f # e
    <3>1. ~Owes(c, f) /\ ~Owes(c, f)'
      BY <1>11, <2>3 DEF Spoils, Owes
    <3>2. Worth(f)' = Worth(f)
      BY <1>1, <1>11, <2>3 DEF Spoils, Worth
    <3> QED
      BY <1>3, <1>4, <2>1, <3>1, <3>2
  <2> QED
    BY <2>2, <2>3
<1> QED
  BY <1>5, <1>6, <1>7, <1>8, <1>9, <1>10, <1>11 DEF Effect, n

(* One copy at most is past a placeholder nobody took over, which is still   *)
(* in progress then.                                                         *)
LEMMA OneHolderKept ==
  ASSUME ReplayInv, NEW c \in Copies, Effect(c)
  PROVE  OneHolder'
<1>1. /\ TypeOK /\ OneHolder
      /\ takeovers \in [Events -> Nat]
      /\ events \in [Events -> EventRow \cup {None}]
  BY DEF ReplayInv, TypeOK
<1>2. Moves(c)
  BY DEF Effect, Quiet, TakesOver, Enters, GivesUp, Applies, Spoils, Stores
<1>3. \A d \in Copies \ {c}, f \in Events : Holds(d, f)' <=> Holds(d, f)
  BY <1>2, OthersHold
<1> SUFFICES ASSUME NEW f \in Events, takeovers'[f] = 0,
                    NEW d \in Copies, NEW g \in Copies, Holds(d, f)', Holds(g, f)'
             PROVE  d = g /\ InProgress(f)'
  BY DEF OneHolder
<1>4. ASSUME Holds(c, f)' => Holds(c, f), takeovers[f] = 0, events'[f] = events[f]
      PROVE  d = g /\ InProgress(f)'
  BY <1>1, <1>3, <1>4 DEF OneHolder, InProgress
<1>5. CASE Quiet(c)
  BY <1>4, <1>5 DEF Quiet
<1>6. ASSUME NEW e \in Events, TakesOver(c, e)
      PROVE  d = g /\ InProgress(f)'
  <2>1. f # e /\ takeovers[f] = 0 /\ events'[f] = events[f]
    BY <1>1, <1>6 DEF TakesOver
  <2> QED
    BY <1>4, <1>6, <2>1 DEF TakesOver
<1>7. ASSUME NEW e \in Events, Enters(c, e)
      PROVE  d = g /\ InProgress(f)'
  <2>1. PICK row \in EventRow : row.status = "IN_PROGRESS" /\ events' = [events EXCEPT ![e] = row]
    BY <1>7 DEF Enters
  <2>2. takeovers[f] = 0
    BY <1>7 DEF Enters
  <2>3. CASE f = e
    <3>1. \A x \in Copies : ~Holds(x, f)
      BY <1>1, <1>7, <2>2, <2>3 DEF Enters, OneHolder, InProgress
    <3>2. d = c /\ g = c
      BY <1>3, <3>1
    <3>3. events'[f] = row
      BY <1>1, <2>1, <2>3
    <3> QED
      BY <2>1, <3>2, <3>3, NoneIsNoEvent DEF InProgress
  <2>4. CASE f # e
    <3>1. events'[f] = events[f] /\ ~Holds(c, f)'
      BY <1>1, <1>7, <2>1, <2>4 DEF Enters
    <3> QED
      BY <1>4, <2>2, <3>1
  <2> QED
    BY <2>3, <2>4
<1>8. ASSUME NEW e \in Events, Holds(c, e), ~Holds(c, f)', UNCHANGED takeovers,
             \A x \in Events \ {e} : events'[x] = events[x]
      PROVE  d = g /\ InProgress(f)'
  <2>1. takeovers[f] = 0 /\ d # c
    BY <1>8
  <2>2. f # e
    BY <1>1, <1>3, <1>8, <2>1 DEF OneHolder
  <2> QED
    BY <1>4, <1>8, <2>1, <2>2
<1>9. ASSUME NEW e \in Events, GivesUp(c, e)
      PROVE  d = g /\ InProgress(f)'
  BY <1>1, <1>8, <1>9, ForgottenRows DEF GivesUp, Holds
<1>10. ASSUME NEW e \in Events, Applies(c, e)
       PROVE  d = g /\ InProgress(f)'
  BY <1>4, <1>10 DEF Applies
<1>11. ASSUME NEW e \in Events, Stores(c, e)
       PROVE  d = g /\ InProgress(f)'
  BY <1>1, <1>8, <1>11 DEF Stores, Holds
<1>12. ASSUME NEW e \in Events, Spoils(c, e)
       PROVE  d = g /\ InProgress(f)'
  BY <1>4, <1>12 DEF Spoils
<1> QED
  BY <1>5, <1>6, <1>7, <1>9, <1>10, <1>11, <1>12 DEF Effect

(* A stored answer stays true, and who has applied an action knows it.       *)
LEMMA AnswersKept ==
  ASSUME ReplayInv, NEW c \in Copies, Effect(c)
  PROVE  AnswersHold'
<1>1. /\ TypeOK /\ UnitsHold /\ OneHolder /\ AnswersHold
      /\ takeovers \in [Events -> Nat] /\ applied \in [Events -> Nat]
      /\ halfway \in [Events -> Nat]
      /\ events \in [Events -> EventRow \cup {None}]
  BY DEF ReplayInv, TypeOK
<1>2. Moves(c)
  BY DEF Effect, Quiet, TakesOver, Enters, GivesUp, Applies, Spoils, Stores
<1>3. \A d \in Copies \ {c} : /\ copies'[d] = copies[d]
                              /\ \A f \in Events : Holds(d, f)' <=> Holds(d, f)
  BY <1>2, OthersHold DEF Moves
<1> DEFINE Known(f) == \A d \in Copies : Holds(d, f) /\ copies[d].answer = "OK" => applied[f] = 1
           Stored(f) == Settled(f) => (events[f].status = "OK" <=> applied[f] = 1)
<1> SUFFICES ASSUME NEW f \in Events, takeovers'[f] = 0, halfway'[f] = 0
             PROVE  Known(f)' /\ Stored(f)'
  BY DEF AnswersHold
<1>4. ASSUME takeovers[f] = 0, halfway[f] = 0
      PROVE  Known(f) /\ Stored(f)
  BY <1>1, <1>4 DEF AnswersHold
<1>5. ASSUME takeovers[f] = 0, halfway[f] = 0,
             events'[f] = events[f], applied'[f] = applied[f],
             Holds(c, f)' => Holds(c, f) /\ (copies'[c].answer = "OK" => copies[c].answer = "OK")
      PROVE  Known(f)' /\ Stored(f)'
  BY <1>3, <1>4, <1>5 DEF Settled
<1>6. CASE Quiet(c)
  BY <1>5, <1>6 DEF Quiet
<1>7. ASSUME NEW e \in Events, TakesOver(c, e)
      PROVE  Known(f)' /\ Stored(f)'
  <2>1. f # e /\ takeovers[f] = 0 /\ halfway[f] = 0 /\ events'[f] = events[f]
    BY <1>1, <1>7 DEF TakesOver
  <2> QED
    BY <1>5, <1>7, <2>1 DEF TakesOver
<1>8. ASSUME NEW e \in Events, Enters(c, e)
      PROVE  Known(f)' /\ Stored(f)'
  <2>1. PICK row \in EventRow : row.status = "IN_PROGRESS" /\ events' = [events EXCEPT ![e] = row]
    BY <1>8 DEF Enters
  <2>2. /\ takeovers[f] = 0 /\ halfway[f] = 0
        /\ applied'[f] = applied[f] /\ copies'[c].answer # "OK"
    BY <1>8, NoneIsNoEvent DEF Enters
  <2>3. Known(f)'
    BY <1>3, <1>4, <2>2
  <2>4. CASE f = e
    <3>1. events'[f] = row
      BY <1>1, <2>1, <2>4
    <3> QED
      BY <2>1, <2>3, <3>1 DEF Settled
  <2>5. CASE f # e
    <3>1. events'[f] = events[f]
      BY <1>1, <2>1, <2>5
    <3> QED
      BY <1>4, <2>2, <2>3, <3>1 DEF Settled
  <2> QED
    BY <2>4, <2>5
<1>9. ASSUME NEW e \in Events, GivesUp(c, e)
      PROVE  Known(f)' /\ Stored(f)'
  <2>1. takeovers[f] = 0 /\ halfway[f] = 0 /\ applied'[f] = applied[f] /\ ~Holds(c, f)'
    BY <1>9 DEF GivesUp, Holds
  <2>2. Known(f)'
    BY <1>3, <1>4, <2>1
  <2>3. events'[f] = events[f] \/ events'[f] = None
    BY <1>1, <1>9, ForgottenRows DEF GivesUp
  <2> QED
    BY <1>4, <2>1, <2>2, <2>3 DEF Settled
<1>10. ASSUME NEW e \in Events, Applies(c, e)
       PROVE  Known(f)' /\ Stored(f)'
  <2>1. takeovers[f] = 0 /\ halfway[f] = 0 /\ events'[f] = events[f]
    BY <1>10 DEF Applies
  <2>2. CASE f = e
    <3>1. Owes(c, f)
      BY <1>10, <2>2, NoneIsNoEvent DEF Applies, Owes
    <3>2. applied[f] = 0
      BY <1>1, <2>1, <3>1, OwedIsNotApplied
    <3>3. applied'[f] = 1
      BY <1>1, <1>10, <2>2, <3>2 DEF Applies
    <3>4. InProgress(f)
      BY <1>1, <2>1, <3>1 DEF OneHolder, Owes
    <3> QED
      BY <2>1, <3>3, <3>4 DEF Settled, InProgress
  <2>3. CASE f # e
    <3>1. applied'[f] = applied[f] /\ ~Holds(c, f)'
      BY <1>1, <1>10, <2>3 DEF Applies
    <3> QED
      BY <1>5, <2>1, <3>1
  <2> QED
    BY <2>2, <2>3
<1>11. ASSUME NEW e \in Events, Stores(c, e)
       PROVE  Known(f)' /\ Stored(f)'
  <2>1. takeovers[f] = 0 /\ halfway[f] = 0 /\ applied'[f] = applied[f] /\ ~Holds(c, f)'
    BY <1>11 DEF Stores, Holds
  <2>2. CASE events'[f] = events[f]
    BY <1>5, <2>1, <2>2
  <2>3. CASE events'[f] # events[f]
    <3>1. f = e /\ events[e] # None /\ events' = [events EXCEPT ![e].status = copies[c].answer]
      BY <1>1, <1>11, <2>3 DEF Stores
    <3>2. events[f] \in EventRow
      BY <1>1, <3>1
    <3>3. events'[f].status = copies[c].answer
      BY <1>1, <3>1, <3>2 DEF EventRow
    <3>4. copies[c].answer = "OK" => applied[f] = 1
      BY <1>4, <1>11, <2>1, <3>1 DEF Stores
    <3>5. copies[c].answer # "OK" => applied[f] = 0
      BY <1>1, <1>11, <2>1, <3>1, OwedIsNotApplied DEF Stores, Owes
    <3>6. Known(f)'
      BY <1>3, <1>4, <2>1
    <3> QED
      BY <2>1, <3>3, <3>4, <3>5, <3>6 DEF Settled
  <2> QED
    BY <2>2, <2>3
<1>12. ASSUME NEW e \in Events, Spoils(c, e)
       PROVE  Known(f)' /\ Stored(f)'
  <2>1. f # e /\ halfway[f] = 0
    BY <1>1, <1>12 DEF Spoils
  <2> QED
    BY <1>5, <1>12, <2>1 DEF Spoils
<1> QED
  BY <1>6, <1>7, <1>8, <1>9, <1>10, <1>11, <1>12 DEF Effect

(* What lets the agent go on is still there when it has gone on. *)
LEMMA FinalStays ==
  ASSUME ReplayInv, NEW c \in Copies, Effect(c), unstored \subseteq unstored',
         NEW f \in Events, IsFinal(f)
  PROVE  IsFinal(f)'
<1>1. /\ TypeOK
      /\ takeovers \in [Events -> Nat] /\ events \in [Events -> EventRow \cup {None}]
  BY DEF ReplayInv, TypeOK
<1>2. Moves(c)
  BY DEF Effect, Quiet, TakesOver, Enters, GivesUp, Applies, Spoils, Stores
<1>3. \A e \in Events : takeovers'[e] \in Nat /\ takeovers'[e] >= takeovers[e]
  BY <1>1 DEF Effect, Quiet, TakesOver, Enters, GivesUp, Applies, Spoils, Stores
<1>4. CASE f \in unstored \/ takeovers[f] > 0
  BY <1>1, <1>3, <1>4 DEF IsFinal
<1>5. CASE takeovers[f] = 0 /\ events[f] # None /\ \A d \in Copies : ~Holds(d, f)
  <2>1. \A d \in Copies \ {c} : ~Holds(d, f)'
    BY <1>2, <1>5, OthersHold
  <2>2. ASSUME ~Holds(c, f)', events'[f] = events[f]
        PROVE  IsFinal(f)'
    BY <1>5, <2>1, <2>2 DEF IsFinal
  <2>3. CASE Quiet(c)
    BY <1>5, <2>2, <2>3 DEF Quiet
  <2>4. ASSUME NEW e \in Events, TakesOver(c, e)
        PROVE  IsFinal(f)'
    <3>1. CASE f = e
      BY <1>1, <2>4, <3>1 DEF TakesOver, IsFinal
    <3>2. CASE f # e
      BY <1>1, <2>2, <2>4, <3>2 DEF TakesOver
    <3> QED
      BY <3>1, <3>2
  <2>5. ASSUME NEW e \in Events, Enters(c, e)
        PROVE  IsFinal(f)'
    <3>1. f # e
      BY <1>5, <2>5 DEF Enters
    <3> QED
      BY <1>1, <2>2, <2>5, <3>1 DEF Enters
  <2>6. ASSUME NEW e \in Events, GivesUp(c, e)
        PROVE  IsFinal(f)'
    <3>1. f # e /\ ~Holds(c, f)'
      BY <1>5, <2>6 DEF GivesUp, Holds
    <3> QED
      BY <1>1, <2>2, <2>6, <3>1, ForgottenRows DEF GivesUp
  <2>7. ASSUME NEW e \in Events, Applies(c, e)
        PROVE  IsFinal(f)'
    BY <1>5, <2>2, <2>7 DEF Applies
  <2>8. ASSUME NEW e \in Events, Stores(c, e)
        PROVE  IsFinal(f)'
    <3>1. f # e /\ ~Holds(c, f)'
      BY <1>5, <2>8 DEF Stores, Holds
    <3> QED
      BY <1>1, <2>2, <2>8, <3>1 DEF Stores
  <2>9. ASSUME NEW e \in Events, Spoils(c, e)
        PROVE  IsFinal(f)'
    BY <1>5, <2>2, <2>9 DEF Spoils
  <2> QED
    BY <2>3, <2>4, <2>5, <2>6, <2>7, <2>8, <2>9 DEF Effect
<1> QED
  BY <1>1, <1>4, <1>5 DEF IsFinal

(* An answer moves the agent on only when it is final. *)
LEMMA AdvanceIsFinal ==
  ASSUME ReplayInv, NEW c \in Copies, Step(c), sent' # sent
  PROVE  \E e \in Events : e = sent /\ sent' = e + 1 /\ IsFinal(e)'
<1>1. TypeOK /\ StagesHold /\ OneHolder /\ takeovers \in [Events -> Nat]
      /\ events \in [Events -> EventRow \cup {None}]
  BY DEF ReplayInv, TypeOK
<1>2. PICK final \in BOOLEAN : copies[c] # None /\ Answered(c, final)
  BY DEF Step, Send, Find, TakeOver, Judge, Create, ReadDay, Reopen, Apply, Refuse, FailLate,
     Restore, Settle, At, Goto, Answer
<1>3. PICK e \in Events : e = copies[c].event
  BY <1>1, <1>2, InFlight DEF Copy
<1>4. e = sent /\ sent' = e + 1 /\ copies[c] \in Copy
  BY <1>1, <1>2, <1>3, Backward, InFlight
<1>5. Moves(c) /\ copies'[c] = None
  BY <1>1, <1>2, Backward
<1>6. CASE Find(c)
  <2>1. copies[c].pc = "find" /\ Settled(e)
    BY <1>3, <1>6 DEF Find, At, Answered, Goto
  <2>2. UNCHANGED <<events, takeovers>>
    BY <1>6 DEF Find
  <2>3. CASE takeovers[e] = 0
    <3>1. \A d \in Copies : ~Holds(d, e)
      BY <1>1, <1>4, <2>1, <2>3 DEF OneHolder, Settled, InProgress
    <3>2. \A d \in Copies : ~Holds(d, e)'
      BY <1>5, <3>1, OthersHold DEF Holds
    <3> QED
      BY <1>4, <2>1, <2>2, <3>2 DEF IsFinal, Settled
  <2>4. CASE takeovers[e] > 0
    BY <1>4, <2>2, <2>4 DEF IsFinal
  <2> QED
    BY <1>1, <1>4, <2>3, <2>4
<1>7. CASE Judge(c)
  <2>1. e \in unstored'
    BY <1>3, <1>7 DEF Judge, Answered, Goto
  <2> QED
    BY <1>4, <2>1 DEF IsFinal
<1>8. CASE Reopen(c)
  <2>1. e \in unstored'
    BY <1>3, <1>8 DEF Reopen, Answered, Goto
  <2> QED
    BY <1>4, <2>1 DEF IsFinal
<1>9. CASE Settle(c)
  <2>1. copies[c].pc = "settle" /\ Holds(c, e) /\ UNCHANGED takeovers
    BY <1>2, <1>3, <1>9 DEF Settle, At, Holds
  <2>2. /\ copies[c].answer \in {"OK", "REFUSED"}
        /\ \/ /\ events[e] # None
              /\ events' = [events EXCEPT ![e].status = copies[c].answer]
           \/ UNCHANGED events
    BY <1>1, <1>2, <1>3, <1>4, <1>9, <2>1 DEF Settle, Answered, Copy, StagesHold, Staged
  <2>3. CASE takeovers[e] = 0
    <3>1. events[e] # None /\ \A d \in Copies \ {c} : ~Holds(d, e)
      BY <1>1, <1>4, <2>1, <2>3 DEF OneHolder, InProgress
    <3>2. \A d \in Copies : ~Holds(d, e)'
      BY <1>5, <3>1, OthersHold DEF Holds
    <3>3. events'[e] # None
      <4>1. events[e] \in EventRow
        BY <1>1, <1>4, <3>1
      <4>2. [events[e] EXCEPT !.status = copies[c].answer] \in EventRow
        BY <2>2, <4>1 DEF EventRow
      <4> QED
        BY <1>1, <1>4, <2>2, <3>1, <4>2, NoneIsNoEvent
    <3> QED
      BY <1>4, <3>2, <3>3 DEF IsFinal
  <2>4. CASE takeovers[e] > 0
    BY <1>4, <2>1, <2>4 DEF IsFinal
  <2> QED
    BY <1>1, <1>4, <2>3, <2>4
<1>10. CASE Create(c)
  BY <1>4, <1>10 DEF Create, Answered, Goto
<1> QED
  BY <1>3, <1>6, <1>7, <1>8, <1>9, <1>10
     DEF Step, Send, TakeOver, ReadDay, Apply, Refuse, FailLate, Restore, Goto, Answer

(* The agent goes on only from an action that was answered for good, and no  *)
(* action it has not sent is applied.                                        *)
LEMMA FinalKept ==
  ASSUME ReplayInv, NEW c \in Copies, Step(c), Effect(c), sent \in Nat,
         sent' \in Nat, sent <= sent', unstored \subseteq unstored'
  PROVE  FinalStands'
<1>1. FinalStands /\ applied \in [Events -> Nat]
  BY DEF ReplayInv, TypeOK
<1> SUFFICES ASSUME NEW f \in Events
             PROVE  /\ f < sent' => IsFinal(f)'
                    /\ applied'[f] > 0 => f <= sent'
  BY DEF FinalStands
<1>2. f \in Nat
  BY JournalAssumption DEF Events
<1>3. f < sent' => IsFinal(f)'
  <2>1. CASE f < sent
    BY <1>1, <2>1, FinalStays DEF FinalStands
  <2>2. CASE ~(f < sent) /\ f < sent'
    <3>1. PICK e \in Events : e = sent /\ sent' = e + 1 /\ IsFinal(e)'
      BY <2>2, AdvanceIsFinal
    <3>2. f = e
      BY <1>2, <2>2, <3>1
    <3> QED
      BY <3>1, <3>2
  <2> QED
    BY <2>1, <2>2
<1>4. applied'[f] > 0 => f <= sent'
  <2>1. CASE applied'[f] = applied[f]
    BY <1>1, <1>2, <2>1 DEF FinalStands
  <2>2. CASE applied'[f] # applied[f]
    <3>1. PICK e \in Events : Applies(c, e)
      BY <2>2 DEF Effect, Quiet, TakesOver, Enters, GivesUp, Spoils, Stores
    <3> QED
      BY <1>1, <2>2, <3>1 DEF Applies
  <2> QED
    BY <2>1, <2>2
<1> QED
  BY <1>3, <1>4

-----------------------------------------------------------------------------
(* Types and stages *)

(* The day is written a row at a time, and no row is deleted. *)
LEMMA DayWritten ==
  ASSUME LedgerTypeOK, NEW i \in SessionIds, NEW s \in Session,
         sessions' = [sessions EXCEPT ![i] = s]
  PROVE  LedgerTypeOK' /\ Rows \subseteq Rows'
<1>1. LedgerTypeOK' /\ i \in Rows' /\ \A j \in SessionIds \ {i} : sessions'[j] = sessions[j]
  BY RowWritten
<1> QED
  BY <1>1 DEF Rows

LEMMA DayKept ==
  ASSUME LedgerTypeOK, UNCHANGED sessions
  PROVE  LedgerTypeOK' /\ Rows \subseteq Rows'
  BY DEF LedgerTypeOK, Rows

LEMMA DayEnded ==
  ASSUME LedgerTypeOK, NEW i \in SessionIds, NEW t \in Times, Ended(i, t)
  PROVE  LedgerTypeOK' /\ Rows \subseteq Rows'
<1> DEFINE s == [sessions[i] EXCEPT !.end = t, !.reason = "USER"]
<1>1. sessions[i] \in Session
  BY DEF Ended, OpenIds, Rows, LedgerTypeOK
<1>2. s \in Session
  BY <1>1 DEF Session
<1>3. sessions' = [sessions EXCEPT ![i] = s]
  BY DEF Ended
<1> HIDE DEF s
<1> QED
  BY <1>2, <1>3, DayWritten

LEMMA StagesKept ==
  ASSUME TypeOK, StagesHold, NEW c \in Copies, Moves(c), Rows \subseteq Rows',
         sent' \in Nat, sent <= sent', Staged(c)'
  PROVE  StagesHold'
<1> SUFFICES ASSUME NEW d \in Copies \ {c}, copies'[d] # None
             PROVE  Staged(d)'
  BY DEF StagesHold, Staged
<1>1. copies'[d] = copies[d] /\ Staged(d) /\ copies[d] # None /\ sent \in Nat
  BY DEF Moves, StagesHold, TypeOK
<1>2. copies[d].event \in Nat
  BY <1>1, InFlight, JournalAssumption DEF Copy, Events
<1> QED
  BY <1>1, <1>2 DEF Staged

(* Every step of a copy keeps the types, and a copy remembers what its stage *)
(* needs.                                                                    *)
LEMMA StepKeepsTypes ==
  ASSUME ReplayInv, NEW c \in Copies, Step(c)
  PROVE  /\ TypeOK' /\ StagesHold'
         /\ sent \in Nat /\ sent' \in Nat /\ sent <= sent' /\ unstored \subseteq unstored'
<1> DEFINE e == copies[c].event
           Typed == /\ LedgerTypeOK' /\ Rows \subseteq Rows'
                    /\ events' \in [Events -> EventRow \cup {None}]
                    /\ applied' \in [Events -> Nat] /\ takeovers' \in [Events -> Nat]
                    /\ halfway' \in [Events -> Nat]
                    /\ unstored' \subseteq Events /\ unstored \subseteq unstored'
                    /\ clock' = clock
           Moved == /\ copies' \in [Copies -> Copy \cup {None}] /\ Moves(c)
                    /\ sent' \in 1 .. Length + 1 /\ sent <= sent'
                    /\ Rows \subseteq Rows' => Staged(c)'
<1>1. /\ TypeOK /\ StagesHold /\ LedgerTypeOK /\ Staged(c)
      /\ events \in [Events -> EventRow \cup {None}]
      /\ applied \in [Events -> Nat] /\ takeovers \in [Events -> Nat]
      /\ halfway \in [Events -> Nat]
      /\ unstored \subseteq Events /\ clock \in Times
      /\ sent \in 1 .. Length + 1 /\ sent \in Nat
  BY DEF ReplayInv, TypeOK, StagesHold
<1>2. copies[c] # None => copies[c] \in Copy /\ e \in Events /\ e \in Nat
  BY <1>1, InFlight, JournalAssumption DEF Copy, Events
<1> SUFFICES Typed /\ Moved
  BY <1>1, StagesKept, JournalAssumption DEF TypeOK
<1> HIDE DEF Typed, Moved
<1>3. UNCHANGED <<sessions, events, applied, takeovers, halfway, unstored, clock>> => Typed
  BY <1>1, DayKept DEF Typed
<1>4. ASSUME copies[c] # None, NEW final \in BOOLEAN, Answered(c, final)
      PROVE  Moved
  BY <1>1, <1>4, Backward DEF Moved, Staged
<1>5. ASSUME copies[c] # None, copies[c].pc \notin {"restore", "settle"},
             NEW pc \in {"takeover", "judge", "create", "read", "handle"}, Goto(c, pc)
      PROVE  Moved
  <2>1. /\ copies' \in [Copies -> Copy \cup {None}] /\ Moves(c)
        /\ copies'[c].pc = pc /\ copies'[c].event = e
        /\ copies'[c].before = copies[c].before /\ copies'[c].answer = copies[c].answer
        /\ sent' = sent
    BY <1>1, <1>5, Forward
  <2> QED
    BY <1>1, <1>5, <2>1 DEF Moved, Staged
<1>6. ASSUME copies[c] # None, NEW a \in {"OK", "REFUSED", "FAILED"}, Answer(c, a)
      PROVE  Moved
  <2>1. /\ copies' \in [Copies -> Copy \cup {None}] /\ Moves(c)
        /\ copies'[c].answer = a
        /\ copies'[c].pc = IF a # "OK" /\ copies[c].before # None THEN "restore" ELSE "settle"
        /\ copies'[c].event = copies[c].event /\ copies'[c].before = copies[c].before
        /\ sent' = sent
    BY <1>1, <1>6, HandlerAnswers
  <2> QED
    BY <1>1, <1>6, <2>1, NoneIsNoEvent DEF Moved, Staged
<1>7. CASE Send(c)
  <2> DEFINE q == [event |-> sent, now |-> clock, pc |-> "find", before |-> None,
                   answer |-> None]
  <2>1. /\ q \in Copy /\ q.pc = "find" /\ q.before = None /\ q.answer = None /\ q.event = sent
    BY <1>1, <1>7, JournalAssumption DEF Send, Copy, Events
  <2>2. copies' = [copies EXCEPT ![c] = q] /\ sent' = sent
    BY <1>7 DEF Send
  <2> HIDE DEF q
  <2>3. copies' \in [Copies -> Copy \cup {None}] /\ Moves(c) /\ copies'[c] = q
    BY <1>1, <2>1, <2>2, CopyWritten
  <2>4. Moved
    BY <1>1, <2>1, <2>2, <2>3 DEF Moved, Staged
  <2> QED
    BY <1>3, <1>7, <2>4 DEF Send
<1>8. CASE Find(c)
  <2>1. copies[c] # None /\ copies[c].pc = "find"
    BY <1>8 DEF Find, At
  <2>2. \/ \E final \in BOOLEAN : Answered(c, final)
        \/ \E pc \in {"takeover", "judge"} : Goto(c, pc)
    BY <1>8 DEF Find
  <2> QED
    BY <1>3, <1>4, <1>5, <1>8, <2>1, <2>2 DEF Find
<1>9. CASE TakeOver(c)
  <2>1. copies[c] # None /\ copies[c].pc = "takeover" /\ Goto(c, "judge")
    BY <1>9 DEF TakeOver, At
  <2>2. /\ \/ events' = events \/ events' = [events EXCEPT ![e] = None]
        /\ \/ takeovers' = takeovers \/ takeovers' = [takeovers EXCEPT ![e] = @ + 1]
        /\ UNCHANGED <<sessions, applied, halfway, unstored, clock>>
    BY <1>9 DEF TakeOver
  <2>3. Typed
    BY <1>1, <2>2, DayKept DEF Typed
  <2> QED
    BY <1>5, <2>1, <2>3
<1>10. CASE Judge(c)
  <2>1. copies[c] # None /\ copies[c].pc = "judge"
    BY <1>10 DEF Judge, At
  <2>2. Answered(c, TRUE) \/ Goto(c, "create")
    BY <1>10 DEF Judge
  <2>3. /\ unstored' = unstored \/ unstored' = unstored \cup {e}
        /\ UNCHANGED <<sessions, events, applied, takeovers, halfway, clock>>
    BY <1>10 DEF Judge
  <2>4. Typed
    BY <1>1, <1>2, <2>1, <2>3, DayKept DEF Typed
  <2> QED
    BY <1>4, <1>5, <2>1, <2>2, <2>4
<1>11. CASE Create(c)
  <2> DEFINE row == [status |-> "IN_PROGRESS", received |-> clock]
  <2>1. copies[c] # None /\ copies[c].pc = "create"
    BY <1>11 DEF Create, At
  <2>2. Answered(c, FALSE) \/ \E pc \in {"read", "handle"} : Goto(c, pc)
    BY <1>11 DEF Create
  <2>3. row \in EventRow
    BY <1>1 DEF EventRow
  <2>4. /\ events' = events \/ events' = [events EXCEPT ![e] = row]
        /\ UNCHANGED <<sessions, applied, takeovers, halfway, unstored, clock>>
    BY <1>11 DEF Create
  <2> HIDE DEF row
  <2>5. Typed
    BY <1>1, <2>3, <2>4, DayKept DEF Typed
  <2> QED
    BY <1>4, <1>5, <2>1, <2>2, <2>5
<1>12. CASE ReadDay(c)
  <2>1. copies[c] # None /\ copies[c].pc = "read"
    BY <1>12 DEF ReadDay, At
  <2>2. Typed
    BY <1>3, <1>12 DEF ReadDay
  <2>3. CASE Goto(c, "handle")
    BY <1>5, <2>1, <2>2, <2>3
  <2>4. CASE ~Goto(c, "handle")
    <3>1. PICK i \in SessionIds :
            /\ Reopens(i, EventAt[e])
            /\ copies' = [copies EXCEPT ![c] = [@ EXCEPT !.pc = "reopen",
                 !.before = [id |-> i, end |-> sessions[i].end, source |-> sessions[i].source]]]
            /\ sent' = sent
      BY <1>12, <2>4 DEF ReadDay
    <3> DEFINE b == [id |-> i, end |-> sessions[i].end, source |-> sessions[i].source]
               q == [copies[c] EXCEPT !.pc = "reopen", !.before = b]
    <3>2. b \in Before /\ b.id \in Rows
      BY <1>1, <3>1 DEF Reopens, IsLast, Rows, OpenIds, LedgerTypeOK, Session, Before
    <3>3. /\ q \in Copy /\ q.pc = "reopen" /\ q.event = e /\ q.answer = copies[c].answer
          /\ q.before = b
      BY <1>2, <2>1, <3>2 DEF Copy
    <3>4. copies' = [copies EXCEPT ![c] = q]
      BY <3>1
    <3>5. b # None
      BY <3>2, NoneIsNoEvent
    <3> HIDE DEF q, b
    <3>6. copies' \in [Copies -> Copy \cup {None}] /\ Moves(c) /\ copies'[c] = q
      BY <1>1, <3>3, <3>4, CopyWritten
    <3>7. sent' = sent /\ e <= sent /\ q.answer = None
      BY <1>1, <2>1, <3>1, <3>3 DEF Staged
    <3>8. Rows \subseteq Rows' => Staged(c)'
      BY <2>1, <3>2, <3>3, <3>5, <3>6, <3>7 DEF Staged
    <3>9. Moved
      BY <1>1, <3>6, <3>7, <3>8 DEF Moved
    <3> QED
      BY <2>2, <3>9
  <2> QED
    BY <2>3, <2>4
<1>13. CASE Reopen(c)
  <2> DEFINE b == copies[c].before
             s == [sessions[b.id] EXCEPT !.end = None, !.source = "REPLAY"]
  <2>1. copies[c] # None /\ copies[c].pc = "reopen"
    BY <1>13 DEF Reopen, At
  <2>2. b.id \in SessionIds /\ sessions[b.id] \in Session
    BY <1>1, <2>1 DEF Staged, Rows, LedgerTypeOK
  <2>3. s \in Session
    BY <2>2 DEF Session, Sources
  <2>4. Answered(c, TRUE) \/ Goto(c, "handle")
    BY <1>13 DEF Reopen
  <2>5. /\ sessions' = sessions \/ sessions' = [sessions EXCEPT ![b.id] = s]
        /\ events' = events \/ events' = Forgotten(e)
        /\ unstored' = unstored \/ unstored' = unstored \cup {e}
        /\ UNCHANGED <<applied, takeovers, halfway, clock>>
    BY <1>13 DEF Reopen
  <2> HIDE DEF s
  <2>6. LedgerTypeOK' /\ Rows \subseteq Rows'
    BY <1>1, <2>2, <2>3, <2>5, DayWritten, DayKept
  <2>7. Typed
    BY <1>1, <1>2, <2>1, <2>5, <2>6 DEF Typed, Forgotten
  <2> QED
    BY <1>4, <1>5, <2>1, <2>4, <2>7
<1>14. CASE Apply(c)
  <2>1. copies[c] # None /\ Answer(c, "OK")
    BY <1>14 DEF Apply, At
  <2>2. /\ \/ UNCHANGED sessions
           \/ \E i \in OpenIds, at \in Times : Ended(i, AtLeast(at, sessions[i].start))
        /\ applied' = [applied EXCEPT ![e] = @ + 1]
        /\ UNCHANGED <<clock, events, takeovers, halfway, unstored>>
    <3>1. EventAt[e] \in Times
      BY <1>2, <2>1, JournalAssumption
    <3> QED
      BY <1>1, <1>14, <3>1 DEF Apply
  <2>3. LedgerTypeOK' /\ Rows \subseteq Rows'
    <3>1. ASSUME NEW i \in OpenIds, NEW at \in Times, Ended(i, AtLeast(at, sessions[i].start))
          PROVE  LedgerTypeOK' /\ Rows \subseteq Rows'
      <4>1. i \in SessionIds /\ AtLeast(at, sessions[i].start) \in Times
        BY <1>1 DEF OpenIds, Rows, LedgerTypeOK, Session, AtLeast
      <4> QED
        BY <1>1, <3>1, <4>1, DayEnded
    <3> QED
      BY <1>1, <2>2, <3>1, DayKept
  <2>4. applied' \in [Events -> Nat]
    <3>1. applied[e] + 1 \in Nat
      BY <1>1, <1>2, <2>1
    <3>2. applied' = [applied EXCEPT ![e] = applied[e] + 1]
      BY <1>14 DEF Apply
    <3> QED
      BY <1>1, <3>1, <3>2
  <2>5. UNCHANGED <<clock, events, takeovers, halfway, unstored>>
    BY <2>2
  <2>6. Typed
    BY <1>1, <2>3, <2>4, <2>5 DEF Typed
  <2> QED
    BY <1>6, <2>1, <2>6
<1>15. CASE Refuse(c)
  <2>1. copies[c] # None /\ \E a \in {"REFUSED", "FAILED"} : Answer(c, a)
    BY <1>15 DEF Refuse, At
  <2> QED
    BY <1>3, <1>6, <1>15, <2>1 DEF Refuse
<1>18. CASE FailLate(c)
  <2>1. copies[c] # None /\ \E a \in {"REFUSED", "FAILED"} : Answer(c, a)
    BY <1>18 DEF FailLate, At
  <2>2. /\ halfway' = [halfway EXCEPT ![e] = halfway[e] + 1]
        /\ UNCHANGED <<sessions, events, applied, takeovers, unstored, clock>>
    BY <1>18 DEF FailLate
  <2>3. halfway[e] + 1 \in Nat
    BY <1>1, <1>2, <2>1
  <2>4. Typed
    BY <1>1, <2>2, <2>3, DayKept DEF Typed
  <2> QED
    BY <1>6, <2>1, <2>4
<1>16. CASE Restore(c)
  <2> DEFINE b == copies[c].before
             s == [sessions[b.id] EXCEPT !.end = b.end, !.reason = "AUTO_CLOSED",
                                         !.source = b.source]
  <2>1. copies[c] # None /\ copies[c].pc = "restore" /\ Goto(c, "settle")
    BY <1>16 DEF Restore, At
  <2>2. /\ b.id \in SessionIds /\ sessions[b.id] \in Session
        /\ b \in Before
    BY <1>1, <1>2, <2>1 DEF Staged, Rows, LedgerTypeOK, Copy
  <2>3. s \in Session
    BY <2>2 DEF Session, Before
  <2>4. /\ sessions' = sessions \/ sessions' = [sessions EXCEPT ![b.id] = s]
        /\ UNCHANGED <<clock, events, applied, takeovers, halfway, unstored>>
    BY <1>16 DEF Restore
  <2> HIDE DEF s
  <2>5. Typed
    BY <1>1, <2>2, <2>3, <2>4, DayWritten, DayKept DEF Typed
  <2>6. /\ copies' \in [Copies -> Copy \cup {None}] /\ Moves(c)
        /\ copies'[c].pc = "settle" /\ copies'[c].event = e
        /\ copies'[c].before = b /\ copies'[c].answer = copies[c].answer
        /\ sent' = sent
    BY <1>1, <2>1, Forward
  <2>7. Moved
    BY <1>1, <2>1, <2>6 DEF Moved, Staged
  <2> QED
    BY <2>5, <2>7
<1>17. CASE Settle(c)
  <2>1. /\ copies[c] # None /\ copies[c].pc = "settle"
        /\ copies[c].answer \in {"OK", "REFUSED", "FAILED"}
    BY <1>1, <1>2, <1>17 DEF Settle, At, Staged, Copy
  <2>2. \E final \in BOOLEAN : Answered(c, final)
    BY <1>17 DEF Settle
  <2>3. /\ \/ events' = events \/ events' = Forgotten(e)
           \/ /\ events[e] # None /\ copies[c].answer # "FAILED"
              /\ events' = [events EXCEPT ![e].status = copies[c].answer]
        /\ UNCHANGED <<clock, sessions, applied, takeovers, halfway, unstored>>
    BY <1>17 DEF Settle
  <2>4. events' \in [Events -> EventRow \cup {None}]
    <3>1. CASE events' = events \/ events' = Forgotten(e)
      BY <1>1, <3>1 DEF Forgotten
    <3>2. CASE /\ events[e] # None /\ copies[c].answer # "FAILED"
               /\ events' = [events EXCEPT ![e].status = copies[c].answer]
      <4>1. events[e] \in EventRow
        BY <1>1, <1>2, <2>1, <3>2
      <4>2. [events[e] EXCEPT !.status = copies[c].answer] \in EventRow
        BY <2>1, <3>2, <4>1 DEF EventRow
      <4> QED
        BY <1>1, <3>2, <4>2
    <3> QED
      BY <2>3, <3>1, <3>2
  <2>5. Typed
    BY <1>1, <2>3, <2>4, DayKept DEF Typed
  <2> QED
    BY <1>4, <2>1, <2>2, <2>5
<1> QED
  BY <1>7, <1>8, <1>9, <1>10, <1>11, <1>12, <1>13, <1>14, <1>15, <1>16, <1>17, <1>18
     DEF Step

-----------------------------------------------------------------------------
(* Theorems *)

(* A crash takes the copies and leaves the rows; the agent's journal, the    *)
(* other writers of the day and the clock leave the placeholders alone.      *)
LEMMA CrashKeepsInv ==
  ASSUME ReplayInv, Crash
  PROVE  ReplayInv'
<1>1. /\ TypeOK /\ UnitsHold /\ AnswersHold /\ FinalStands
      /\ UNCHANGED <<clock, sessions, events, sent, applied, takeovers, halfway,
                  unstored>>
      /\ \A c \in Copies : copies'[c] = None
      /\ copies' \in [Copies -> Copy \cup {None}]
  BY DEF ReplayInv, Crash
<1>2. \A c \in Copies : \A e : ~Holds(c, e)'
  BY <1>1 DEF Holds
<1>3. TypeOK' /\ StagesHold'
  BY <1>1 DEF TypeOK, LedgerTypeOK, StagesHold, Staged
<1>4. UnitsHold'
  <2> SUFFICES ASSUME NEW e \in Events
               PROVE  applied[e] + Cardinality(Owing(e))' + Spare(e)' <= Worth(e)
    BY <1>1 DEF UnitsHold, Worth
  <2>1. Owing(e) \in SUBSET Copies /\ Owing(e)' = {}
    BY <1>2 DEF Owing, Owes
  <2>2. Cardinality(Owing(e)) \in Nat /\ Cardinality(Owing(e))' = 0
    BY <2>1, FS_Subset, FS_CardinalityType, FS_EmptySet, JournalAssumption
  <2>3. /\ applied[e] \in Nat /\ Worth(e) \in Nat /\ Spare(e) \in Nat /\ Spare(e)' = Spare(e)
        /\ applied[e] + Cardinality(Owing(e)) + Spare(e) <= Worth(e)
    BY <1>1 DEF TypeOK, UnitsHold, Spare, Worth
  <2> QED
    BY <2>2, <2>3
<1>5. OneHolder'
  BY <1>2 DEF OneHolder
<1>6. AnswersHold'
  BY <1>1, <1>2 DEF AnswersHold, Settled
<1>7. FinalStands'
  BY <1>1, <1>2 DEF FinalStands, IsFinal
<1> QED
  BY <1>3, <1>4, <1>5, <1>6, <1>7 DEF ReplayInv

(* What else may happen to the day, its types kept. *)
LEMMA OthersKeepTypes ==
  ASSUME TypeOK, Others
  PROVE  LedgerTypeOK' /\ Rows \subseteq Rows'
<1>1. LedgerTypeOK /\ clock \in Times /\ 0 .. clock \subseteq Times
  BY CloseAssumption DEF TypeOK, Times
<1>2. PICK i \in SessionIds :
        \/ Opened(i) \/ Ended(i, clock)
        \/ \E t \in Times : AutoClosed(i, t) \/ Extended(i, t)
  BY <1>1 DEF Others
<1>3. CASE Opened(i)
  <2>1. PICK date \in Days, t \in Times, source \in Sources :
               sessions' = [sessions EXCEPT ![i] = NewSession(date, t, source)]
    BY <1>3 DEF Opened
  <2>2. NewSession(date, t, source) \in Session
    BY DEF NewSession, Session
  <2> QED
    BY <1>1, <2>1, <2>2, DayWritten
<1>4. CASE Ended(i, clock)
  BY <1>1, <1>4, DayEnded
<1>5. ASSUME NEW t \in Times, AutoClosed(i, t)
      PROVE  LedgerTypeOK' /\ Rows \subseteq Rows'
  <2> DEFINE s == [sessions[i] EXCEPT !.end = t, !.reason = "AUTO_CLOSED"]
  <2>1. sessions[i] \in Session
    BY <1>1, <1>5 DEF AutoClosed, OpenIds, Rows, LedgerTypeOK
  <2>2. s \in Session
    BY <2>1 DEF Session
  <2>3. sessions' = [sessions EXCEPT ![i] = s]
    BY <1>5 DEF AutoClosed
  <2> HIDE DEF s
  <2> QED
    BY <1>1, <2>2, <2>3, DayWritten
<1>6. ASSUME NEW t \in Times, Extended(i, t)
      PROVE  LedgerTypeOK' /\ Rows \subseteq Rows'
  <2> DEFINE s == [sessions[i] EXCEPT !.end = t, !.source = "REPLAY"]
  <2>1. sessions[i] \in Session
    BY <1>1, <1>6 DEF Extended, ClosedIds, Rows, LedgerTypeOK
  <2>2. s \in Session
    BY <2>1 DEF Session, Sources
  <2>3. sessions' = [sessions EXCEPT ![i] = s]
    BY <1>6 DEF Extended
  <2> HIDE DEF s
  <2> QED
    BY <1>1, <2>2, <2>3, DayWritten
<1> QED
  BY <1>2, <1>3, <1>4, <1>5, <1>6

LEMMA QuietStepsKeepInv ==
  ASSUME ReplayInv, LedgerTypeOK', Rows \subseteq Rows', clock' \in Times,
         UNCHANGED <<events, copies, sent, applied, takeovers, halfway, unstored>>
  PROVE  ReplayInv'
<1>1. TypeOK'
  BY DEF ReplayInv, TypeOK
<1>2. StagesHold'
  BY DEF ReplayInv, StagesHold, Staged
<1>3. UnitsHold' /\ OneHolder'
  BY DEF ReplayInv, UnitsHold, Owing, Owes, Holds, Spare, Worth, OneHolder, InProgress
<1>4. AnswersHold' /\ FinalStands'
  BY DEF ReplayInv, AnswersHold, FinalStands, IsFinal, Holds, Settled
<1> QED
  BY <1>1, <1>2, <1>3, <1>4 DEF ReplayInv

(* The invariant is inductive. *)
THEOREM ReplayInvariant == Spec => []ReplayInv
<1>1. Init => ReplayInv
  <2> SUFFICES ASSUME Init
               PROVE  ReplayInv
    OBVIOUS
  <2>1. \A c \in Copies : \A e : ~Holds(c, e)
    BY DEF Init, Holds
  <2>2. TypeOK /\ StagesHold
    BY CloseAssumption, JournalAssumption
       DEF Init, LedgerInit, TypeOK, LedgerTypeOK, Times, StagesHold, Staged
  <2>3. UnitsHold
    <3>1. \A e : Owing(e) = {}
      BY <2>1 DEF Owing, Owes
    <3> QED
      BY <3>1, FS_EmptySet DEF Init, UnitsHold, Spare, Worth
  <2>4. OneHolder /\ AnswersHold
    BY <2>1 DEF Init, OneHolder, AnswersHold, Settled
  <2>5. FinalStands
    BY JournalAssumption DEF Init, FinalStands, Events
  <2> QED
    BY <2>2, <2>3, <2>4, <2>5 DEF ReplayInv
<1>2. ReplayInv /\ [Next]_vars => ReplayInv'
  <2> SUFFICES ASSUME ReplayInv, [Next]_vars
               PROVE  ReplayInv'
    OBVIOUS
  <2>1. TypeOK /\ LedgerTypeOK /\ clock \in Times
    BY DEF ReplayInv, TypeOK
  <2>2. ASSUME NEW c \in Copies, Step(c)
        PROVE  ReplayInv'
    <3>1. /\ TypeOK' /\ StagesHold'
          /\ sent \in Nat /\ sent' \in Nat /\ sent <= sent' /\ unstored \subseteq unstored'
      BY <2>2, StepKeepsTypes
    <3>2. Effect(c)
      BY <2>2, StepHasEffect
    <3>3. UnitsHold' /\ OneHolder' /\ AnswersHold'
      BY <3>2, UnitsKept, OneHolderKept, AnswersKept
    <3>4. FinalStands'
      BY <2>2, <3>1, <3>2, FinalKept
    <3> QED
      BY <3>1, <3>3, <3>4 DEF ReplayInv
  <2>3. CASE Crash
    BY <2>3, CrashKeepsInv
  <2>4. CASE Others
    BY <2>1, <2>4, OthersKeepTypes, QuietStepsKeepInv DEF Others
  <2>5. CASE Tick
    <3>1. clock' \in Times
      BY <2>1, <2>5, CloseAssumption DEF Tick, Times
    <3> QED
      BY <2>1, <2>5, <3>1, DayKept, QuietStepsKeepInv DEF Tick
  <2>6. CASE UNCHANGED vars
    BY <2>1, <2>6, DayKept, QuietStepsKeepInv DEF vars
  <2> QED
    BY <2>2, <2>3, <2>4, <2>5, <2>6 DEF Next
<1> QED
  BY <1>1, <1>2, PTL DEF Spec

(* One copy passes each placeholder (ReplayInterceptor.begin): an action is  *)
(* applied once for each placeholder it had, and while none was deleted as   *)
(* stale the one copy past it holds it.                                      *)
THEOREM OnePerPlaceholder == Spec => []PlaceholderHolds
<1>1. ReplayInv => PlaceholderHolds
  <2> SUFFICES ASSUME ReplayInv
               PROVE  AppliedPerPlaceholder
    BY DEF ReplayInv, PlaceholderHolds
  <2> SUFFICES ASSUME NEW e \in Events
               PROVE  applied[e] + Cardinality(Unapplied(e)) + Spare(e) <= Worth(e)
    BY DEF AppliedPerPlaceholder, Spare, Worth
  <2>1. Unapplied(e) \in SUBSET Owing(e) /\ Owing(e) \in SUBSET Copies
    BY NoneIsNoEvent DEF ReplayInv, StagesHold, Staged, Unapplied, Owing, Owes, Holds
  <2>2. IsFiniteSet(Owing(e)) /\ Cardinality(Owing(e)) \in Nat
    BY <2>1, FS_Subset, FS_CardinalityType, JournalAssumption
  <2>3. Cardinality(Unapplied(e)) <= Cardinality(Owing(e)) /\ Cardinality(Unapplied(e)) \in Nat
    BY <2>1, <2>2, FS_Subset, FS_CardinalityType
  <2>4. /\ applied[e] + Cardinality(Owing(e)) + Spare(e) <= Worth(e)
        /\ applied[e] \in Nat /\ Worth(e) \in Nat /\ Spare(e) \in Nat
    BY DEF ReplayInv, UnitsHold, TypeOK, Spare, Worth
  <2> QED
    BY <2>2, <2>3, <2>4
<1> QED
  BY <1>1, ReplayInvariant, PTL

(* The answer agent_events keeps is what happened to the action (finish and  *)
(* forget), unless its placeholder was taken over.                           *)
THEOREM StoredAnswerIsTrue == Spec => []AnswerIsTrue
<1>1. ReplayInv => AnswerIsTrue
  <2> SUFFICES ASSUME ReplayInv, NEW e \in Events, takeovers[e] = 0, halfway[e] = 0
               PROVE  /\ events[e] = None => applied[e] = 0
                      /\ Settled(e) => (events[e].status = "OK" <=> applied[e] = 1)
    BY DEF AnswerIsTrue, ReplayInv, TypeOK
  <2>1. ASSUME events[e] = None
        PROVE  applied[e] = 0
    <3>1. Owing(e) \in SUBSET Copies
      BY DEF Owing
    <3>2. Cardinality(Owing(e)) \in Nat
      BY <3>1, FS_Subset, FS_CardinalityType, JournalAssumption
    <3>3. applied[e] + Cardinality(Owing(e)) + 1 <= 1 /\ applied[e] \in Nat
      BY <2>1 DEF ReplayInv, UnitsHold, TypeOK, Spare, Worth
    <3> QED
      BY <3>2, <3>3
  <2> QED
    BY <2>1 DEF ReplayInv, AnswersHold
<1> QED
  BY <1>1, ReplayInvariant, PTL

(* The agent's journal is applied in its order: once a later action has been *)
(* applied, no copy of an earlier one can still apply it.                    *)
THEOREM JournalIsInOrder == Spec => []JournalOrder
<1>1. ReplayInv => JournalOrder
  <2> SUFFICES ASSUME ReplayInv, NEW e \in Events, NEW f \in Events,
                      e < f, applied[f] > 0, takeovers[e] = 0, e \notin unstored
               PROVE  Unapplied(e) = {}
    BY DEF JournalOrder
  <2>1. e \in Nat /\ f \in Nat /\ sent \in Nat
    BY JournalAssumption DEF ReplayInv, TypeOK, Events
  <2>2. f <= sent
    BY DEF ReplayInv, FinalStands
  <2>3. IsFinal(e)
    BY <2>1, <2>2 DEF ReplayInv, FinalStands
  <2> QED
    BY <2>3 DEF IsFinal, Unapplied
<1> QED
  BY <1>1, ReplayInvariant, PTL
=============================================================================
