------------------------ MODULE SessionLedgerProofs ------------------------
(***************************************************************************)
(* The promises of the session table, for every number of sessions, days,  *)
(* shifts and settings.  The invariant is inductive as it stands: a step   *)
(* of the ledger rewrites one row, and its guard bounds what it writes.    *)
(***************************************************************************)
EXTENDS SessionLedger, TLAPS

LedgerInv == LedgerTypeOK /\ OneOpen /\ ClosesWithinLimits

(* The latest end is an instant no sooner than the session's start. *)
LEMMA LatestEndType ==
  ASSUME NEW s \in Session
  PROVE  LatestEnd(s) \in Nat /\ s.start <= LatestEnd(s)
  BY CloseAssumption DEF Session, Times, LatestEnd, AtLeast

(* A step that rewrites one row with a session leaves the table well typed   *)
(* and every other row as it was.                                            *)
LEMMA RowWritten ==
  ASSUME LedgerTypeOK, NEW i \in SessionIds, NEW s \in Session,
         sessions' = [sessions EXCEPT ![i] = s]
  PROVE  /\ LedgerTypeOK'
         /\ sessions'[i] = s /\ i \in Rows'
         /\ \A j \in SessionIds \ {i} : sessions'[j] = sessions[j]
  BY NoneAssumption DEF LedgerTypeOK, Rows

(* What a step of the ledger writes into row i: a session of the same day    *)
(* and start; an open one only where no other is open; an end within the     *)
(* limits; and over a closed one only what an automatic close may become.    *)
Rewrite(i, s) ==
  /\ sessions' = [sessions EXCEPT ![i] = s]
  /\ i \in Rows => s.date = sessions[i].date /\ s.start = sessions[i].start
  /\ s.end = None => OpenIds \subseteq {i}
  /\ s.end # None => /\ s.start <= s.end
                     /\ s.reason = "AUTO_CLOSED" => s.end <= LatestEnd(s)
  /\ i \in ClosedIds => /\ sessions[i].reason = "AUTO_CLOSED"
                        /\ s.end = None \/ s.end > sessions[i].end

(* Every step of the ledger is such a rewrite of one row. *)
LEMMA LedgerStep ==
  ASSUME LedgerInv, LedgerNext
  PROVE  \E i \in SessionIds, s \in Session : Rewrite(i, s)
<1>1. PICK i \in SessionIds :
        \/ Opened(i)
        \/ \E t \in Times : Ended(i, t) \/ AutoClosed(i, t) \/ Extended(i, t)
        \/ Reopened(i)
  BY DEF LedgerNext
<1>2. i \in Rows => sessions[i] \in Session
  BY DEF LedgerInv, LedgerTypeOK, Rows
<1>3. CASE Opened(i)
  <2>1. PICK date \in Days, t \in Times, source \in Sources :
               sessions' = [sessions EXCEPT ![i] = NewSession(date, t, source)]
    BY <1>3 DEF Opened
  <2> DEFINE s == NewSession(date, t, source)
  <2>2. s \in Session /\ s.end = None
    BY DEF NewSession, Session
  <2>3. Rewrite(i, s)
    BY <1>3, <2>1, <2>2 DEF Rewrite, Opened, ClosedIds
  <2> QED
    BY <2>2, <2>3
<1>4. ASSUME NEW t \in Times, Ended(i, t)
      PROVE  \E s \in Session : Rewrite(i, s)
  <2> DEFINE s == [sessions[i] EXCEPT !.end = t, !.reason = "USER"]
  <2>1. sessions[i] \in Session /\ i \in OpenIds /\ sessions[i].start <= t
    BY <1>2, <1>4 DEF Ended, OpenIds
  <2>2. /\ s \in Session /\ s.end = t /\ s.reason = "USER"
        /\ s.date = sessions[i].date /\ s.start = sessions[i].start
    BY <2>1 DEF Session
  <2>3. t # None
    BY NoneAssumption DEF Times
  <2>4. sessions' = [sessions EXCEPT ![i] = s]
    BY <1>4 DEF Ended
  <2> HIDE DEF s
  <2>5. Rewrite(i, s)
    BY <2>1, <2>2, <2>3, <2>4 DEF Rewrite, ClosedIds
  <2> QED
    BY <2>2, <2>5
<1>5. ASSUME NEW t \in Times, AutoClosed(i, t)
      PROVE  \E s \in Session : Rewrite(i, s)
  <2> DEFINE s == [sessions[i] EXCEPT !.end = t, !.reason = "AUTO_CLOSED"]
  <2>1. /\ sessions[i] \in Session /\ i \in OpenIds /\ sessions[i].start <= t
        /\ t <= LatestEnd(sessions[i])
    BY <1>2, <1>5 DEF AutoClosed, OpenIds
  <2>2. /\ s \in Session /\ s.end = t /\ s.reason = "AUTO_CLOSED"
        /\ s.date = sessions[i].date /\ s.start = sessions[i].start
    BY <2>1 DEF Session
  <2>3. LatestEnd(s) = LatestEnd(sessions[i])
    BY <2>2 DEF LatestEnd
  <2>4. t # None
    BY NoneAssumption DEF Times
  <2>5. sessions' = [sessions EXCEPT ![i] = s]
    BY <1>5 DEF AutoClosed
  <2> HIDE DEF s
  <2>6. Rewrite(i, s)
    BY <2>1, <2>2, <2>3, <2>4, <2>5 DEF Rewrite, ClosedIds
  <2> QED
    BY <2>2, <2>6
<1>6. ASSUME NEW t \in Times, Extended(i, t)
      PROVE  \E s \in Session : Rewrite(i, s)
  <2> DEFINE s == [sessions[i] EXCEPT !.end = t, !.source = "REPLAY"]
  <2>1. /\ sessions[i] \in Session /\ i \in ClosedIds /\ i \notin OpenIds
        /\ sessions[i].reason = "AUTO_CLOSED"
        /\ sessions[i].end < t /\ t <= LatestEnd(sessions[i])
    BY <1>2, <1>6 DEF Extended, ClosedIds
  <2>2. sessions[i].start <= sessions[i].end /\ sessions[i].end \in Times
    BY <2>1 DEF LedgerInv, ClosesWithinLimits, ClosedIds, OpenIds, Session
  <2>3. /\ s \in Session /\ s.end = t
        /\ s.date = sessions[i].date /\ s.start = sessions[i].start
    BY <2>1 DEF Session, Sources
  <2>4. LatestEnd(s) = LatestEnd(sessions[i])
    BY <2>3 DEF LatestEnd
  <2>5. t # None
    BY NoneAssumption DEF Times
  <2>6. s.start <= t
    BY <2>1, <2>2, <2>3 DEF Session, Times
  <2>7. sessions' = [sessions EXCEPT ![i] = s]
    BY <1>6 DEF Extended
  <2> HIDE DEF s
  <2>8. Rewrite(i, s)
    BY <2>1, <2>2, <2>3, <2>4, <2>5, <2>6, <2>7 DEF Rewrite, Times
  <2> QED
    BY <2>3, <2>8
<1>7. CASE Reopened(i)
  <2> DEFINE s == [sessions[i] EXCEPT !.end = None, !.source = "REPLAY"]
  <2>1. sessions[i] \in Session /\ sessions[i].reason = "AUTO_CLOSED" /\ OpenIds = {}
    BY <1>2, <1>7 DEF Reopened
  <2>2. /\ s \in Session /\ s.end = None
        /\ s.date = sessions[i].date /\ s.start = sessions[i].start
    BY <2>1 DEF Session, Sources
  <2>3. sessions' = [sessions EXCEPT ![i] = s]
    BY <1>7 DEF Reopened
  <2> HIDE DEF s
  <2>4. Rewrite(i, s)
    BY <2>1, <2>2, <2>3 DEF Rewrite
  <2> QED
    BY <2>2, <2>4
<1> QED
  BY <1>1, <1>3, <1>4, <1>5, <1>6, <1>7

(* Such a rewrite keeps the invariant. *)
LEMMA RewriteKeepsInv ==
  ASSUME LedgerInv, NEW i \in SessionIds, NEW s \in Session, Rewrite(i, s)
  PROVE  LedgerInv'
<1>1. /\ LedgerTypeOK' /\ sessions'[i] = s /\ i \in Rows'
      /\ \A j \in SessionIds \ {i} : sessions'[j] = sessions[j]
  BY RowWritten DEF LedgerInv, Rewrite
<1>2. \A j \in SessionIds \ {i} :
         /\ j \in OpenIds' <=> j \in OpenIds
         /\ j \in ClosedIds' <=> j \in ClosedIds
  BY <1>1 DEF OpenIds, ClosedIds, Rows
<1>3. i \in OpenIds' <=> s.end = None
  BY <1>1 DEF OpenIds
<1>4. OneOpen'
  <2> SUFFICES ASSUME NEW j \in OpenIds', NEW k \in OpenIds', j # k
               PROVE  FALSE
    BY DEF OneOpen
  <2>1. j \in SessionIds /\ k \in SessionIds
    BY DEF OpenIds, Rows
  <2>2. CASE i \in {j, k}
    BY <1>2, <1>3, <2>1, <2>2 DEF Rewrite
  <2>3. CASE i \notin {j, k}
    BY <1>2, <2>1, <2>3 DEF LedgerInv, OneOpen
  <2> QED
    BY <2>2, <2>3
<1>5. ClosesWithinLimits'
  <2> SUFFICES ASSUME NEW j \in ClosedIds'
               PROVE  /\ sessions'[j].start <= sessions'[j].end
                      /\ sessions'[j].reason = "AUTO_CLOSED" =>
                           sessions'[j].end <= LatestEnd(sessions'[j])
    BY DEF ClosesWithinLimits, LatestEnd
  <2>1. j \in SessionIds
    BY DEF ClosedIds, Rows
  <2>2. CASE j = i
    <3>1. s.end # None /\ sessions'[j] = s
      BY <1>1, <1>3, <2>2 DEF ClosedIds
    <3> QED
      BY <3>1 DEF Rewrite
  <2>3. CASE j # i
    BY <1>1, <1>2, <2>1, <2>3 DEF LedgerInv, ClosesWithinLimits
  <2> QED
    BY <2>2, <2>3
<1> QED
  BY <1>1, <1>4, <1>5 DEF LedgerInv

-----------------------------------------------------------------------------
(* Theorems *)

(* The invariant of the ledger is inductive. *)
THEOREM LedgerInvariant == LedgerSpec => []LedgerInv
<1>1. LedgerInit => LedgerInv
  BY NoneAssumption DEF LedgerInit, LedgerInv, LedgerTypeOK, OneOpen, ClosesWithinLimits,
     OpenIds, ClosedIds, Rows
<1>2. LedgerInv /\ [LedgerNext]_sessions => LedgerInv'
  <2>1. CASE LedgerNext
    BY <2>1, LedgerStep, RewriteKeepsInv
  <2>2. CASE UNCHANGED sessions
    BY <2>2 DEF LedgerInv, LedgerTypeOK, OneOpen, ClosesWithinLimits,
       OpenIds, ClosedIds, Rows, LatestEnd
  <2> QED
    BY <2>1, <2>2
<1> QED
  BY <1>1, <1>2, PTL DEF LedgerSpec

(* At most one session of a person is ever open. *)
THEOREM LedgerOneOpen == LedgerSpec => []OneOpen
  BY LedgerInvariant, PTL DEF LedgerInv

(* A closed session keeps to its start, and an automatic close to the latest *)
(* end of its day.                                                           *)
THEOREM LedgerLimits == LedgerSpec => []ClosesWithinLimits
  BY LedgerInvariant, PTL DEF LedgerInv

(* No step takes time back from a closed session, except that a replayed     *)
(* action reopens an automatic close whole.                                  *)
THEOREM LedgerForward == LedgerSpec => ClosedMovesOnlyForward
<1> DEFINE Forward == \A i \in ClosedIds :
       \/ sessions'[i] = sessions[i]
       \/ /\ sessions[i].reason = "AUTO_CLOSED"
          /\ sessions'[i].end = None \/ sessions'[i].end > sessions[i].end
<1>1. LedgerInv /\ [LedgerNext]_sessions => [Forward]_sessions
  <2> SUFFICES ASSUME LedgerInv, LedgerNext
               PROVE  Forward
    OBVIOUS
  <2>1. PICK i \in SessionIds, s \in Session : Rewrite(i, s)
    BY LedgerStep
  <2>2. sessions'[i] = s /\ \A j \in SessionIds \ {i} : sessions'[j] = sessions[j]
    BY <2>1, RowWritten DEF LedgerInv, Rewrite
  <2> QED
    BY <2>1, <2>2 DEF Rewrite, ClosedIds, Rows
<1> QED
  BY <1>1, LedgerInvariant, PTL DEF LedgerSpec, ClosedMovesOnlyForward
=============================================================================
