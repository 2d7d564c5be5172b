------------------------- MODULE OrgConfigProofs --------------------------
(***************************************************************************)
(* Proofs about ShiftPlan and OrgSettings: the invariants of the shifts    *)
(* (what decides for whom, names, the default, the cached context) and     *)
(* those of the settings (the day classes, department edits, locked        *)
(* months, how far behind the cached calendar is), each with the inductive *)
(* invariant it follows from.  The two parts share no state.               *)
(***************************************************************************)
EXTENDS ShiftPlan, OrgSettings, FiniteSetTheorems, WellFoundedInduction, TLAPS

-----------------------------------------------------------------------------
(* Shifts: types *)

AssignmentRow == [target : Targets, from : 1..Open, to : 1..Open, shift : ShiftIds \cup {None}]

AssignTask(q) ==
    /\ q.target \in hired \cup {Dept} /\ q.shift \in ShiftIds \cup {None}
    /\ q.from \in Days /\ q.to \in Days \cup {Open} /\ q.from <= q.to
    /\ q.stage = "write" => \A i \in DOMAIN q.seen :
                             /\ i \in 1..written
                             /\ q.seen[i].from \in 1..Open /\ q.seen[i].to \in 1..Open
                             /\ i \in Ids => rows[i].target = q.target
UpdateTask == [kind : {"update"}, stage : {"lock", "write"}, id : ShiftIds, name : Names]
RemoveTask == [kind : {"remove"}, stage : {"usage", "write"}, id : ShiftIds]

(* What a request remembers is of its kind, and a shift it names is there. *)
TaskTyped(q) ==
    /\ q.kind = "assign" => AssignTask(q)
    /\ q.kind = "create" => q.name \in Names
    /\ q.kind = "update" => q \in UpdateTask
    /\ q.kind = "remove" => q \in RemoveTask
    /\ q.kind = "default" => q.id \in ShiftIds
    /\ q.kind = "default" /\ q.stage = "write" =>
         /\ q.others \subseteq ShiftIds \ {q.id}
         /\ \A s \in q.others : shift[s] # None /\ shift[s].scope = shift[q.id].scope
    /\ q.kind \in {"update", "remove", "default"} => shift[q.id] # None

TablesTyped ==
    /\ shift \in [ShiftIds -> ShiftRow \cup {None}]
    /\ hired \subseteq People
    /\ today \in 1..Open
    /\ nameLock \in [Scopes -> ShiftRequests \cup {None}]
    /\ DOMAIN plan = Targets
    /\ crossed \in BOOLEAN
RowsTyped ==
    /\ written \in Nat
    /\ Ids \subseteq 1..written
    /\ \A i \in Ids : rows[i] \in AssignmentRow /\ rows[i].target \in hired \cup {Dept}
TasksTyped ==
    /\ DOMAIN task = ShiftRequests
    /\ \A r \in ShiftRequests : task[r] # None => TaskTyped(task[r])

ShiftTypes == TablesTyped /\ RowsTyped /\ TasksTyped

(* The first part of every step: what becomes of the tasks. *)
LEMMA TaskSteps ==
  ASSUME DOMAIN task = ShiftRequests, NEW r \in ShiftRequests, NEW q
  PROVE  /\ Ask(r, q) => /\ DOMAIN task' = ShiftRequests /\ task'[r] = q
                         /\ \A o \in ShiftRequests \ {r} : task'[o] = task[o]
         /\ Go(r, q) => /\ DOMAIN task' = ShiftRequests /\ task'[r] = q
                        /\ \A o \in ShiftRequests \ {r} : task'[o] = task[o]
         /\ Wrote(r) => /\ DOMAIN task' = ShiftRequests
                        /\ task'[r] = [kind |-> "forget", stage |-> "forget"]
                        /\ \A o \in ShiftRequests \ {r} : task'[o] = task[o]
BY DEF Ask, Go, Wrote

(* Rows of shifts stay, under their scope; people stay; an id of an assignment *)
(* is used once.                                                               *)
Grows ==
    /\ \A s \in ShiftIds : shift[s] # None => shift'[s] # None /\ shift'[s].scope = shift[s].scope
    /\ hired \subseteq hired'
    /\ written \in Nat /\ written' \in Nat /\ written <= written'
    /\ \A i \in Ids' : i <= written => i \in Ids /\ rows'[i].target = rows[i].target

(* A step that changes one request's task, and tables only as Grows allows,   *)
(* keeps every task well formed.                                              *)
LEMMA TasksKept ==
  ASSUME TasksTyped, Grows, NEW r \in ShiftRequests, DOMAIN task' = ShiftRequests,
         \A o \in ShiftRequests \ {r} : task'[o] = task[o],
         task'[r] # None => TaskTyped(task[r])'
  PROVE  TasksTyped'
<1> SUFFICES ASSUME NEW o \in ShiftRequests, task'[o] # None, o # r
             PROVE  TaskTyped(task[o])'
  BY DEF TasksTyped
<1>1. TaskTyped(task[o]) /\ task'[o] = task[o] BY DEF TasksTyped
<1>2. task[o].kind \in {"update", "remove", "default"} => task[o].id \in ShiftIds
  BY <1>1 DEF TaskTyped, UpdateTask, RemoveTask
<1> QED BY <1>1, <1>2 DEF TaskTyped, AssignTask, Grows

(* A write leaves the other requests what they remember. *)
LEMMA WroteKeepsTasks ==
  ASSUME TasksTyped, Grows, NEW r \in ShiftRequests, Wrote(r) PROVE TasksTyped'
<1>1. task'[r].kind = "forget" /\ task'[r].stage = "forget" BY TaskSteps DEF TasksTyped
<1>2. TaskTyped(task[r])' BY <1>1 DEF TaskTyped
<1> QED BY <1>2, TaskSteps, TasksKept DEF TasksTyped

(* A change of shifts alone leaves the assignments what they are. *)
LEMMA RowsAlone ==
  ASSUME RowsTyped, UNCHANGED <<rows, hired, written>>,
         \A s \in ShiftIds : shift[s] # None => /\ shift'[s] # None
                                               /\ shift'[s].scope = shift[s].scope
  PROVE  RowsTyped' /\ Grows
BY DEF RowsTyped, Grows, Ids

(* What a new assignment makes of the rows (applyAssignments): those that     *)
(* start inside its span go or start the day after it, its own is added.      *)
Reassigned(q) ==
    /\ Ids' = (Ids \ Superseded(q)) \cup {written + 1}
    /\ written \in Nat /\ written + 1 \notin Ids /\ written + 1 \notin DOMAIN q.seen
    /\ rows'[written + 1] = [target |-> q.target, from |-> q.from, to |-> q.to,
                             shift |-> q.shift]
    /\ \A i \in Ids \ Superseded(q) :
         /\ rows'[i] \in AssignmentRow
         /\ rows'[i].target = rows[i].target /\ rows'[i].to = rows[i].to
         /\ rows'[i].shift = rows[i].shift
         /\ rows'[i].from = IF i \in Trimmed(q) THEN q.to + 1 ELSE rows[i].from

(* applyAssignments: an assignment changes the rows as Reassigned says.       *)
LEMMA AssignedRows ==
  ASSUME RowsTyped, NEW q, AssignTask(q), q.stage = "write", Trimmed(q) \subseteq Ids,
         rows' = Assign(q, written + 1)
  PROVE  Reassigned(q)
<1>1. Ids \subseteq 1..written /\ written \in Nat BY DEF RowsTyped
<1>2. Superseded(q) \subseteq DOMAIN q.seen /\ Trimmed(q) \subseteq DOMAIN q.seen
  BY DEF Superseded, Trimmed, Overlapping
<1>3. DOMAIN q.seen \subseteq 1..written BY DEF AssignTask
<1>4. Trimmed(q) # {} => q.to + 1 \in 1..Open
  BY DayAssumption DEF Trimmed, Superseded, Overlapping, AssignTask, Days, Open
<1>6. \A i \in Ids : rows[i] \in AssignmentRow BY DEF RowsTyped
<1>7. /\ DOMAIN rows' = (Ids \ Superseded(q)) \cup {written + 1} /\ written + 1 \notin Ids
      /\ rows'[written + 1] = [target |-> q.target, from |-> q.from, to |-> q.to,
                               shift |-> q.shift]
      /\ \A i \in Ids \ Superseded(q) :
           rows'[i] = IF i \in Trimmed(q) THEN [rows[i] EXCEPT !.from = q.to + 1] ELSE rows[i]
  BY <1>1 DEF Assign
<1>8. written + 1 \notin DOMAIN q.seen BY <1>1, <1>3
<1>9. ASSUME NEW i \in Ids \ Superseded(q)
      PROVE  /\ rows'[i] \in AssignmentRow
             /\ rows'[i].target = rows[i].target /\ rows'[i].to = rows[i].to
             /\ rows'[i].shift = rows[i].shift
             /\ rows'[i].from = IF i \in Trimmed(q) THEN q.to + 1 ELSE rows[i].from
  <2>1. CASE i \in Trimmed(q)
    <3>1. rows'[i] = [rows[i] EXCEPT !.from = q.to + 1] BY <1>7, <2>1
    <3>2. q.to + 1 \in 1..Open BY <1>4, <2>1
    <3> QED BY <1>6, <2>1, <3>1, <3>2 DEF AssignmentRow
  <2>2. CASE i \notin Trimmed(q)
    <3>1. rows'[i] = rows[i] BY <1>7, <2>2
    <3> QED BY <1>6, <2>2, <3>1
  <2> QED BY <2>1, <2>2
<1>10. Ids' = DOMAIN rows' BY DEF Ids
<1> QED BY <1>1, <1>7, <1>8, <1>9, <1>10 DEF Reassigned

(* Every request keeps the tables and what the others remember well formed. *)
LEMMA ShiftTypesStep ==
  ASSUME ShiftTypes, [ShiftNext]_shiftVars PROVE ShiftTypes'
<1> USE DEF ShiftTypes
<1>1. ASSUME NEW r \in ShiftRequests, AskAssign(r) PROVE ShiftTypes'
  <2>1. Grows /\ TablesTyped' /\ RowsTyped'
    BY <1>1 DEF AskAssign, Grows, TablesTyped, RowsTyped, Ids
  <2>2. PICK q : Ask(r, q) /\ TaskTyped(q)'
    <3>1. PICK target \in {Dept} \cup hired, s \in (LiveShifts \cap Assignable) \cup {None} :
            \E span \in Spans(target) :
               Ask(r, [kind |-> "assign", stage |-> "read", target |-> target,
                       from |-> span.from, to |-> span.to, shift |-> s])
      BY <1>1 DEF AskAssign
    <3>2. PICK span \in Spans(target) :
               Ask(r, [kind |-> "assign", stage |-> "read", target |-> target,
                       from |-> span.from, to |-> span.to, shift |-> s])
      BY <3>1
    <3>3. s \in ShiftIds \cup {None} BY DEF LiveShifts
    <3>4. UNCHANGED hired BY <1>1 DEF AskAssign
    <3> QED BY <3>2, <3>3, <3>4 DEF Spans, TaskTyped, AssignTask
  <2> QED BY <2>1, <2>2, TaskSteps, TasksKept DEF TasksTyped
<1>2. ASSUME NEW r \in ShiftRequests, ReadOverlapping(r) PROVE ShiftTypes'
  <2>1. Grows /\ TablesTyped' /\ RowsTyped'
    BY <1>2 DEF ReadOverlapping, Grows, TablesTyped, RowsTyped, Ids
  <2>2. PICK q : q = task[r] OBVIOUS
  <2>3. AssignTask(q) BY <1>2, <2>2 DEF ReadOverlapping, TaskAt, TasksTyped, TaskTyped
  <2>4. \A i \in RowsOf(q.target) : /\ i \in 1..written /\ rows[i].target = q.target
                                    /\ rows[i].from \in 1..Open /\ rows[i].to \in 1..Open
    BY DEF RowsOf, RowsTyped, AssignmentRow
  <2>5. /\ task'[r] = [kind |-> "assign", stage |-> "write", target |-> q.target,
                       from |-> q.from, to |-> q.to, shift |-> q.shift,
                       seen |-> [i \in RowsOf(q.target) |-> rows[i]]]
        /\ DOMAIN task' = ShiftRequests /\ \A o \in ShiftRequests \ {r} : task'[o] = task[o]
        /\ UNCHANGED <<rows, hired, written>>
    BY <1>2, <2>2, TaskSteps DEF ReadOverlapping, TasksTyped
  <2>6. AssignTask(task[r])' BY <2>3, <2>4, <2>5 DEF AssignTask, Ids
  <2>7. TaskTyped(task[r])' BY <2>5, <2>6 DEF TaskTyped
  <2> QED BY <2>1, <2>5, <2>7, TasksKept
<1>3. ASSUME NEW r \in ShiftRequests, WriteAssignment(r) PROVE ShiftTypes'
  <2>0. PICK q : q = task[r] OBVIOUS
  <2>1. AssignTask(q) /\ q.stage = "write"
    BY <1>3, <2>0 DEF WriteAssignment, TaskAt, TasksTyped, TaskTyped
  <2>2. CASE Trimmed(q) \subseteq Ids
    <3>1. rows' = Assign(q, written + 1) /\ written' = written + 1 /\ Wrote(r)
      BY <1>3, <2>0, <2>2 DEF WriteAssignment
    <3>9. Reassigned(q)
      <4>1. RowsTyped /\ AssignTask(q) /\ q.stage = "write" BY <2>1
      <4> QED BY <2>2, <3>1, <4>1, AssignedRows
    <3>0. UNCHANGED <<shift, hired>> BY <1>3 DEF WriteAssignment
    <3>2. RowsTyped'
      <4>1. [target |-> q.target, from |-> q.from, to |-> q.to, shift |-> q.shift]
              \in AssignmentRow
        BY <2>1, DayAssumption DEF AssignTask, AssignmentRow, TablesTyped, Targets, Days, Open
      <4>2. \A i \in Ids' : rows'[i] \in AssignmentRow /\ rows'[i].target \in hired \cup {Dept}
        <5> SUFFICES ASSUME NEW i \in Ids'
                     PROVE  rows'[i] \in AssignmentRow /\ rows'[i].target \in hired \cup {Dept}
          OBVIOUS
        <5>1. CASE i = written + 1
          <6>1. rows'[i] = [target |-> q.target, from |-> q.from, to |-> q.to,
                            shift |-> q.shift]
            BY <3>9, <5>1 DEF Reassigned
          <6> QED BY <2>1, <4>1, <6>1 DEF AssignTask
        <5>2. CASE i # written + 1
          <6>1. i \in Ids \ Superseded(q) BY <3>9, <5>2 DEF Reassigned
          <6> QED BY <3>9, <6>1 DEF RowsTyped, Reassigned
        <5> QED BY <5>1, <5>2
      <4>3. Ids' \subseteq 1..(written + 1)
        <5>1. Ids \subseteq 1..written /\ written \in Nat BY DEF RowsTyped
        <5>2. Ids' \subseteq Ids \cup {written + 1} BY <3>9 DEF Reassigned
        <5> QED BY <5>1, <5>2
      <4> QED BY <3>0, <3>1, <3>9, <4>2, <4>3 DEF RowsTyped, Reassigned
    <3>3. Grows
      <4>1. \A i \in Ids' : i <= written => i \in Ids /\ rows'[i].target = rows[i].target
        BY <2>1, <2>2, <3>9 DEF Reassigned, AssignTask, Superseded, Trimmed, Overlapping
      <4> QED BY <3>0, <3>1, <3>9, <4>1 DEF Grows, Reassigned
    <3>4. TablesTyped'
      BY <1>3, <2>0, <2>2 DEF WriteAssignment, TablesTyped, Plan
    <3> QED BY <3>1, <3>2, <3>3, <3>4, WroteKeepsTasks
  <2>3. CASE ~(Trimmed(q) \subseteq Ids)
    <3>1. Go(r, None) /\ UNCHANGED <<rows, written, plan>>
      BY <1>3, <2>0, <2>3 DEF WriteAssignment
    <3>2. Grows /\ TablesTyped' /\ RowsTyped'
      BY <1>3, <3>1 DEF WriteAssignment, Grows, TablesTyped, RowsTyped, Ids
    <3> QED BY <3>1, <3>2, TaskSteps, TasksKept DEF TasksTyped
  <2> QED BY <2>2, <2>3
<1>4. ASSUME NEW r \in ShiftRequests, Hire(r) PROVE ShiftTypes'
  <2>1. PICK p \in People \ hired, s \in LiveShifts \cap Assignable :
          /\ hired' = hired \cup {p}
          /\ rows' = [i \in Ids \cup {written + 1} |->
                        IF i \in Ids THEN rows[i]
                        ELSE [target |-> p, from |-> today, to |-> Open, shift |-> s]]
          /\ Plan(p, today, Open, s)
    BY <1>4 DEF Hire
  <2>2. /\ written' = written + 1 /\ task[r] = None
        /\ UNCHANGED <<shift, today, nameLock, task, crossed>>
    BY <1>4 DEF Hire, MayAsk
  <2>3. TablesTyped' BY <2>1, <2>2 DEF TablesTyped, Plan
  <2>4. [target |-> p, from |-> today, to |-> Open, shift |-> s] \in AssignmentRow
    BY DayAssumption DEF AssignmentRow, TablesTyped, Targets, LiveShifts, Open
  <2>5. Ids' = Ids \cup {written + 1} /\ written \in Nat /\ Ids \subseteq 1..written
        /\ written + 1 \notin Ids
    BY <2>1 DEF Ids, RowsTyped
  <2>6. RowsTyped' BY <2>1, <2>2, <2>4, <2>5 DEF RowsTyped
  <2>7. Grows BY <2>1, <2>2, <2>5 DEF Grows
  <2> QED BY <2>2, <2>3, <2>6, <2>7, TasksKept DEF TasksTyped
<1>5. ASSUME NEW r \in ShiftRequests, AskCreate(r) PROVE ShiftTypes'
  <2>1. Grows /\ TablesTyped' /\ RowsTyped'
    BY <1>5 DEF AskCreate, LockNames, Scopes, Grows, TablesTyped, RowsTyped, Ids
  <2>2. PICK name \in Names : Ask(r, [kind |-> "create", stage |-> "write", name |-> name])
    BY <1>5 DEF AskCreate
  <2> QED BY <2>1, <2>2, TaskSteps, TasksKept DEF TasksTyped, TaskTyped
<1>6. ASSUME NEW r \in ShiftRequests, WriteShift(r) PROVE ShiftTypes'
  <2>1. task[r].name \in Names BY <1>6 DEF WriteShift, TaskAt, TasksTyped, TaskTyped
  <2>2. [scope |-> "org", name |-> task[r].name, default |-> FirstIsDefault, live |-> TRUE]
          \in ShiftRow
    BY <2>1 DEF ShiftRow, Scopes, FirstIsDefault
  <2>3. TablesTyped'
    BY <1>6, <2>2 DEF WriteShift, Release, TablesTyped
  <2>4. \A s \in ShiftIds : shift[s] # None => shift'[s] = shift[s]
    BY <1>6 DEF WriteShift, TablesTyped
  <2>5. RowsTyped' /\ Grows
    BY <1>6, <2>4, RowsAlone DEF WriteShift
  <2> QED BY <1>6, <2>3, <2>5, WroteKeepsTasks DEF WriteShift
<1>7. ASSUME NEW r \in ShiftRequests, ReadShift(r) PROVE ShiftTypes'
  <2>1. Grows /\ TablesTyped' /\ RowsTyped'
    BY <1>7 DEF ReadShift, Grows, TablesTyped, RowsTyped, Ids
  <2>2. PICK s \in LiveShifts :
          \/ \E name \in Names :
                Ask(r, [kind |-> "update", stage |-> "lock", id |-> s, name |-> name])
          \/ ~shift[s].default /\ Ask(r, [kind |-> "remove", stage |-> "usage", id |-> s])
          \/ Ask(r, [kind |-> "default", stage |-> "read", id |-> s])
    BY <1>7 DEF ReadShift
  <2>3. s \in ShiftIds /\ shift'[s] # None BY <1>7 DEF LiveShifts, Live, ReadShift
  <2>4. \/ \E name \in Names : task'[r] = [kind |-> "update", stage |-> "lock", id |-> s,
                                           name |-> name]
        \/ task'[r] = [kind |-> "remove", stage |-> "usage", id |-> s]
        \/ task'[r] = [kind |-> "default", stage |-> "read", id |-> s]
    BY <2>2, TaskSteps DEF TasksTyped
  <2>5. TaskTyped(task[r])'
    <3>1. CASE \E name \in Names : task'[r] = [kind |-> "update", stage |-> "lock", id |-> s,
                                               name |-> name]
      <4>1. task'[r] \in UpdateTask /\ task'[r].id = s BY <2>3, <3>1 DEF UpdateTask
      <4>2. task'[r].kind = "update" BY <3>1
      <4> QED BY <2>3, <4>1, <4>2 DEF TaskTyped
    <3>2. CASE task'[r] = [kind |-> "remove", stage |-> "usage", id |-> s]
      <4>1. task'[r] \in RemoveTask /\ task'[r].id = s BY <2>3, <3>2 DEF RemoveTask
      <4>2. task'[r].kind = "remove" BY <3>2
      <4> QED BY <2>3, <4>1, <4>2 DEF TaskTyped
    <3>3. CASE task'[r] = [kind |-> "default", stage |-> "read", id |-> s]
      BY <2>3, <3>3 DEF TaskTyped
    <3> QED BY <2>4, <3>1, <3>2, <3>3
  <2>6. DOMAIN task' = ShiftRequests /\ \A o \in ShiftRequests \ {r} : task'[o] = task[o]
    BY <2>2, TaskSteps DEF TasksTyped
  <2> QED BY <2>1, <2>5, <2>6, TasksKept
<1>8. ASSUME NEW r \in ShiftRequests, LockForUpdate(r) PROVE ShiftTypes'
  <2> DEFINE q == task[r]  next == [q EXCEPT !.stage = "write"]
  <2>1. q \in UpdateTask /\ shift[q.id] # None
    BY <1>8 DEF LockForUpdate, TaskAt, TasksTyped, TaskTyped
  <2>2. next \in UpdateTask /\ next.id = q.id /\ next.kind = "update"
    BY <2>1 DEF UpdateTask
  <2>3. Grows /\ TablesTyped' /\ RowsTyped'
    BY <1>8 DEF LockForUpdate, LockNames, Grows, TablesTyped, RowsTyped, Ids
  <2>4. /\ task'[r] = None \/ task'[r] = next
        /\ DOMAIN task' = ShiftRequests /\ \A o \in ShiftRequests \ {r} : task'[o] = task[o]
    BY <1>8, TaskSteps DEF LockForUpdate, TasksTyped
  <2>5. UNCHANGED shift BY <1>8 DEF LockForUpdate
  <2>6. task'[r] # None => TaskTyped(task[r])'
    <3> HIDE DEF next
    <3> QED BY <2>1, <2>2, <2>4, <2>5 DEF TaskTyped
  <2> QED BY <2>3, <2>4, <2>6, TasksKept
<1>9. ASSUME NEW r \in ShiftRequests, UpdateShift(r) PROVE ShiftTypes'
  <2> DEFINE q == task[r]  new == [shift[q.id] EXCEPT !.name = q.name]
  <2>1. q \in UpdateTask /\ shift[q.id] # None
    BY <1>9 DEF UpdateShift, TaskAt, TasksTyped, TaskTyped
  <2>2. q.id \in ShiftIds /\ shift[q.id] \in ShiftRow
    BY <2>1 DEF UpdateTask, TablesTyped
  <2>3. new \in ShiftRow /\ new.scope = shift[q.id].scope
    BY <2>1, <2>2 DEF ShiftRow, UpdateTask
  <2>4. shift' = [shift EXCEPT ![q.id] = new] BY <1>9 DEF UpdateShift
  <2>5. TablesTyped'
    <3> HIDE DEF new
    <3> QED BY <1>9, <2>2, <2>3, <2>4 DEF UpdateShift, Release, TablesTyped
  <2>6. \A s \in ShiftIds : shift[s] # None => /\ shift'[s] # None
                                               /\ shift'[s].scope = shift[s].scope
    <3> HIDE DEF new
    <3> QED BY <2>2, <2>3, <2>4, NoneAssumption DEF TablesTyped
  <2>7. RowsTyped' /\ Grows BY <1>9, <2>6, RowsAlone DEF UpdateShift
  <2> QED BY <1>9, <2>5, <2>7, WroteKeepsTasks DEF UpdateShift
<1>10. ASSUME NEW r \in ShiftRequests, CheckUsage(r) PROVE ShiftTypes'
  <2> DEFINE q == task[r]  next == [q EXCEPT !.stage = "write"]
  <2>1. q \in RemoveTask /\ shift[q.id] # None
    BY <1>10 DEF CheckUsage, TaskAt, TasksTyped, TaskTyped
  <2>2. next \in RemoveTask /\ next.id = q.id /\ next.kind = "remove"
    BY <2>1 DEF RemoveTask
  <2>3. Grows /\ TablesTyped' /\ RowsTyped'
    BY <1>10 DEF CheckUsage, Grows, TablesTyped, RowsTyped, Ids
  <2>4. /\ task'[r] = None \/ task'[r] = next
        /\ DOMAIN task' = ShiftRequests /\ \A o \in ShiftRequests \ {r} : task'[o] = task[o]
    BY <1>10, TaskSteps DEF CheckUsage, TasksTyped
  <2>5. UNCHANGED shift BY <1>10 DEF CheckUsage
  <2>6. task'[r] # None => TaskTyped(task[r])'
    <3> HIDE DEF next
    <3> QED BY <2>1, <2>2, <2>4, <2>5 DEF TaskTyped
  <2> QED BY <2>3, <2>4, <2>6, TasksKept
<1>11. ASSUME NEW r \in ShiftRequests, SoftDelete(r) PROVE ShiftTypes'
  <2> DEFINE q == task[r]  mid == [shift[q.id] EXCEPT !.live = FALSE]
             new == [mid EXCEPT !.default = FALSE]
  <2>1. q \in RemoveTask /\ shift[q.id] # None
    BY <1>11 DEF SoftDelete, TaskAt, TasksTyped, TaskTyped
  <2>2. q.id \in ShiftIds /\ shift[q.id] \in ShiftRow
    BY <2>1 DEF RemoveTask, TablesTyped
  <2>3. mid \in ShiftRow /\ mid.scope = shift[q.id].scope
    BY <2>2 DEF ShiftRow
  <2>4. new \in ShiftRow /\ new.scope = shift[q.id].scope
    <3> HIDE DEF mid
    <3> QED BY <2>3 DEF ShiftRow
  <2>5. shift' = [shift EXCEPT ![q.id] = new] BY <1>11, <2>2 DEF SoftDelete, TablesTyped
  <2>6. TablesTyped'
    <3> HIDE DEF new
    <3> QED BY <1>11, <2>2, <2>4, <2>5 DEF SoftDelete, TablesTyped
  <2>7. \A s \in ShiftIds : shift[s] # None => /\ shift'[s] # None
                                               /\ shift'[s].scope = shift[s].scope
    <3> HIDE DEF new
    <3> QED BY <2>2, <2>4, <2>5, NoneAssumption DEF TablesTyped
  <2>8. RowsTyped' /\ Grows BY <1>11, <2>7, RowsAlone DEF SoftDelete
  <2> QED BY <1>11, <2>6, <2>8, WroteKeepsTasks DEF SoftDelete
<1>12. ASSUME NEW r \in ShiftRequests, ReadDefaults(r) PROVE ShiftTypes'
  <2> DEFINE id == task[r].id
             others == {s \in ShiftIds \ {id} : shift[s] # None /\ shift[s].default
                                                  /\ shift[s].scope = shift[id].scope}
             next == [kind |-> "default", stage |-> "write", id |-> id, others |-> others]
  <2>1. id \in ShiftIds /\ shift[id] # None
    BY <1>12 DEF ReadDefaults, TaskAt, TasksTyped, TaskTyped
  <2>2. Grows /\ TablesTyped' /\ RowsTyped' /\ UNCHANGED shift
    BY <1>12 DEF ReadDefaults, Grows, TablesTyped, RowsTyped, Ids
  <2>3. /\ task'[r] = next
        /\ DOMAIN task' = ShiftRequests /\ \A o \in ShiftRequests \ {r} : task'[o] = task[o]
    BY <1>12, TaskSteps DEF ReadDefaults, TasksTyped
  <2>4. /\ task'[r].kind = "default" /\ task'[r].id = id /\ task'[r].others = others
    BY <2>3
  <2>5. TaskTyped(task[r])' BY <2>1, <2>2, <2>4 DEF TaskTyped
  <2> QED BY <2>2, <2>3, <2>5, TasksKept
<1>13. ASSUME NEW r \in ShiftRequests, SetDefault(r) PROVE ShiftTypes'
  <2> DEFINE q == task[r]
  <2>1. q.id \in ShiftIds /\ shift[q.id] # None /\ \A s \in q.others : shift[s] # None
    BY <1>13 DEF SetDefault, TaskAt, TasksTyped, TaskTyped
  <2>2. \A s \in ShiftIds, b \in BOOLEAN : shift[s] # None =>
          LET new == [shift[s] EXCEPT !.default = b]
          IN new \in ShiftRow /\ new.scope = shift[s].scope
    BY DEF TablesTyped, ShiftRow
  <2>3. \A s \in ShiftIds :
          /\ shift'[s] \in ShiftRow \cup {None}
          /\ shift[s] # None => shift'[s] # None /\ shift'[s].scope = shift[s].scope
    BY <1>13, <2>1, <2>2, NoneAssumption DEF SetDefault, TablesTyped
  <2>4. shift' \in [ShiftIds -> ShiftRow \cup {None}] BY <1>13, <2>3 DEF SetDefault
  <2>5. TablesTyped' BY <1>13, <2>4 DEF SetDefault, TablesTyped
  <2>6. RowsTyped' /\ Grows BY <1>13, <2>3, RowsAlone DEF SetDefault
  <2> QED BY <1>13, <2>5, <2>6, WroteKeepsTasks DEF SetDefault
<1>14. ASSUME NEW r \in ShiftRequests, Invalidate(r) PROVE ShiftTypes'
  <2>1. Grows /\ TablesTyped' /\ RowsTyped'
    BY <1>14 DEF Invalidate, Grows, TablesTyped, RowsTyped, Ids
  <2> QED BY <1>14, <2>1, TaskSteps, TasksKept DEF Invalidate, TasksTyped
<1>15. CASE OpenContext \/ ReadContext \/ DropContext \/ Midnight \/ UNCHANGED shiftVars
  <2>1. /\ TablesTyped' /\ RowsTyped' /\ Grows /\ UNCHANGED task
    BY <1>15, DayAssumption
    DEF OpenContext, ReadContext, DropContext, Midnight, shiftVars, Grows, TablesTyped,
        RowsTyped, Ids, Open
  <2>2. UNCHANGED <<shift, rows, hired, written>>
    BY <1>15 DEF OpenContext, ReadContext, DropContext, Midnight, shiftVars
  <2> QED BY <2>1, <2>2 DEF TasksTyped, TaskTyped, AssignTask, Ids
<1> QED
  BY <1>1, <1>2, <1>3, <1>4, <1>5, <1>6, <1>7, <1>8, <1>9, <1>10, <1>11, <1>12, <1>13,
     <1>14, <1>15
  DEF ShiftNext, ShiftStep

(* The tables an organisation starts from are well formed.                    *)
LEMMA ShiftTypesInit == ShiftInit => ShiftTypes
<1> SUFFICES ASSUME ShiftInit PROVE ShiftTypes OBVIOUS
<1>1. shift \in [ShiftIds -> ShiftRow \cup {None}] BY TablesAssumption DEF ShiftInit
<1>2. TablesTyped
  <2>1. today \in 1..Open BY DayAssumption DEF ShiftInit, Open
  <2> QED BY <1>1, <2>1 DEF ShiftInit, TablesTyped
<1>3. Ids = {} BY DEF ShiftInit, Ids
<1>4. RowsTyped BY <1>3 DEF ShiftInit, RowsTyped
<1>5. TasksTyped BY DEF ShiftInit, TasksTyped
<1> QED BY <1>2, <1>4, <1>5 DEF ShiftTypes

-----------------------------------------------------------------------------
(* Shifts: assignments *)

(* Of two rows of one target the one written later decides on the days they   *)
(* share: it starts no sooner, or the other starts after its last day.        *)
RowsInOrder(target) ==
    \A i, j \in RowsOf(target) :
        i < j => rows[i].from <= rows[j].from \/ rows[i].from > rows[j].to

(* The last written of the rows in force says what the plan says.             *)
LastDecides(target, d) ==
    IF RowsOn(target, d) = {} THEN plan[target][d] = "nothing"
    ELSE \E i \in RowsOn(target, d) : /\ \A j \in RowsOn(target, d) : j <= i
                                      /\ rows[i].shift = plan[target][d]

RowsInv == \A target \in Targets \ raced :
              RowsInOrder(target) /\ \A d \in Days : LastDecides(target, d)

(* Newest finds the row written last.                                         *)
LEMMA NewestIsLast ==
  ASSUME ShiftTypes, NEW target \in Targets, RowsInOrder(target), NEW d \in Days,
         NEW i \in RowsOn(target, d), \A j \in RowsOn(target, d) : j <= i
  PROVE  Newest(RowsOn(target, d)) = i
<1> DEFINE S == RowsOn(target, d)
           Best(k) == \A j \in S : rows[j].from < rows[k].from
                                   \/ (rows[j].from = rows[k].from /\ j <= k)
<1>1. \A j \in S : /\ j \in RowsOf(target) /\ j \in Nat
                   /\ rows[j].from \in Int /\ rows[j].to \in Int
                   /\ rows[j].from <= d /\ d <= rows[j].to
  BY DEF RowsOn, RowsOf, InForce, ShiftTypes, RowsTyped, AssignmentRow
<1>2. d \in Int BY DEF Days
<1>3. Best(i)
  <2> SUFFICES ASSUME NEW j \in S, j # i PROVE rows[j].from <= rows[i].from
    BY <1>1
  <2>1. j < i BY <1>1
  <2> QED BY <1>1, <1>2, <2>1 DEF RowsInOrder
<1>4. \A k \in S : Best(k) => k = i BY <1>1, <1>3
<1>5. Newest(S) = CHOOSE k \in S : Best(k) BY DEF Newest
<1> HIDE DEF Best
<1> QED BY <1>3, <1>4, <1>5

(* With the rows in order, newest-wins finds what was last assigned.          *)
LEMMA PlanFollows == ShiftTypes /\ RowsInv => PlanIsKept
<1> SUFFICES ASSUME ShiftTypes, RowsInv, NEW target \in Targets \ raced, NEW d \in Days
             PROVE  Assigned(target, d) = plan[target][d]
  BY DEF PlanIsKept
<1>1. RowsInOrder(target) /\ LastDecides(target, d) BY DEF RowsInv
<1> QED BY <1>1, NewestIsLast DEF LastDecides, Assigned

(* The plan for other targets, and what decides for them, is left alone.      *)
LEMMA OtherTargets ==
  ASSUME ShiftTypes, RowsInv, NEW target \in Targets \ raced,
         \A i \in RowsOf(target) : i \in Ids' /\ rows'[i] = rows[i],
         \A i \in Ids' : rows'[i].target = target => i \in RowsOf(target),
         plan'[target] = plan[target]
  PROVE  RowsInOrder(target)' /\ \A d \in Days : LastDecides(target, d)'
<1>1. RowsOf(target)' = RowsOf(target) BY DEF RowsOf
<1>2. \A i \in RowsOf(target) : rows'[i] = rows[i] OBVIOUS
<1>3. \A d \in Days : RowsOn(target, d)' = RowsOn(target, d)
  BY <1>1, <1>2 DEF RowsOn, RowsOf, InForce
<1>4. RowsInOrder(target) /\ \A d \in Days : LastDecides(target, d) BY DEF RowsInv
<1>5. RowsInOrder(target)' BY <1>1, <1>2, <1>4 DEF RowsInOrder
<1>6. \A d \in Days : RowsOn(target, d) \subseteq RowsOf(target) BY DEF RowsOn, RowsOf
<1>7. ASSUME NEW d \in Days PROVE LastDecides(target, d)'
  BY <1>2, <1>3, <1>4, <1>6 DEF LastDecides
<1> QED BY <1>5, <1>7

(* applyAssignments, from the rows as they are: the new row decides its span, *)
(* every other day keeps what decided it.                                     *)
LEMMA AssignKeepsPlan ==
  ASSUME ShiftTypes, RowsInv, NEW q, AssignTask(q), q.stage = "write",
         Trimmed(q) \subseteq Ids, q.target \notin raced,
         q.seen = [i \in RowsOf(q.target) |-> rows[i]],
         rows' = Assign(q, written + 1),
         Plan(q.target, q.from, q.to, q.shift)
  PROVE  RowsInOrder(q.target)' /\ \A d \in Days : LastDecides(q.target, d)'
<1> DEFINE id == written + 1  t == q.target
<1>1. /\ Ids' = (Ids \ Superseded(q)) \cup {id} /\ id \notin Ids
      /\ rows'[id] = [target |-> q.target, from |-> q.from, to |-> q.to, shift |-> q.shift]
      /\ \A i \in Ids \ Superseded(q) :
           /\ rows'[i].target = rows[i].target /\ rows'[i].to = rows[i].to
           /\ rows'[i].shift = rows[i].shift
           /\ rows'[i].from = IF i \in Trimmed(q) THEN q.to + 1 ELSE rows[i].from
  <2>1. Reassigned(q) BY AssignedRows DEF ShiftTypes
  <2> QED BY <2>1 DEF Reassigned
<1>2. t \in Targets \ raced
  BY DEF AssignTask, ShiftTypes, TablesTyped, Targets
<1>3. /\ q.from \in Int /\ q.to \in Int /\ q.from <= q.to /\ q.to <= Open /\ Open \in Int
      /\ written \in Nat
  BY DayAssumption DEF AssignTask, Days, Open, ShiftTypes, RowsTyped
<1>4. \A i \in RowsOf(t) : /\ i \in Ids /\ i \in Int /\ i < id /\ rows[i].target = t
                           /\ rows[i].from \in Int /\ rows[i].to \in Int
                           /\ rows[i].from <= Open /\ rows[i].to <= Open
  BY <1>3, DayAssumption DEF RowsOf, ShiftTypes, RowsTyped, AssignmentRow, Open
<1>5. \A i \in RowsOf(t) :
        LET meets == q.from <= rows[i].from /\ rows[i].from <= q.to
            ends == q.to = Open \/ rows[i].to <= q.to
        IN  /\ i \in Superseded(q) <=> meets /\ ends
            /\ i \in Trimmed(q) <=> meets /\ ~ends
  BY DEF Superseded, Trimmed, Overlapping
<1>6. RowsOf(t)' = (RowsOf(t) \ Superseded(q)) \cup {id}
  BY <1>1 DEF RowsOf
<1>7. RowsInOrder(t) /\ \A d \in Days : LastDecides(t, d) BY <1>2 DEF RowsInv
<1>8. RowsInOrder(t)'
  <2> SUFFICES ASSUME NEW i \in RowsOf(t)', NEW j \in RowsOf(t)', i < j
               PROVE  rows'[i].from <= rows'[j].from \/ rows'[i].from > rows'[j].to
    BY DEF RowsInOrder
  <2>1. i \in RowsOf(t) \ Superseded(q) BY <1>3, <1>4, <1>6
  <2>2. rows'[i].from = IF i \in Trimmed(q) THEN q.to + 1 ELSE rows[i].from
    BY <1>1, <1>4, <2>1
  <2>3. CASE j = id BY <1>1, <1>3, <1>4, <1>5, <2>1, <2>2, <2>3
  <2>4. CASE j # id
    <3>1. j \in RowsOf(t) \ Superseded(q) BY <1>6, <2>4
    <3>2. /\ rows'[j].from = IF j \in Trimmed(q) THEN q.to + 1 ELSE rows[j].from
          /\ rows'[j].to = rows[j].to
      BY <1>1, <1>4, <3>1
    <3>3. rows[i].from <= rows[j].from \/ rows[i].from > rows[j].to
      BY <1>7, <2>1, <3>1 DEF RowsInOrder
    <3> QED BY <1>3, <1>4, <1>5, <2>1, <2>2, <3>1, <3>2, <3>3
  <2> QED BY <2>3, <2>4
<1>9. plan'[t] = [d \in Days |-> IF q.from <= d /\ d <= q.to THEN q.shift ELSE plan[t][d]]
  BY <1>2 DEF Plan, ShiftTypes, TablesTyped
<1>10. ASSUME NEW d \in Days PROVE LastDecides(t, d)'
  <2>1. d \in Int /\ d < Open BY DayAssumption DEF Days, Open
  <2>2. CASE q.from <= d /\ d <= q.to
    <3>1. id \in RowsOn(t, d)' BY <1>1, <2>2 DEF RowsOn, InForce
    <3>2. \A j \in RowsOn(t, d)' : j <= id
      BY <1>3, <1>4, <1>6 DEF RowsOn, RowsOf
    <3>3. rows'[id].shift = plan'[t][d] BY <1>1, <1>9, <2>2
    <3> QED BY <3>1, <3>2, <3>3 DEF LastDecides
  <2>3. CASE ~(q.from <= d /\ d <= q.to)
    <3>1. \A i \in RowsOf(t) : i \in RowsOn(t, d)' <=> i \in RowsOn(t, d)
      <4> SUFFICES ASSUME NEW i \in RowsOf(t)
                   PROVE  i \in RowsOn(t, d)' <=> i \in RowsOn(t, d)
        OBVIOUS
      <4>1. i \in RowsOn(t, d) <=> rows[i].from <= d /\ d <= rows[i].to
        BY <1>4 DEF RowsOn, InForce
      <4>2. CASE i \in Superseded(q)
        <5>1. i \notin RowsOn(t, d)' BY <1>1, <1>4, <4>2 DEF RowsOn
        <5> QED BY <1>3, <1>4, <1>5, <2>1, <2>3, <4>1, <4>2, <5>1
      <4>3. CASE i \notin Superseded(q)
        <5>1. i \in RowsOn(t, d)' <=> rows'[i].from <= d /\ d <= rows'[i].to
          BY <1>1, <1>4, <4>3 DEF RowsOn, InForce
        <5> QED BY <1>1, <1>3, <1>4, <1>5, <2>1, <2>3, <4>1, <4>3, <5>1
      <4> QED BY <4>2, <4>3
    <3>2. id \notin RowsOn(t, d)' BY <1>1, <2>3 DEF RowsOn, InForce
    <3>3. RowsOn(t, d)' \subseteq RowsOf(t)' /\ RowsOn(t, d) \subseteq RowsOf(t)
      BY DEF RowsOn, RowsOf
    <3>4. RowsOn(t, d)' = RowsOn(t, d) BY <1>6, <3>1, <3>2, <3>3
    <3>5. \A i \in RowsOn(t, d) : rows'[i].shift = rows[i].shift
      BY <1>1, <1>4, <1>6, <3>2, <3>3, <3>4
    <3>6. plan'[t][d] = plan[t][d] BY <1>9, <2>3
    <3> QED BY <1>7, <3>4, <3>5, <3>6 DEF LastDecides
  <2> QED BY <2>2, <2>3
<1> QED BY <1>8, <1>10

(* Assigning and hiring keep the rows of every target in order, and what      *)
(* decides on each day is what was last assigned for it; nothing else writes  *)
(* rows.                                                                      *)
LEMMA RowsStep ==
  ASSUME ShiftTypes, RowsInv, [ShiftNext]_shiftVars PROVE RowsInv'
<1>1. ASSUME UNCHANGED <<rows, plan, raced>> PROVE RowsInv'
  BY <1>1 DEF RowsInv, RowsInOrder, RowsOf, LastDecides, RowsOn, InForce, Ids
<1>2. ASSUME NEW r \in ShiftRequests, WriteAssignment(r) PROVE RowsInv'
  <2>0. PICK q : q = task[r] OBVIOUS
  <2>1. AssignTask(q) /\ q.stage = "write"
    BY <1>2, <2>0 DEF WriteAssignment, TaskAt, ShiftTypes, TasksTyped, TaskTyped
  <2>2. CASE ~(Trimmed(q) \subseteq Ids) BY <1>1, <1>2, <2>0, <2>2 DEF WriteAssignment
  <2>3. CASE Trimmed(q) \subseteq Ids
    <3>1. /\ rows' = Assign(q, written + 1)
          /\ Plan(q.target, q.from, q.to, q.shift)
          /\ raced' = IF [i \in RowsOf(q.target) |-> rows[i]] = q.seen
                      THEN raced ELSE raced \cup {q.target}
      BY <1>2, <2>0, <2>3 DEF WriteAssignment
    <3> SUFFICES ASSUME NEW target \in Targets \ raced'
                 PROVE  RowsInOrder(target)' /\ \A d \in Days : LastDecides(target, d)'
      BY DEF RowsInv
    <3>2. CASE target = q.target BY <2>1, <2>3, <3>1, <3>2, AssignKeepsPlan
    <3>3. CASE target # q.target
      <4>1. \A i \in DOMAIN q.seen : i \in Ids => rows[i].target = q.target
        BY <2>1 DEF AssignTask
      <4>2. Superseded(q) \subseteq DOMAIN q.seen /\ Trimmed(q) \subseteq DOMAIN q.seen
        BY DEF Superseded, Trimmed, Overlapping
      <4>0. Reassigned(q)
        <5>1. RowsTyped /\ AssignTask(q) /\ q.stage = "write" BY <2>1 DEF ShiftTypes
        <5> QED BY <2>3, <3>1, <5>1, AssignedRows
      <4>3. Ids' = (Ids \ Superseded(q)) \cup {written + 1} /\ written + 1 \notin Ids
            /\ rows'[written + 1].target = q.target
            /\ \A i \in Ids \ Superseded(q) : rows'[i].target = rows[i].target
        BY <4>0 DEF Reassigned
      <4>4. \A i \in RowsOf(target) : i \in Ids' /\ rows'[i] = rows[i]
        <5> SUFFICES ASSUME NEW i \in RowsOf(target) PROVE i \in Ids' /\ rows'[i] = rows[i]
          OBVIOUS
        <5>1. i \in Ids /\ rows[i].target = target BY DEF RowsOf
        <5>2. i \notin Superseded(q) /\ i \notin Trimmed(q) /\ i # written + 1
          BY <3>3, <4>1, <4>2, <4>3, <5>1
        <5> QED BY <3>1, <4>3, <5>1, <5>2 DEF Assign
      <4>5. \A i \in Ids' : rows'[i].target = target => i \in RowsOf(target)
        BY <3>3, <4>3 DEF RowsOf
      <4>6. plan'[target] = plan[target]
        BY <3>1, <3>3 DEF Plan, ShiftTypes, TablesTyped
      <4>7. target \in Targets \ raced BY <3>1
      <4> QED BY <4>4, <4>5, <4>6, <4>7, OtherTargets
    <3> QED BY <3>2, <3>3
  <2> QED BY <2>2, <2>3
<1>3. ASSUME NEW r \in ShiftRequests, Hire(r) PROVE RowsInv'
  <2>1. PICK p \in People \ hired, s \in LiveShifts \cap Assignable :
          /\ rows' = [i \in Ids \cup {written + 1} |->
                        IF i \in Ids THEN rows[i]
                        ELSE [target |-> p, from |-> today, to |-> Open, shift |-> s]]
          /\ Plan(p, today, Open, s)
    BY <1>3 DEF Hire
  <2>2. raced' = raced BY <1>3 DEF Hire
  <2> DEFINE id == written + 1
  <2>3. /\ Ids' = Ids \cup {id} /\ id \notin Ids
        /\ rows'[id] = [target |-> p, from |-> today, to |-> Open, shift |-> s]
        /\ \A i \in Ids : rows'[i] = rows[i]
    BY <2>1 DEF Ids, ShiftTypes, RowsTyped
  <2>4. \A i \in Ids : rows[i].target # p
    BY PeopleAssumption DEF ShiftTypes, RowsTyped
  <2>5. p \in Targets BY DEF Targets
  <2> SUFFICES ASSUME NEW target \in Targets \ raced'
               PROVE  RowsInOrder(target)' /\ \A d \in Days : LastDecides(target, d)'
    BY DEF RowsInv
  <2>6. CASE target = p
    <3>1. RowsOf(p)' = {id} BY <2>3, <2>4 DEF RowsOf
    <3>2. id \in Nat BY DEF ShiftTypes, RowsTyped
    <3>3. RowsInOrder(p)' BY <3>1, <3>2 DEF RowsInOrder
    <3>4. ASSUME NEW d \in Days PROVE LastDecides(p, d)'
      <4>1. RowsOn(p, d)' = IF today <= d THEN {id} ELSE {}
        BY <2>3, <2>4, DayAssumption DEF RowsOn, InForce, Days, Open
      <4>2. plan'[p][d] = IF today <= d THEN s ELSE plan[p][d]
        BY <2>1, <2>5, DayAssumption DEF Plan, ShiftTypes, TablesTyped, Days, Open
      <4>3. RowsOn(p, d) = {} BY <2>4 DEF RowsOn
      <4>4. plan[p][d] = "nothing"
        BY <2>2, <2>6, <4>3 DEF RowsInv, LastDecides
      <4> QED BY <2>3, <3>2, <4>1, <4>2, <4>4 DEF LastDecides
    <3> QED BY <2>6, <3>3, <3>4
  <2>7. CASE target # p
    <3>1. plan'[target] = plan[target] BY <2>1, <2>7 DEF Plan, ShiftTypes, TablesTyped
    <3>2. \A i \in RowsOf(target) : i \in Ids' /\ rows'[i] = rows[i]
      BY <2>3 DEF RowsOf
    <3>3. \A i \in Ids' : rows'[i].target = target => i \in RowsOf(target)
      BY <2>3, <2>7 DEF RowsOf
    <3> QED BY <2>2, <3>1, <3>2, <3>3, OtherTargets
  <2> QED BY <2>6, <2>7
<1>4. ASSUME NEW r \in ShiftRequests,
             \/ AskAssign(r) \/ ReadOverlapping(r) \/ AskCreate(r) \/ WriteShift(r)
             \/ ReadShift(r) \/ LockForUpdate(r) \/ UpdateShift(r) \/ CheckUsage(r)
             \/ SoftDelete(r) \/ ReadDefaults(r) \/ SetDefault(r) \/ Invalidate(r)
      PROVE  RowsInv'
  BY <1>1, <1>4 DEF AskAssign, ReadOverlapping, AskCreate, WriteShift, ReadShift,
     LockForUpdate, UpdateShift, CheckUsage, SoftDelete, ReadDefaults, SetDefault, Invalidate
<1>5. CASE OpenContext \/ ReadContext \/ DropContext \/ Midnight \/ UNCHANGED shiftVars
  BY <1>1, <1>5 DEF OpenContext, ReadContext, DropContext, Midnight, shiftVars
<1> QED BY <1>2, <1>3, <1>4, <1>5 DEF ShiftNext, ShiftStep

-----------------------------------------------------------------------------
(* Shifts: names and the default *)

(* A name that was found free stays free while its scope is locked.           *)
NameHeld(r, scope, except) ==
    nameLock[scope] = r /\ ~NameClash(scope, task[r].name, except)
NamesHold ==
    \A r \in ShiftRequests :
        /\ TaskAt(r, "create", "write") => NameHeld(r, "org", None)
        /\ TaskAt(r, "update", "write") => NameHeld(r, shift[task[r].id].scope, task[r].id)
NamesInv == NamesAreUnique /\ NamesHold

Moving(r) == task[r] # None /\ task[r].kind \in {"default", "remove"}

(* While nothing crossed, one request at most moves or removes a default: the *)
(* shift it chose stays live, the one it removes is not the default, and the  *)
(* defaults it will clear are all the others.                                 *)
MoveHolds(q) ==
    /\ q.kind = "remove" => ~shift[q.id].default
    /\ q.kind = "default" => Live(q.id)
    /\ q.kind = "default" /\ q.stage = "write" /\ shift[q.id].scope = "org" =>
         Defaults("org") \ {q.id} \subseteq q.others
MovesHold ==
    /\ \A r, o \in ShiftRequests : Moving(r) /\ Moving(o) => r = o
    /\ \A r \in ShiftRequests : Moving(r) => MoveHolds(task[r])
OrgHasDefault ==
    (\E s \in LiveShifts : shift[s].scope = "org") => \E s \in LiveShifts : Defaults("org") = {s}
DefaultInv == ~crossed => MovesHold /\ OrgHasDefault

(* createUnique and updateUnique check a name under the lock of its scope: a  *)
(* name found free is still free when it is written, so no two live shifts of *)
(* a scope share one.                                                         *)
LEMMA NamesStep ==
  ASSUME ShiftTypes, NamesInv, [ShiftNext]_shiftVars PROVE NamesInv'
<1>1. ShiftTypes' BY ShiftTypesStep
<1>2. \A s : s \in LiveShifts <=> s \in ShiftIds /\ shift[s] # None /\ shift[s].live
  BY DEF LiveShifts, Live
<1>3. \A s : s \in LiveShifts' <=> s \in ShiftIds /\ shift'[s] # None /\ shift'[s].live
  BY DEF LiveShifts, Live
<1>4. ASSUME \A s \in LiveShifts' : /\ s \in LiveShifts /\ shift'[s].scope = shift[s].scope
                                    /\ shift'[s].name = shift[s].name,
             \A s \in ShiftIds : shift[s] # None => shift'[s].scope = shift[s].scope,
             UNCHANGED nameLock,
             \A o \in ShiftRequests :
               (TaskAt(o, "create", "write") \/ TaskAt(o, "update", "write"))' => task'[o] = task[o]
      PROVE  NamesInv'
  <2>1. NamesAreUnique' BY <1>4 DEF NamesInv, NamesAreUnique
  <2>2. \A scope, name, except : NameClash(scope, name, except)' => NameClash(scope, name, except)
    BY <1>4 DEF NameClash
  <2>3. \A o \in ShiftRequests : TaskAt(o, "update", "write") =>
          task[o].id \in ShiftIds /\ shift[task[o].id] # None
    BY DEF ShiftTypes, TasksTyped, TaskTyped, TaskAt, UpdateTask
  <2>4. NamesHold'
    BY <1>4, <2>2, <2>3 DEF NamesInv, NamesHold, NameHeld, TaskAt
  <2> QED BY <2>1, <2>4 DEF NamesInv
<1>5. ASSUME NEW r \in ShiftRequests, AskCreate(r) PROVE NamesInv'
  <2>1. PICK name \in Names :
          ~NameClash("org", name, None)
          /\ Ask(r, [kind |-> "create", stage |-> "write", name |-> name])
    BY <1>5 DEF AskCreate
  <2>2. nameLock["org"] = None /\ nameLock' = [nameLock EXCEPT !["org"] = r] /\ UNCHANGED shift
    BY <1>5 DEF AskCreate, LockNames
  <2>3. /\ task'[r] = [kind |-> "create", stage |-> "write", name |-> name]
        /\ \A o \in ShiftRequests \ {r} : task'[o] = task[o]
    BY <2>1, TaskSteps DEF ShiftTypes, TasksTyped
  <2>4. NamesAreUnique' BY <2>2, <1>2, <1>3 DEF NamesInv, NamesAreUnique
  <2>5. \A scope, n, except : NameClash(scope, n, except)' <=> NameClash(scope, n, except)
    BY <2>2, <1>2, <1>3 DEF NameClash
  <2>6. nameLock'["org"] = r /\ \A scope : scope # "org" => nameLock'[scope] = nameLock[scope]
    BY <2>2 DEF ShiftTypes, TablesTyped, Scopes
  <2>7. NamesHold'
    <3> SUFFICES ASSUME NEW o \in ShiftRequests
                 PROVE  /\ TaskAt(o, "create", "write")' => NameHeld(o, "org", None)'
                        /\ TaskAt(o, "update", "write")' =>
                             NameHeld(o, shift[task[o].id].scope, task[o].id)'
      BY DEF NamesHold
    <3>1. CASE o = r BY <2>1, <2>3, <2>5, <2>6, <3>1 DEF NameHeld, TaskAt
    <3>2. CASE o # r
      <4>1. task'[o] = task[o] /\ None # o BY <2>3, <3>2, NoneAssumption
      <4> QED BY <2>2, <2>5, <2>6, <4>1 DEF NamesInv, NamesHold, NameHeld, TaskAt
    <3> QED BY <3>1, <3>2
  <2> QED BY <2>4, <2>7 DEF NamesInv
<1>6. ASSUME NEW r \in ShiftRequests, WriteShift(r) PROVE NamesInv'
  <2>1. PICK s \in ShiftIds :
          /\ shift[s] = None
          /\ shift' = [shift EXCEPT ![s] = [scope |-> "org", name |-> task[r].name,
                                            default |-> FirstIsDefault, live |-> TRUE]]
    BY <1>6 DEF WriteShift
  <2>2. nameLock["org"] = r /\ ~NameClash("org", task[r].name, None)
    BY <1>6 DEF WriteShift, NamesInv, NamesHold, NameHeld
  <2>3. nameLock' = [nameLock EXCEPT !["org"] = None] /\ Wrote(r)
    BY <1>6 DEF WriteShift, Release
  <2>4. \A scope : scope # "org" => nameLock'[scope] = nameLock[scope]
    BY <2>3 DEF ShiftTypes, TablesTyped, Scopes
  <2>5. /\ task'[r].kind = "forget" /\ \A o \in ShiftRequests \ {r} : task'[o] = task[o]
    BY <2>3, TaskSteps DEF ShiftTypes, TasksTyped
  <2>6. /\ LiveShifts' = LiveShifts \cup {s} /\ s \notin LiveShifts
        /\ shift'[s].scope = "org" /\ shift'[s].name = task[r].name
        /\ \A x \in ShiftIds \ {s} : shift'[x] = shift[x]
    <3>1. task[r].name \in Names
      BY <1>6 DEF WriteShift, TaskAt, ShiftTypes, TasksTyped, TaskTyped
    <3>2. [scope |-> "org", name |-> task[r].name, default |-> FirstIsDefault, live |-> TRUE]
            \in ShiftRow
      BY <3>1 DEF ShiftRow, Scopes, FirstIsDefault
    <3>3. shift'[s] # None /\ shift'[s] = [scope |-> "org", name |-> task[r].name,
                                           default |-> FirstIsDefault, live |-> TRUE]
      BY <2>1, <3>2, NoneAssumption DEF ShiftTypes, TablesTyped
    <3>4. \A x \in ShiftIds \ {s} : shift'[x] = shift[x]
      BY <2>1 DEF ShiftTypes, TablesTyped
    <3> QED BY <2>1, <3>3, <3>4 DEF LiveShifts, Live
  <2>7. NamesAreUnique'
    <3>1. \A x \in LiveShifts : shift[x].scope = "org" => shift[x].name # task[r].name
      BY <2>2, NoneAssumption DEF NameClash, LiveShifts
    <3> QED BY <2>6, <3>1, <1>2 DEF NamesInv, NamesAreUnique
  <2>8. \A scope, n, except : scope # "org" /\ NameClash(scope, n, except)'
                                => NameClash(scope, n, except)
    BY <2>6, <1>2 DEF NameClash
  <2>9. NamesHold'
    <3> SUFFICES ASSUME NEW o \in ShiftRequests, o # r
                 PROVE  /\ TaskAt(o, "create", "write")' => NameHeld(o, "org", None)'
                        /\ TaskAt(o, "update", "write")' =>
                             NameHeld(o, shift[task[o].id].scope, task[o].id)'
      BY <2>5 DEF NamesHold, TaskAt
    <3>1. task'[o] = task[o] BY <2>5
    <3>2. ~TaskAt(o, "create", "write") BY <2>2 DEF NamesInv, NamesHold, NameHeld
    <3>3. TaskAt(o, "update", "write") => /\ shift[task[o].id].scope # "org"
                                          /\ task[o].id \in ShiftIds \ {s}
      BY <2>1, <2>2 DEF NamesInv, NamesHold, NameHeld, ShiftTypes, TasksTyped, TaskTyped, TaskAt, UpdateTask
    <3> QED BY <2>4, <2>6, <2>8, <3>1, <3>2, <3>3 DEF NamesInv, NamesHold, NameHeld, TaskAt
  <2> QED BY <2>7, <2>9 DEF NamesInv
<1>7. ASSUME NEW r \in ShiftRequests, LockForUpdate(r) PROVE NamesInv'
  <2> DEFINE q == task[r]  scope == shift[q.id].scope  next == [q EXCEPT !.stage = "write"]
  <2>1. q \in UpdateTask /\ scope \in Scopes
    BY <1>7 DEF LockForUpdate, TaskAt, ShiftTypes, TasksTyped, TaskTyped, UpdateTask,
       TablesTyped, ShiftRow
  <2>2. UNCHANGED shift BY <1>7 DEF LockForUpdate
  <2>3. CASE NameClash(scope, q.name, q.id)
    <3>1. Go(r, None) /\ UNCHANGED nameLock BY <1>7, <2>3 DEF LockForUpdate
    <3> QED BY <1>2, <1>3, <1>4, <2>2, <3>1, TaskSteps DEF TaskAt, ShiftTypes, TasksTyped
  <2>4. CASE ~NameClash(scope, q.name, q.id)
    <3>1. LockNames(r, scope) /\ Go(r, next) BY <1>7, <2>4 DEF LockForUpdate
    <3>2. next.id = q.id /\ next.name = q.name /\ next.kind = "update" BY <2>1 DEF UpdateTask
    <3>3. task'[r] = next /\ \A o \in ShiftRequests \ {r} : task'[o] = task[o]
      BY <3>1, TaskSteps DEF ShiftTypes, TasksTyped
    <3>4. /\ nameLock[scope] = None /\ nameLock'[scope] = r
          /\ \A x : x # scope => nameLock'[x] = nameLock[x]
      BY <2>1, <3>1 DEF LockNames, ShiftTypes, TablesTyped
    <3>5. NamesAreUnique' BY <2>2, <1>2, <1>3 DEF NamesInv, NamesAreUnique
    <3>6. \A x, n, except : NameClash(x, n, except)' <=> NameClash(x, n, except)
      BY <2>2, <1>2, <1>3 DEF NameClash
    <3>7. NamesHold'
      <4> SUFFICES ASSUME NEW o \in ShiftRequests
                   PROVE  /\ TaskAt(o, "create", "write")' => NameHeld(o, "org", None)'
                          /\ TaskAt(o, "update", "write")' =>
                               NameHeld(o, shift[task[o].id].scope, task[o].id)'
        BY DEF NamesHold
      <4>1. CASE o = r
        <5> HIDE DEF next
        <5> QED BY <2>2, <2>4, <3>2, <3>3, <3>4, <3>6, <4>1 DEF NameHeld, TaskAt
      <4>2. CASE o # r
        <5>1. task'[o] = task[o] /\ None # o BY <3>3, <4>2, NoneAssumption
        <5> QED BY <2>2, <3>4, <3>6, <5>1 DEF NamesInv, NamesHold, NameHeld, TaskAt
      <4> QED BY <4>1, <4>2
    <3> QED BY <3>5, <3>7 DEF NamesInv
  <2> QED BY <2>3, <2>4
<1>8. ASSUME NEW r \in ShiftRequests, UpdateShift(r) PROVE NamesInv'
  <2> DEFINE q == task[r]  scope == shift[q.id].scope
  <2>1. q \in UpdateTask /\ shift[q.id] # None /\ q.id \in ShiftIds /\ shift[q.id] \in ShiftRow
    BY <1>8 DEF UpdateShift, TaskAt, ShiftTypes, TasksTyped, TaskTyped, UpdateTask,
       TablesTyped
  <2>2. nameLock[scope] = r /\ ~NameClash(scope, q.name, q.id)
    BY <1>8 DEF UpdateShift, NamesInv, NamesHold, NameHeld
  <2>3. /\ nameLock' = [nameLock EXCEPT ![scope] = None] /\ Wrote(r)
        /\ shift' = [shift EXCEPT ![q.id].name = q.name]
    BY <1>8 DEF UpdateShift, Release
  <2>4. \A x : x # scope => nameLock'[x] = nameLock[x]
    BY <2>3 DEF ShiftTypes, TablesTyped
  <2>5. task'[r].kind = "forget" /\ \A o \in ShiftRequests \ {r} : task'[o] = task[o]
    BY <2>3, TaskSteps DEF ShiftTypes, TasksTyped
  <2>6. /\ LiveShifts' = LiveShifts
        /\ shift'[q.id].scope = scope /\ shift'[q.id].name = q.name
        /\ \A x \in ShiftIds \ {q.id} : shift'[x] = shift[x]
    <3>1. \A x \in ShiftIds \ {q.id} : shift'[x] = shift[x]
      BY <2>3 DEF ShiftTypes, TablesTyped
    <3>2. /\ shift'[q.id].scope = scope /\ shift'[q.id].name = q.name
          /\ shift'[q.id].live = shift[q.id].live
      BY <2>1, <2>3 DEF ShiftTypes, TablesTyped, ShiftRow
    <3>3. shift'[q.id] # None
      <4>1. [shift[q.id] EXCEPT !.name = q.name] \in ShiftRow
        BY <2>1 DEF ShiftRow, UpdateTask
      <4> QED BY <2>1, <2>3, <4>1, NoneAssumption DEF ShiftTypes, TablesTyped
    <3> QED BY <2>1, <3>1, <3>2, <3>3 DEF LiveShifts, Live
  <2>7. NamesAreUnique'
    <3>1. \A x \in LiveShifts : x # q.id /\ shift[x].scope = scope => shift[x].name # q.name
      BY <2>2 DEF NameClash
    <3> QED BY <2>6, <3>1, <1>2 DEF NamesInv, NamesAreUnique
  <2>8. \A x, n, except : x # scope /\ NameClash(x, n, except)' => NameClash(x, n, except)
    BY <2>6, <1>2 DEF NameClash
  <2>9. NamesHold'
    <3> SUFFICES ASSUME NEW o \in ShiftRequests, o # r
                 PROVE  /\ TaskAt(o, "create", "write")' => NameHeld(o, "org", None)'
                        /\ TaskAt(o, "update", "write")' =>
                             NameHeld(o, shift[task[o].id].scope, task[o].id)'
      BY <2>5 DEF NamesHold, TaskAt
    <3>1. task'[o] = task[o] BY <2>5
    <3>2. TaskAt(o, "create", "write") => scope # "org"
      BY <2>2 DEF NamesInv, NamesHold, NameHeld
    <3>3. TaskAt(o, "update", "write") => /\ task[o].id \in ShiftIds
                                          /\ shift[task[o].id].scope # scope
      BY <2>2 DEF NamesInv, NamesHold, NameHeld, ShiftTypes, TasksTyped, TaskTyped, TaskAt, UpdateTask
    <3> QED BY <2>4, <2>6, <2>8, <3>1, <3>2, <3>3 DEF NamesInv, NamesHold, NameHeld, TaskAt
  <2> QED BY <2>7, <2>9 DEF NamesInv
<1>9. ASSUME NEW r \in ShiftRequests, SoftDelete(r) PROVE NamesInv'
  <2>1. task[r] \in RemoveTask /\ Wrote(r) /\ UNCHANGED nameLock
    BY <1>9 DEF SoftDelete, TaskAt, ShiftTypes, TasksTyped, TaskTyped
  <2>2. /\ task[r].id \in ShiftIds /\ shift[task[r].id] # None
        /\ shift[task[r].id] \in ShiftRow
    BY <1>9, <2>1 DEF SoftDelete, TaskAt, ShiftTypes, TasksTyped, TaskTyped, RemoveTask,
       TablesTyped
  <2>3. \A s \in ShiftIds \ {task[r].id} : shift'[s] = shift[s]
    BY <1>9 DEF SoftDelete, ShiftTypes, TablesTyped
  <2>4. shift'[task[r].id].live = FALSE /\ shift'[task[r].id].scope = shift[task[r].id].scope
    BY <1>9, <2>2 DEF SoftDelete, ShiftTypes, TablesTyped, ShiftRow
  <2>5. task'[r].kind = "forget" /\ \A o \in ShiftRequests \ {r} : task'[o] = task[o]
    BY <2>1, TaskSteps DEF ShiftTypes, TasksTyped
  <2>6. \A s \in LiveShifts' : s \in LiveShifts /\ shift'[s] = shift[s]
    BY <1>2, <1>3, <2>3, <2>4
  <2> QED BY <1>4, <2>1, <2>3, <2>4, <2>5, <2>6 DEF TaskAt
<1>10. ASSUME NEW r \in ShiftRequests, SetDefault(r) PROVE NamesInv'
  <2>1. Wrote(r) /\ UNCHANGED nameLock BY <1>10 DEF SetDefault
  <2>2. /\ task[r].id \in ShiftIds /\ shift[task[r].id] # None
        /\ \A s \in task[r].others : shift[s] # None
    BY <1>10 DEF SetDefault, TaskAt, ShiftTypes, TasksTyped, TaskTyped
  <2>3. \A s \in ShiftIds : shift[s] # None =>
          \A b \in BOOLEAN :
            /\ [shift[s] EXCEPT !.default = b].name = shift[s].name
            /\ [shift[s] EXCEPT !.default = b].scope = shift[s].scope
            /\ [shift[s] EXCEPT !.default = b].live = shift[s].live
    BY DEF ShiftTypes, TablesTyped, ShiftRow
  <2>4. \A s \in ShiftIds :
          /\ shift[s] = None => shift'[s] = None
          /\ shift[s] # None => /\ shift'[s].name = shift[s].name
                                /\ shift'[s].scope = shift[s].scope
                                /\ shift'[s].live = shift[s].live
    BY <1>10, <2>2, <2>3 DEF SetDefault
  <2>5. task'[r].kind = "forget" /\ \A o \in ShiftRequests \ {r} : task'[o] = task[o]
    BY <2>1, TaskSteps DEF ShiftTypes, TasksTyped
  <2> QED BY <1>2, <1>3, <1>4, <2>1, <2>4, <2>5 DEF TaskAt
<1>11. ASSUME NEW r \in ShiftRequests,
              \/ AskAssign(r) \/ ReadOverlapping(r) \/ WriteAssignment(r) \/ Hire(r)
              \/ ReadShift(r) \/ CheckUsage(r) \/ ReadDefaults(r) \/ Invalidate(r)
      PROVE  NamesInv'
  <2>1. UNCHANGED <<shift, nameLock>>
    BY <1>11 DEF AskAssign, ReadOverlapping, WriteAssignment, Hire, ReadShift, CheckUsage,
       ReadDefaults, Invalidate
  <2>2. \A o \in ShiftRequests \ {r} : task'[o] = task[o]
    BY <1>11, TaskSteps
    DEF AskAssign, ReadOverlapping, WriteAssignment, Hire, ReadShift, CheckUsage,
        ReadDefaults, Invalidate, ShiftTypes, TasksTyped
  <2>3. \/ task'[r] = None \/ task'[r] = task[r]
        \/ task'[r].kind \in {"assign", "remove", "default", "forget"}
        \/ task'[r].stage = "lock"
    <3>1. CASE AskAssign(r) BY <3>1, TaskSteps DEF AskAssign, ShiftTypes, TasksTyped
    <3>2. CASE ReadOverlapping(r) BY <3>2, TaskSteps DEF ReadOverlapping, ShiftTypes, TasksTyped
    <3>3. CASE WriteAssignment(r) BY <3>3, TaskSteps DEF WriteAssignment, ShiftTypes, TasksTyped
    <3>4. CASE Hire(r) BY <3>4 DEF Hire
    <3>5. CASE ReadShift(r)
      <4>1. PICK s \in LiveShifts :
          \/ \E name \in Names :
                Ask(r, [kind |-> "update", stage |-> "lock", id |-> s, name |-> name])
          \/ ~shift[s].default /\ Ask(r, [kind |-> "remove", stage |-> "usage", id |-> s])
          \/ Ask(r, [kind |-> "default", stage |-> "read", id |-> s])
        BY <3>5 DEF ReadShift
      <4>2. \/ \E name \in Names : task'[r] = [kind |-> "update", stage |-> "lock", id |-> s,
                                               name |-> name]
            \/ task'[r] = [kind |-> "remove", stage |-> "usage", id |-> s]
            \/ task'[r] = [kind |-> "default", stage |-> "read", id |-> s]
        BY <4>1, TaskSteps DEF ShiftTypes, TasksTyped
      <4>3. CASE \E name \in Names : task'[r] = [kind |-> "update", stage |-> "lock", id |-> s,
                                                 name |-> name]
        BY <4>3
      <4>4. CASE task'[r] = [kind |-> "remove", stage |-> "usage", id |-> s] BY <4>4
      <4>5. CASE task'[r] = [kind |-> "default", stage |-> "read", id |-> s] BY <4>5
      <4> QED BY <4>2, <4>3, <4>4, <4>5
    <3>6. CASE CheckUsage(r)
      <4>1. task[r] \in RemoveTask
        BY <3>6 DEF CheckUsage, TaskAt, ShiftTypes, TasksTyped, TaskTyped
      <4>2. [task[r] EXCEPT !.stage = "write"].kind = "remove" BY <4>1 DEF RemoveTask
      <4> QED BY <3>6, <4>2, TaskSteps DEF CheckUsage, ShiftTypes, TasksTyped
    <3>7. CASE ReadDefaults(r) BY <3>7, TaskSteps DEF ReadDefaults, ShiftTypes, TasksTyped
    <3>8. CASE Invalidate(r) BY <3>8, TaskSteps DEF Invalidate, ShiftTypes, TasksTyped
    <3> QED BY <1>11, <3>1, <3>2, <3>3, <3>4, <3>5, <3>6, <3>7, <3>8
  <2>4. LiveShifts' = LiveShifts BY <1>2, <1>3, <2>1
  <2> QED BY <1>4, <2>1, <2>2, <2>3, <2>4 DEF TaskAt
<1>12. CASE OpenContext \/ ReadContext \/ DropContext \/ Midnight \/ UNCHANGED shiftVars
  <2>1. UNCHANGED <<shift, nameLock, task>>
    BY <1>12 DEF OpenContext, ReadContext, DropContext, Midnight, shiftVars
  <2>2. LiveShifts' = LiveShifts BY <1>2, <1>3, <2>1
  <2> QED BY <1>4, <2>1, <2>2
<1> QED
  BY <1>5, <1>6, <1>7, <1>8, <1>9, <1>10, <1>11, <1>12 DEF ShiftNext, ShiftStep

(* While no change of default met another one or a removal, an organisation   *)
(* with a shift keeps exactly one default: the first shift becomes it,        *)
(* setDefault clears every other, and the default cannot be removed.          *)
LEMMA DefaultStep ==
  ASSUME ShiftTypes, DefaultInv, [ShiftNext]_shiftVars PROVE DefaultInv'
<1>1. ShiftTypes' BY ShiftTypesStep
<1>2. \A s : s \in LiveShifts <=> s \in ShiftIds /\ shift[s] # None /\ shift[s].live
  BY DEF LiveShifts, Live
<1>3. \A s : s \in LiveShifts' <=> s \in ShiftIds /\ shift'[s] # None /\ shift'[s].live
  BY DEF LiveShifts, Live
<1>4. \A s : s \in Defaults("org") <=> s \in LiveShifts /\ shift[s].scope = "org" /\ shift[s].default
  BY DEF Defaults
<1>5. \A s : s \in Defaults("org")' <=> s \in LiveShifts' /\ shift'[s].scope = "org" /\ shift'[s].default
  BY DEF Defaults
<1>6. ASSUME \A s \in ShiftIds :
               /\ shift'[s] = None <=> shift[s] = None
               /\ shift[s] # None => /\ shift'[s].live = shift[s].live
                                     /\ shift'[s].scope = shift[s].scope
                                     /\ shift'[s].default = shift[s].default,
             UNCHANGED crossed,
             \A o \in ShiftRequests : Moving(o)' => task'[o] = task[o]
      PROVE  DefaultInv'
  <2> SUFFICES ASSUME ~crossed' PROVE MovesHold' /\ OrgHasDefault'
    BY DEF DefaultInv
  <2>1. MovesHold /\ OrgHasDefault BY <1>6 DEF DefaultInv
  <2>2. LiveShifts' = LiveShifts /\ Defaults("org")' = Defaults("org")
    <3>1. \A s : s \in LiveShifts' <=> s \in LiveShifts BY <1>2, <1>3, <1>6
    <3>2. \A s : s \in Defaults("org")' <=> s \in Defaults("org")
      BY <1>2, <1>4, <1>5, <1>6, <3>1
    <3> QED BY <3>1, <3>2
  <2>3. OrgHasDefault' BY <1>2, <1>6, <2>1, <2>2 DEF OrgHasDefault
  <2>4. \A o \in ShiftRequests : Moving(o) => task[o].id \in ShiftIds /\ shift[task[o].id] # None
    BY DEF Moving, ShiftTypes, TasksTyped, TaskTyped, RemoveTask
  <2>5. \A o \in ShiftRequests : Moving(o)' => Moving(o)
    BY <1>6 DEF Moving
  <2>6. ASSUME NEW o \in ShiftRequests, Moving(o)' PROVE MoveHolds(task[o])'
    <3>1. task'[o] = task[o] /\ Moving(o) BY <1>6, <2>5, <2>6
    <3>2. task[o].id \in ShiftIds /\ shift[task[o].id] # None BY <2>4, <3>1
    <3>3. MoveHolds(task[o]) BY <2>1, <3>1 DEF MovesHold
    <3> QED BY <1>6, <2>2, <3>1, <3>2, <3>3 DEF MoveHolds, Live
  <2>7. MovesHold' BY <2>1, <2>2, <2>5, <2>6 DEF MovesHold
  <2> QED BY <2>3, <2>7
<1>7. ASSUME NEW r \in ShiftRequests, ReadShift(r) PROVE DefaultInv'
  <2>1. UNCHANGED shift BY <1>7 DEF ReadShift
  <2>2. PICK s \in LiveShifts :
          \/ \E name \in Names :
                Ask(r, [kind |-> "update", stage |-> "lock", id |-> s, name |-> name])
          \/ ~shift[s].default /\ Ask(r, [kind |-> "remove", stage |-> "usage", id |-> s])
          \/ Ask(r, [kind |-> "default", stage |-> "read", id |-> s])
    BY <1>7 DEF ReadShift
  <2>3. \/ \E name \in Names : task'[r] = [kind |-> "update", stage |-> "lock", id |-> s,
                                           name |-> name]
        \/ task'[r] = [kind |-> "remove", stage |-> "usage", id |-> s] /\ ~shift[s].default
        \/ task'[r] = [kind |-> "default", stage |-> "read", id |-> s]
    BY <2>2, TaskSteps DEF ShiftTypes, TasksTyped
  <2>4. /\ task'[r].kind \in {"update", "remove", "default"}
        /\ \A o \in ShiftRequests \ {r} : task'[o] = task[o]
    <3>1. task'[r].kind \in {"update", "remove", "default"}
      <4>1. CASE \E name \in Names : task'[r] = [kind |-> "update", stage |-> "lock", id |-> s,
                                                 name |-> name]
        BY <4>1
      <4>2. CASE task'[r] = [kind |-> "remove", stage |-> "usage", id |-> s] BY <4>2
      <4>3. CASE task'[r] = [kind |-> "default", stage |-> "read", id |-> s] BY <4>3
      <4> QED BY <2>3, <4>1, <4>2, <4>3
    <3>2. \A o \in ShiftRequests \ {r} : task'[o] = task[o]
      BY <2>2, TaskSteps DEF ShiftTypes, TasksTyped
    <3> QED BY <3>1, <3>2
  <2>5. CASE task'[r].kind = "update"
    <3>1. crossed' = crossed
      BY <1>7, <2>5 DEF ReadShift, ShiftTypes, TablesTyped
    <3> QED BY <1>6, <2>1, <2>4, <2>5, <3>1 DEF Moving
  <2>6. CASE task'[r].kind \in {"remove", "default"}
    <3> SUFFICES ASSUME ~crossed' PROVE MovesHold' /\ OrgHasDefault'
      BY DEF DefaultInv
    <3>1. ~crossed /\ \A o \in ShiftRequests \ {r} : ~Moving(o)
      BY <1>7, <2>6 DEF ReadShift, Moving
    <3>2. OrgHasDefault BY <3>1 DEF DefaultInv
    <3>3. LiveShifts' = LiveShifts /\ Defaults("org")' = Defaults("org")
      BY <1>2, <1>3, <1>4, <1>5, <2>1
    <3>4. OrgHasDefault' BY <2>1, <3>2, <3>3 DEF OrgHasDefault
    <3>5. \A o \in ShiftRequests \ {r} : ~Moving(o)' BY <2>4, <3>1 DEF Moving
    <3>6. Live(s)' BY <1>2, <1>3, <3>3 DEF Live
    <3>7. MoveHolds(task[r])'
      <4>1. CASE task'[r] = [kind |-> "remove", stage |-> "usage", id |-> s] /\ ~shift[s].default
        BY <2>1, <4>1 DEF MoveHolds
      <4>2. CASE task'[r] = [kind |-> "default", stage |-> "read", id |-> s]
        BY <3>6, <4>2 DEF MoveHolds
      <4>3. CASE \E name \in Names : task'[r] = [kind |-> "update", stage |-> "lock", id |-> s,
                                                 name |-> name]
        BY <2>6, <4>3
      <4> QED BY <2>3, <4>1, <4>2, <4>3
    <3>8. MovesHold' BY <3>5, <3>7 DEF MovesHold
    <3> QED BY <3>4, <3>8
  <2> QED BY <2>3, <2>4, <2>5, <2>6
<1>8. ASSUME NEW r \in ShiftRequests, CheckUsage(r) \/ ReadDefaults(r) PROVE DefaultInv'
  <2>1. UNCHANGED <<shift, crossed>> BY <1>8 DEF CheckUsage, ReadDefaults
  <2>2. \A o \in ShiftRequests \ {r} : task'[o] = task[o]
    BY <1>8, TaskSteps DEF CheckUsage, ReadDefaults, ShiftTypes, TasksTyped
  <2> DEFINE id == task[r].id
  <2>3. id \in ShiftIds /\ shift[id] # None /\ Moving(r)
    BY <1>8 DEF CheckUsage, ReadDefaults, TaskAt, ShiftTypes, TasksTyped, TaskTyped,
       RemoveTask, Moving
  <2>4. \/ task'[r] = None
        \/ /\ task'[r].kind = "remove" /\ task'[r].id = id /\ task[r].kind = "remove"
        \/ /\ task'[r].kind = "default" /\ task'[r].id = id /\ task[r].kind = "default"
           /\ shift[id].scope = "org" => Defaults("org") \ {id} \subseteq task'[r].others
    <3>1. CASE CheckUsage(r)
      <4>1. task[r] \in RemoveTask
        BY <3>1 DEF CheckUsage, TaskAt, ShiftTypes, TasksTyped, TaskTyped
      <4>2. /\ [task[r] EXCEPT !.stage = "write"].kind = "remove"
            /\ [task[r] EXCEPT !.stage = "write"].id = id
            /\ task[r].kind = "remove"
        BY <4>1 DEF RemoveTask
      <4>3. task'[r] = None \/ task'[r] = [task[r] EXCEPT !.stage = "write"]
        BY <3>1, TaskSteps DEF CheckUsage, ShiftTypes, TasksTyped
      <4> QED BY <4>2, <4>3
    <3>2. CASE ReadDefaults(r)
      <4> DEFINE others == {s \in ShiftIds \ {id} : shift[s] # None /\ shift[s].default
                                                     /\ shift[s].scope = shift[id].scope}
      <4>1. task'[r] = [kind |-> "default", stage |-> "write", id |-> id, others |-> others]
        BY <3>2, TaskSteps DEF ReadDefaults, ShiftTypes, TasksTyped
      <4>2. task[r].kind = "default" BY <3>2 DEF ReadDefaults, TaskAt
      <4>3. shift[id].scope = "org" => Defaults("org") \ {id} \subseteq others
        BY <1>2, <1>4
      <4> QED BY <4>1, <4>2, <4>3
    <3> QED BY <1>8, <3>1, <3>2
  <2> SUFFICES ASSUME ~crossed' PROVE MovesHold' /\ OrgHasDefault'
    BY DEF DefaultInv
  <2>5. MovesHold /\ OrgHasDefault BY <2>1 DEF DefaultInv
  <2>6. LiveShifts' = LiveShifts /\ Defaults("org")' = Defaults("org")
    BY <1>2, <1>3, <1>4, <1>5, <2>1
  <2>7. OrgHasDefault' BY <2>1, <2>5, <2>6 DEF OrgHasDefault
  <2>8. \A o \in ShiftRequests \ {r} : ~Moving(o) BY <2>3, <2>5 DEF MovesHold
  <2>9. \A o \in ShiftRequests \ {r} : ~Moving(o)' BY <2>2, <2>8 DEF Moving
  <2>10. /\ task[r].kind = "remove" => ~shift[id].default
         /\ task[r].kind = "default" => Live(id)
    BY <2>3, <2>5 DEF MovesHold, MoveHolds
  <2>11. Moving(r)' => MoveHolds(task[r])'
    BY <2>1, <2>4, <2>6, <2>10 DEF MoveHolds, Moving, Live
  <2>12. MovesHold' BY <2>9, <2>11 DEF MovesHold
  <2> QED BY <2>7, <2>12
<1>9. ASSUME NEW r \in ShiftRequests, WriteShift(r) PROVE DefaultInv'
  <2>1. UNCHANGED crossed /\ Wrote(r) BY <1>9 DEF WriteShift
  <2>2. task'[r].kind = "forget" /\ \A o \in ShiftRequests \ {r} : task'[o] = task[o]
    BY <2>1, TaskSteps DEF ShiftTypes, TasksTyped
  <2>3. PICK s \in ShiftIds :
          /\ shift[s] = None
          /\ shift' = [shift EXCEPT ![s] = [scope |-> "org", name |-> task[r].name,
                                            default |-> FirstIsDefault, live |-> TRUE]]
    BY <1>9 DEF WriteShift
  <2>4. [scope |-> "org", name |-> task[r].name, default |-> FirstIsDefault, live |-> TRUE]
          \in ShiftRow
    <3>1. task[r].name \in Names
      BY <1>9 DEF WriteShift, TaskAt, ShiftTypes, TasksTyped, TaskTyped
    <3> QED BY <3>1 DEF ShiftRow, Scopes, FirstIsDefault
  <2>5. /\ shift'[s] # None /\ shift'[s].scope = "org" /\ shift'[s].live
        /\ shift'[s].default = (Defaults("org") = {})
    BY <2>3, <2>4, NoneAssumption DEF ShiftTypes, TablesTyped, FirstIsDefault
  <2>6. \A x \in ShiftIds \ {s} : shift'[x] = shift[x]
    BY <2>3 DEF ShiftTypes, TablesTyped
  <2> SUFFICES ASSUME ~crossed' PROVE MovesHold' /\ OrgHasDefault'
    BY DEF DefaultInv
  <2>7. MovesHold /\ OrgHasDefault BY <2>1 DEF DefaultInv
  <2>8. LiveShifts' = LiveShifts \cup {s} /\ s \notin LiveShifts
    BY <1>2, <1>3, <2>3, <2>5, <2>6
  <2>9. Defaults("org")' = IF Defaults("org") = {} THEN {s} ELSE Defaults("org")
    <3>1. s \notin Defaults("org") /\ (s \in Defaults("org")' <=> Defaults("org") = {})
      BY <1>4, <1>5, <2>5, <2>8
    <3>2. \A x : x # s => (x \in Defaults("org")' <=> x \in Defaults("org"))
      BY <1>2, <1>4, <1>5, <2>6, <2>8
    <3>3. CASE Defaults("org") = {} BY <3>1, <3>2, <3>3
    <3>4. CASE Defaults("org") # {} BY <3>1, <3>2, <3>4
    <3> QED BY <3>3, <3>4
  <2>10. Defaults("org") = {} => \A x \in LiveShifts : shift[x].scope # "org"
    BY <2>7 DEF OrgHasDefault
  <2>11. OrgHasDefault'
    <3>1. CASE Defaults("org") = {}
      BY <2>8, <2>9, <3>1 DEF OrgHasDefault
    <3>2. CASE Defaults("org") # {}
      <4>1. \E x \in LiveShifts : shift[x].scope = "org" BY <1>4, <3>2
      <4> QED BY <2>7, <2>8, <2>9, <3>2, <4>1 DEF OrgHasDefault
    <3> QED BY <3>1, <3>2
  <2>12. ASSUME NEW o \in ShiftRequests, Moving(o)' PROVE MoveHolds(task[o])'
    <3>1. o # r /\ task'[o] = task[o] /\ Moving(o) BY <2>2, <2>12 DEF Moving
    <3>2. task[o].id \in ShiftIds \ {s} /\ shift'[task[o].id] = shift[task[o].id]
      BY <2>3, <2>6, <3>1 DEF Moving, ShiftTypes, TasksTyped, TaskTyped, RemoveTask
    <3>3. MoveHolds(task[o]) BY <2>7, <3>1 DEF MovesHold
    <3>4. task[o].kind = "default" /\ shift[task[o].id].scope = "org" => Defaults("org") # {}
      BY <1>2, <2>10, <3>2, <3>3 DEF MoveHolds, Live
    <3> QED BY <2>9, <3>1, <3>2, <3>3, <3>4 DEF MoveHolds, Live
  <2>13. \A o \in ShiftRequests : Moving(o)' => Moving(o) BY <2>2 DEF Moving
  <2>14. MovesHold' BY <2>7, <2>12, <2>13 DEF MovesHold
  <2> QED BY <2>11, <2>14
<1>10. ASSUME NEW r \in ShiftRequests, SoftDelete(r) PROVE DefaultInv'
  <2> DEFINE id == task[r].id
  <2>1. UNCHANGED crossed /\ Wrote(r) /\ task[r] \in RemoveTask /\ Moving(r)
    BY <1>10 DEF SoftDelete, TaskAt, Moving, ShiftTypes, TasksTyped, TaskTyped
  <2>2. task'[r].kind = "forget" /\ \A o \in ShiftRequests \ {r} : task'[o] = task[o]
    BY <2>1, TaskSteps DEF ShiftTypes, TasksTyped
  <2>3. id \in ShiftIds /\ shift[id] # None /\ shift[id] \in ShiftRow /\ task[r].kind = "remove"
    BY <1>10, <2>1 DEF SoftDelete, TaskAt, ShiftTypes, TasksTyped, TaskTyped, RemoveTask,
       TablesTyped
  <2>4. \A x \in ShiftIds \ {id} : shift'[x] = shift[x]
    BY <1>10 DEF SoftDelete, ShiftTypes, TablesTyped
  <2>5. ~shift'[id].live
    BY <1>10, <2>3 DEF SoftDelete, ShiftTypes, TablesTyped, ShiftRow
  <2> SUFFICES ASSUME ~crossed' PROVE MovesHold' /\ OrgHasDefault'
    BY DEF DefaultInv
  <2>6. MovesHold /\ OrgHasDefault BY <2>1 DEF DefaultInv
  <2>7. ~shift[id].default BY <2>1, <2>3, <2>6 DEF MovesHold, MoveHolds
  <2>8. \A o \in ShiftRequests : ~Moving(o)'
    BY <2>1, <2>2, <2>6 DEF MovesHold, Moving
  <2>9. LiveShifts' = LiveShifts \ {id} BY <1>2, <1>3, <2>4, <2>5
  <2>10. Defaults("org")' = Defaults("org") /\ id \notin Defaults("org")
    <3>1. id \notin Defaults("org") /\ id \notin Defaults("org")'
      BY <1>4, <1>5, <2>7, <2>9
    <3>2. \A x : x # id => (x \in Defaults("org")' <=> x \in Defaults("org"))
      BY <1>2, <1>4, <1>5, <2>4, <2>9
    <3> QED BY <3>1, <3>2
  <2>11. OrgHasDefault'
    BY <1>4, <2>4, <2>6, <2>9, <2>10, <1>2 DEF OrgHasDefault
  <2> QED BY <2>8, <2>11 DEF MovesHold
<1>11. ASSUME NEW r \in ShiftRequests, SetDefault(r) PROVE DefaultInv'
  <2> DEFINE id == task[r].id
  <2>1. /\ UNCHANGED crossed /\ Wrote(r) /\ Moving(r)
        /\ task[r].kind = "default" /\ task[r].stage = "write"
    BY <1>11 DEF SetDefault, TaskAt, Moving
  <2>2. task'[r].kind = "forget" /\ \A o \in ShiftRequests \ {r} : task'[o] = task[o]
    BY <2>1, TaskSteps DEF ShiftTypes, TasksTyped
  <2>3. /\ id \in ShiftIds /\ shift[id] # None
        /\ task[r].others \subseteq ShiftIds \ {id}
        /\ \A s \in task[r].others : shift[s] # None /\ shift[s].scope = shift[id].scope
    BY <2>1 DEF Moving, ShiftTypes, TasksTyped, TaskTyped
  <2>4. \A s \in ShiftIds : shift[s] # None =>
          \A b \in BOOLEAN :
            /\ [shift[s] EXCEPT !.default = b] # None
            /\ [shift[s] EXCEPT !.default = b].default = b
            /\ [shift[s] EXCEPT !.default = b].scope = shift[s].scope
            /\ [shift[s] EXCEPT !.default = b].live = shift[s].live
    BY NoneAssumption DEF ShiftTypes, TablesTyped, ShiftRow
  <2>5. \A s \in ShiftIds :
          /\ shift[s] = None => shift'[s] = None
          /\ shift[s] # None =>
               /\ shift'[s] # None
               /\ shift'[s].scope = shift[s].scope /\ shift'[s].live = shift[s].live
               /\ shift'[s].default = IF s = id THEN TRUE
                                      ELSE IF s \in task[r].others THEN FALSE
                                      ELSE shift[s].default
    BY <1>11, <2>3, <2>4 DEF SetDefault
  <2> SUFFICES ASSUME ~crossed' PROVE MovesHold' /\ OrgHasDefault'
    BY DEF DefaultInv
  <2>6. MovesHold /\ OrgHasDefault BY <2>1 DEF DefaultInv
  <2>7. /\ Live(id)
        /\ shift[id].scope = "org" => Defaults("org") \ {id} \subseteq task[r].others
    BY <2>1, <2>6 DEF MovesHold, MoveHolds
  <2>8. \A o \in ShiftRequests : ~Moving(o)'
    BY <2>1, <2>2, <2>6 DEF MovesHold, Moving
  <2>9. LiveShifts' = LiveShifts
    <3>1. \A s \in ShiftIds : /\ shift'[s] = None <=> shift[s] = None
                              /\ shift[s] # None => shift'[s].live = shift[s].live
      BY <2>5
    <3> QED BY <1>2, <1>3, <3>1
  <2>11. \A s \in LiveShifts :
           /\ shift'[s].scope = shift[s].scope
           /\ shift'[s].default = IF s = id THEN TRUE
                                  ELSE IF s \in task[r].others THEN FALSE ELSE shift[s].default
    BY <1>2, <2>5
  <2>12. \A s : s \in Defaults("org")' <=> s \in LiveShifts /\ shift[s].scope = "org"
                                           /\ shift'[s].default
    BY <1>5, <2>9, <2>11
  <2>10. OrgHasDefault'
    <3>1. CASE shift[id].scope = "org"
      <4>1. id \in Defaults("org")' BY <1>2, <2>3, <2>7, <2>11, <2>12, <3>1 DEF Live
      <4>2. \A x : x # id => x \notin Defaults("org")'
        BY <1>4, <2>7, <2>11, <2>12, <3>1
      <4>3. Defaults("org")' = {id} BY <4>1, <4>2
      <4> QED BY <1>2, <2>3, <2>7, <2>9, <4>3 DEF OrgHasDefault, Live
    <3>2. CASE shift[id].scope # "org"
      <4>1. \A x : x \in Defaults("org")' <=> x \in Defaults("org")
        BY <1>4, <2>3, <2>11, <2>12, <3>2
      <4>2. Defaults("org")' = Defaults("org") BY <4>1
      <4> QED BY <1>2, <2>5, <2>6, <2>9, <4>2 DEF OrgHasDefault
    <3> QED BY <3>1, <3>2
  <2> QED BY <2>8, <2>10 DEF MovesHold
<1>12. ASSUME NEW r \in ShiftRequests, UpdateShift(r) PROVE DefaultInv'
  <2> DEFINE q == task[r]  new == [shift[q.id] EXCEPT !.name = q.name]
  <2>1. Wrote(r) /\ UNCHANGED crossed /\ q \in UpdateTask /\ shift[q.id] # None
    BY <1>12 DEF UpdateShift, TaskAt, ShiftTypes, TasksTyped, TaskTyped
  <2>2. q.id \in ShiftIds /\ shift[q.id] \in ShiftRow
    BY <2>1 DEF UpdateTask, ShiftTypes, TablesTyped
  <2>3. /\ new \in ShiftRow /\ new.scope = shift[q.id].scope
        /\ new.live = shift[q.id].live /\ new.default = shift[q.id].default
    BY <2>1, <2>2 DEF ShiftRow, UpdateTask
  <2>4. shift' = [shift EXCEPT ![q.id] = new] BY <1>12 DEF UpdateShift
  <2>5. shift'[q.id] = new /\ \A s \in ShiftIds \ {q.id} : shift'[s] = shift[s]
    <3> HIDE DEF new
    <3> QED BY <2>2, <2>4 DEF ShiftTypes, TablesTyped
  <2>6. task'[r].kind = "forget" /\ \A o \in ShiftRequests \ {r} : task'[o] = task[o]
    BY <2>1, TaskSteps DEF ShiftTypes, TasksTyped
  <2> HIDE DEF new
  <2>7. \A s \in ShiftIds :
          /\ shift'[s] = None <=> shift[s] = None
          /\ shift[s] # None => /\ shift'[s].live = shift[s].live
                                /\ shift'[s].scope = shift[s].scope
                                /\ shift'[s].default = shift[s].default
    BY <2>1, <2>3, <2>5, NoneAssumption
  <2> QED BY <1>6, <2>1, <2>6, <2>7 DEF Moving
<1>13. ASSUME UNCHANGED <<shift, crossed>>,
              \A o \in ShiftRequests : Moving(o)' => task'[o] = task[o]
       PROVE  DefaultInv'
  BY <1>6, <1>13
<1>14. ASSUME NEW r \in ShiftRequests,
              \/ AskAssign(r) \/ ReadOverlapping(r) \/ WriteAssignment(r) \/ Hire(r)
              \/ AskCreate(r) \/ LockForUpdate(r) \/ Invalidate(r)
       PROVE  DefaultInv'
  <2>1. UNCHANGED <<shift, crossed>>
    BY <1>14 DEF AskAssign, ReadOverlapping, WriteAssignment, Hire, AskCreate, LockForUpdate,
       Invalidate
  <2>2. \A o \in ShiftRequests \ {r} : task'[o] = task[o]
    BY <1>14, TaskSteps
    DEF AskAssign, ReadOverlapping, WriteAssignment, Hire, AskCreate, LockForUpdate,
        Invalidate, ShiftTypes, TasksTyped
  <2>3. \/ task'[r] = None \/ task'[r] = task[r]
        \/ task'[r].kind \in {"assign", "create", "update", "forget"}
    <3>1. CASE AskAssign(r) BY <3>1, TaskSteps DEF AskAssign, ShiftTypes, TasksTyped
    <3>2. CASE ReadOverlapping(r) BY <3>2, TaskSteps DEF ReadOverlapping, ShiftTypes, TasksTyped
    <3>3. CASE WriteAssignment(r) BY <3>3, TaskSteps DEF WriteAssignment, ShiftTypes, TasksTyped
    <3>4. CASE Hire(r) BY <3>4 DEF Hire
    <3>5. CASE AskCreate(r) BY <3>5, TaskSteps DEF AskCreate, ShiftTypes, TasksTyped
    <3>6. CASE LockForUpdate(r)
      <4>1. task[r] \in UpdateTask
        BY <3>6 DEF LockForUpdate, TaskAt, ShiftTypes, TasksTyped, TaskTyped
      <4>2. [task[r] EXCEPT !.stage = "write"].kind = "update" BY <4>1 DEF UpdateTask
      <4> QED BY <3>6, <4>2, TaskSteps DEF LockForUpdate, ShiftTypes, TasksTyped
    <3>7. CASE Invalidate(r) BY <3>7, TaskSteps DEF Invalidate, ShiftTypes, TasksTyped
    <3> QED BY <1>14, <3>1, <3>2, <3>3, <3>4, <3>5, <3>6, <3>7
  <2> QED BY <1>13, <2>1, <2>2, <2>3 DEF Moving
<1>15. CASE OpenContext \/ ReadContext \/ DropContext \/ Midnight \/ UNCHANGED shiftVars
  BY <1>13, <1>15 DEF OpenContext, ReadContext, DropContext, Midnight, shiftVars
<1> QED
  BY <1>7, <1>8, <1>9, <1>10, <1>11, <1>12, <1>14, <1>15 DEF ShiftNext, ShiftStep

-----------------------------------------------------------------------------
(* Shifts: the cached context, the tables to start from, the theorems *)

(* What is cached does not lack a write that was answered.                    *)
ContextInv ==
    context # None =>
        /\ DOMAIN context = {"shifts", "rows"}
        /\ \A table \in DOMAIN context :
             context[table] # None => "answered" \notin context[table]

ShiftInv == ShiftTypes /\ RowsInv /\ NamesInv /\ DefaultInv /\ ContextInv

(* What a write leaves in the cached context it has forgotten by the time it  *)
(* is answered (BreakDayService.invalidate).                                  *)
LEMMA ContextStep ==
  ASSUME ContextInv, [ShiftNext]_shiftVars PROVE ContextInv'
<1>1. ASSUME NEW r \in ShiftRequests, Wrote(r) PROVE ContextInv'
  <2>1. "answered" # r BY NoneAssumption
  <2> QED BY <1>1, <2>1 DEF Wrote, ContextInv
<1>2. ASSUME UNCHANGED context PROVE ContextInv' BY <1>2 DEF ContextInv
<1>3. ASSUME NEW r \in ShiftRequests, ShiftStep(r) PROVE ContextInv'
  <2>1. CASE Wrote(r) BY <1>1, <2>1
  <2>2. CASE UNCHANGED context BY <1>2, <2>2
  <2>3. CASE Invalidate(r) BY <2>3 DEF Invalidate, Forgotten, Answered, ContextInv
  <2> QED
    BY <1>3, <2>1, <2>2, <2>3
    DEF ShiftStep, AskAssign, ReadOverlapping, WriteAssignment, Hire, AskCreate, WriteShift,
        ReadShift, LockForUpdate, UpdateShift, CheckUsage, SoftDelete, ReadDefaults, SetDefault
<1>4. CASE OpenContext BY <1>4 DEF OpenContext, ContextInv
<1>5. CASE ReadContext BY <1>5 DEF ReadContext, ContextInv
<1>6. CASE DropContext BY <1>6 DEF DropContext, ContextInv
<1>7. CASE Midnight \/ UNCHANGED shiftVars BY <1>2, <1>7 DEF Midnight, shiftVars
<1> QED BY <1>3, <1>4, <1>5, <1>6, <1>7 DEF ShiftNext

(* The invariant holds of the tables an organisation starts from.             *)
LEMMA ShiftInitHolds ==
  ASSUME ShiftInit PROVE ShiftInv
<1> DEFINE live == {s \in ShiftIds : shift[s] # None /\ shift[s].live}
<1>1. /\ shift \in [ShiftIds -> ShiftRow \cup {None}]
      /\ \A s, t \in live : s # t /\ shift[s].scope = shift[t].scope
                             => shift[s].name # shift[t].name
      /\ (\E s \in live : shift[s].scope = "org") =>
           \E s \in live : {t \in live : shift[t].scope = "org" /\ shift[t].default} = {s}
  BY TablesAssumption DEF ShiftInit
<1>2. LiveShifts = live BY DEF LiveShifts, Live
<1>3. Defaults("org") = {t \in live : shift[t].scope = "org" /\ shift[t].default}
  BY <1>2 DEF Defaults
<1>4. Ids = {} BY DEF Ids, ShiftInit
<1>5. ShiftTypes BY ShiftTypesInit
<1>6. RowsInv BY <1>4 DEF RowsInv, RowsInOrder, LastDecides, RowsOf, RowsOn, ShiftInit
<1>7. NamesInv BY <1>1, <1>2 DEF NamesInv, NamesAreUnique, NamesHold, TaskAt, ShiftInit
<1>8. DefaultInv
  <2>1. MovesHold BY DEF MovesHold, Moving, ShiftInit
  <2>2. OrgHasDefault
    <3> HIDE DEF live
    <3> QED BY <1>1, <1>2, <1>3 DEF OrgHasDefault
  <2> QED BY <2>1, <2>2 DEF DefaultInv
<1>9. ContextInv BY DEF ContextInv, ShiftInit
<1> QED BY <1>5, <1>6, <1>7, <1>8, <1>9 DEF ShiftInv

(* The inductive invariant of the shifts: types, rows, names, default,        *)
(* context.                                                                   *)
LEMMA ShiftInvHolds == ShiftSpec => []ShiftInv
<1>1. ShiftInit => ShiftInv BY ShiftInitHolds
<1>2. ShiftInv /\ [ShiftNext]_shiftVars => ShiftInv'
  BY ShiftTypesStep, RowsStep, NamesStep, DefaultStep, ContextStep DEF ShiftInv
<1> QED BY <1>1, <1>2, PTL DEF ShiftSpec

(* An assignment decides from its first to its last day and every other day   *)
(* keeps what it had, for targets whose assignments were written one after    *)
(* the other (assign-shift: removing, trimming, newest wins).                 *)
THEOREM PlanHolds == ShiftSpec => []PlanIsKept
<1>1. ShiftInv => PlanIsKept BY PlanFollows DEF ShiftInv
<1> QED BY <1>1, ShiftInvHolds, PTL

(* Names tell the live shifts of a scope apart, and nobody is left with no    *)
(* shift while the organisation has one (createUnique, updateUnique,          *)
(* setDefault, softDelete).                                                   *)
THEOREM ShiftsHold == ShiftSpec => []ShiftsStand
<1>1. ASSUME ShiftInv PROVE ShiftsStand
  <2> SUFFICES ASSUME ~crossed, \E s \in LiveShifts : shift[s].scope = "org"
               PROVE  /\ Cardinality(Defaults("org")) = 1
                      /\ \A p \in People, d \in Days : ResolveShift(p, d) \in LiveShifts
    BY <1>1 DEF ShiftInv, NamesInv, ShiftsStand, NobodyIsLeftWithNone
  <2>1. PICK s \in LiveShifts : Defaults("org") = {s}
    BY <1>1 DEF ShiftInv, DefaultInv, OrgHasDefault
  <2>2. Cardinality(Defaults("org")) = 1 BY <2>1, FS_Singleton
  <2>3. ASSUME NEW p \in People, NEW d \in Days PROVE ResolveShift(p, d) \in LiveShifts
    <3>1. (CHOOSE x \in Defaults("org") : TRUE) \in LiveShifts BY <2>1
    <3> QED BY <2>1, <3>1 DEF ResolveShift
  <2> QED BY <2>2, <2>3
<1> QED BY <1>1, ShiftInvHolds, PTL

(* A cached context shows every answered change of shifts and assignments     *)
(* (BreakDayService: "clear it at once").                                     *)
THEOREM ContextHolds == ShiftSpec => []ContextIsFresh
<1>1. ShiftInv => ContextIsFresh BY DEF ShiftInv, ContextInv, ContextIsFresh
<1> QED BY <1>1, ShiftInvHolds, PTL

-----------------------------------------------------------------------------
(* Settings: types *)

SetTypes ==
    /\ own \in SettingsRow \cup {Absent}
    /\ overrides \in [Dates -> BOOLEAN \cup {Absent}]
    /\ DOMAIN locked = Months
    /\ raw # Absent => raw \in [value : SettingsRow, age : Nat]
    /\ cal # Absent => DOMAIN cal = {"value", "age"} /\ cal.age \in Nat
    /\ queue \in Seq(SetRequests)
    /\ job \in [SetRequests -> Job \cup {Absent}]
    /\ sinceChange \in 0..(RawTtl + CalTtl)
    /\ overtaken \in BOOLEAN

(* What a request remembers at each stage is of its kind.                     *)
LEMMA JobTyped ==
  ASSUME NEW q \in Job
  PROVE  /\ q.stage \in {"asked", "fetched", "judged", "write"} => q.todo \in Updates
         /\ q.stage = "fetched" => q.value \in SettingsRow /\ q.age \in Nat
         /\ q.stage \in {"judged", "write"} => q.patch \in SectionKeys
         /\ q.stage = "write" => q.base \in SettingsRow
         /\ q.stage = "written" => q.todo \in Updates /\ q.value \in SettingsRow
         /\ q.stage \in {"locking", "built"} => q.month \in Months
         /\ q.stage = "day" => q.date \in Dates /\ q.works \in BOOLEAN \cup {Absent}
         /\ q.stage = "cal" => /\ q.history \in History /\ q.age \in Nat
                               /\ q.over \in [Dates -> BOOLEAN \cup {Absent}]
                               /\ q.value \in SettingsRow \cup {Absent}
                               /\ q.month \in Months \cup {Absent}
  BY DEF Job

(* The first part of every step: what becomes of the requests.                *)
LEMMA JobSteps ==
  ASSUME DOMAIN job = SetRequests, NEW r \in SetRequests, NEW q
  PROVE  /\ BeginJob(r, q) => /\ DOMAIN job' = SetRequests /\ job'[r] = q
                              /\ \A o \in SetRequests \ {r} : job'[o] = job[o]
         /\ Proceed(r, q) => /\ DOMAIN job' = SetRequests /\ job'[r] = q
                             /\ \A o \in SetRequests \ {r} : job'[o] = job[o]
BY DEF BeginJob, Proceed

(* A request that remembers something well formed leaves all of them so.      *)
LEMMA JobsTyped ==
  ASSUME job \in [SetRequests -> Job \cup {Absent}], NEW r \in SetRequests,
         NEW q \in Job \cup {Absent}, BeginJob(r, q) \/ Proceed(r, q)
  PROVE  job' \in [SetRequests -> Job \cup {Absent}]
BY DEF BeginJob, Proceed

(* The row as read is a settings row, the organisation's own or the 3.x one.  *)
LEMMA StoredTyped == SetTypes => Stored \in SettingsRow
BY RowAssumption DEF SetTypes, Stored

(* A decision on the week pattern leaves a history that says something from   *)
(* the beginning of time (withPatternFrom).                                   *)
LEMMA PatternFromTyped ==
  ASSUME NEW history \in History, NEW from \in Dates, NEW works \in BOOLEAN
  PROVE  WithPatternFrom(history, from, works) \in History
<1> DEFINE kept == Kept(history, from)
           before == [f \in kept |-> history[f]]
           after == [f \in kept \cup {from} |-> IF f = from THEN works ELSE history[f]]
<1>1. PICK entries \in SUBSET Dates : history \in [entries \cup {0} -> BOOLEAN]
  BY DEF History
<1>2. kept = {f \in entries : f < from} \cup {0}
  BY <1>1, DatesAssumption DEF Kept
<1>3. before \in History
  <2>1. before \in [{f \in entries : f < from} \cup {0} -> BOOLEAN] BY <1>1, <1>2
  <2>2. {f \in entries : f < from} \in SUBSET Dates OBVIOUS
  <2> QED BY <2>1, <2>2 DEF History
<1>4. after \in History
  <2>1. after \in [({f \in entries : f < from} \cup {from}) \cup {0} -> BOOLEAN]
    BY <1>1, <1>2
  <2>2. {f \in entries : f < from} \cup {from} \in SUBSET Dates OBVIOUS
  <2> QED BY <2>1, <2>2 DEF History
<1>5. WithPatternFrom(history, from, works) = before \/ WithPatternFrom(history, from, works) = after
  BY DEF WithPatternFrom
<1> QED BY <1>3, <1>4, <1>5

(* A row with the keys of a section written into it is a settings row.        *)
LEMMA PutTyped ==
  ASSUME NEW row \in SettingsRow, NEW patch \in SectionKeys
  PROVE  Put(row, patch) \in SettingsRow
<1>1. CASE patch \in [full : Knob, half : Knob] BY <1>1 DEF Put, SettingsRow
<1>2. CASE patch \in [history : History] BY <1>2 DEF Put, SettingsRow
<1>3. CASE patch \in [reasons : SUBSET Reasons, depts : Offers] BY <1>3 DEF Put, SettingsRow
<1>4. CASE patch \in [depts : Offers] BY <1>4 DEF Put, SettingsRow
<1> QED BY <1>1, <1>2, <1>3, <1>4 DEF SectionKeys

(* The keys an update writes are those of its section; the knobs in their order. *)
RightKeys(u, patch) ==
    /\ u.kind = "knobs" => patch \in [full : Knob, half : Knob] /\ patch.full > patch.half
    /\ u.kind = "pattern" => patch \in [history : History]
    /\ u.kind = "reasons" => patch \in [reasons : SUBSET Reasons, depts : Offers]
    /\ u.kind = "dept" => patch \in [depts : Offers]

(* An update that is not refused writes the keys of its section, the knobs    *)
(* with a full day above a half day.                                          *)
LEMMA SectionTyped ==
  ASSUME NEW row \in SettingsRow, NEW u \in Updates, Section(u, row) # Absent
  PROVE  Section(u, row) \in SectionKeys /\ RightKeys(u, Section(u, row))
<1>0. u.kind \in {"knobs", "pattern", "reasons", "dept"} BY DEF Updates
<1>1. CASE u.kind = "knobs"
  BY <1>1 DEF Section, ApplyPatch, SettingsFromStored, Given, KnobKeys, SectionKeys,
     SettingsRow, Updates, Patches, Knob, RightKeys
<1>2. CASE u.kind = "pattern"
  <2>1. row.history \in History /\ u.from \in Dates /\ u.works \in BOOLEAN
    BY <1>2 DEF SettingsRow, Updates
  <2>2. WithPatternFrom(row.history, u.from, u.works) \in History BY <2>1, PatternFromTyped
  <2> QED BY <1>2, <2>2 DEF Section, SectionKeys, RightKeys
<1>3. CASE u.kind = "reasons"
  BY <1>3 DEF Section, SectionKeys, StillKnown, SettingsRow, Updates, Offers, RightKeys
<1>4. CASE u.kind = "dept"
  <2>1. u.entry = Absent \/ u.entry \subseteq row.reasons BY <1>4 DEF Section
  <2>2. u.entry \in (SUBSET Reasons) \cup {Absent}
    <3>1. row.reasons \subseteq Reasons BY DEF SettingsRow
    <3>2. CASE u.entry = Absent BY <3>2
    <3>3. CASE u.entry \subseteq row.reasons
      <4>1. u.entry \subseteq Reasons BY <3>1, <3>3
      <4> QED BY <4>1
    <3> QED BY <2>1, <3>2, <3>3
  <2>3. row.depts \in Offers BY DEF SettingsRow
  <2>4. [row.depts EXCEPT ![u.dept] = u.entry] \in Offers BY <2>2, <2>3 DEF Offers
  <2>5. Section(u, row) = [depts |-> [row.depts EXCEPT ![u.dept] = u.entry]]
    BY <1>4 DEF Section
  <2> QED BY <1>4, <2>4, <2>5 DEF SectionKeys, RightKeys
<1> QED BY <1>0, <1>1, <1>2, <1>3, <1>4

(* Writing a section leaves every other key of the row as it was.             *)
LEMMA PutSection ==
  ASSUME NEW row \in SettingsRow, NEW u \in Updates, NEW patch \in SectionKeys,
         RightKeys(u, patch)
  PROVE  /\ Put(row, patch).full = IF u.kind = "knobs" THEN patch.full ELSE row.full
         /\ Put(row, patch).half = IF u.kind = "knobs" THEN patch.half ELSE row.half
         /\ Put(row, patch).history = IF u.kind = "pattern" THEN patch.history ELSE row.history
         /\ Put(row, patch).depts = IF u.kind \in Idle THEN patch.depts ELSE row.depts
<1>0. u.kind \in {"knobs", "pattern", "reasons", "dept"} BY DEF Updates
<1>1. CASE u.kind = "knobs" BY <1>1 DEF Put, SettingsRow, RightKeys, Idle
<1>2. CASE u.kind = "pattern" BY <1>2 DEF Put, SettingsRow, RightKeys, Idle
<1>3. CASE u.kind = "reasons" BY <1>3 DEF Put, SettingsRow, RightKeys, Idle
<1>4. CASE u.kind = "dept" BY <1>4 DEF Put, SettingsRow, RightKeys, Idle
<1> QED BY <1>0, <1>1, <1>2, <1>3, <1>4

(* Time passes for a request: an answer on its way gets older, nothing else.  *)
Waited(q) == IF q # Absent /\ "age" \in DOMAIN q THEN [q EXCEPT !.age = Older(@)] ELSE q

(* Of a request that waits only the age of its answer changes.                *)
LEMMA WaitedJob ==
  ASSUME NEW q \in Job
  PROVE  /\ Waited(q) \in Job /\ Waited(q).stage = q.stage
         /\ q.stage \notin {"fetched", "cal"} => Waited(q) = q
         /\ q.stage = "fetched" => /\ Waited(q).todo = q.todo /\ Waited(q).value = q.value
                                   /\ Waited(q).age = Older(q.age)
         /\ q.stage = "cal" => /\ Waited(q).history = q.history /\ Waited(q).over = q.over
                               /\ Waited(q).value = q.value /\ Waited(q).age = Older(q.age)
                               /\ Waited(q).month = q.month
<1>0. q # Absent BY AbsentAssumption
<1>1. CASE q \in [stage : {"fetched"}, todo : Updates, value : SettingsRow, age : Nat]
  <2>1. Older(q.age) \in Nat BY <1>1, TtlAssumption DEF Older
  <2>2. Waited(q) = [q EXCEPT !.age = Older(q.age)] BY <1>0, <1>1 DEF Waited
  <2>3. Waited(q) \in [stage : {"fetched"}, todo : Updates, value : SettingsRow, age : Nat]
    BY <1>1, <2>1, <2>2
  <2> QED BY <1>1, <2>2, <2>3 DEF Job
<1>2. CASE q \in [stage : {"cal"}, month : Months \cup {Absent}, history : History,
                  over : [Dates -> BOOLEAN \cup {Absent}], age : Nat,
                  value : SettingsRow \cup {Absent}]
  <2>1. Older(q.age) \in Nat BY <1>2, TtlAssumption DEF Older
  <2>2. Waited(q) = [q EXCEPT !.age = Older(q.age)] BY <1>0, <1>2 DEF Waited
  <2>3. Waited(q) \in [stage : {"cal"}, month : Months \cup {Absent}, history : History,
                       over : [Dates -> BOOLEAN \cup {Absent}],
                       age : Nat, value : SettingsRow \cup {Absent}]
    BY <1>2, <2>1, <2>2
  <2> QED BY <1>2, <2>2, <2>3 DEF Job
<1>3. CASE q.stage \notin {"fetched", "cal"}
  <2>1. "age" \notin DOMAIN q BY <1>3 DEF Job
  <2> QED BY <1>3, <2>1 DEF Waited
<1> QED BY <1>1, <1>2, <1>3 DEF Job

(* A calendar that is read is of the rows it was read from, for the month that *)
(* is being locked, if any (forOrg).                                          *)
LEMMA ReadingIs ==
  ASSUME SetTypes, NEW m \in Months \cup {Absent}
  PROVE  /\ Reading(m) \in Job /\ Reading(m).stage = "cal" /\ Reading(m).month = m
         /\ Reading(m).age = 0 /\ Reading(m).over = overrides
         /\ RawHit => Reading(m).history = raw.value.history /\ Reading(m).value = Absent
         /\ ~RawHit => Reading(m).history = Stored.history /\ Reading(m).value = Stored
<1>1. CASE RawHit
  <2>1. Reading(m) = [stage |-> "cal", month |-> m, history |-> raw.value.history,
                      over |-> overrides, age |-> 0, value |-> Absent]
    BY <1>1 DEF Reading
  <2>2. raw.value.history \in History BY <1>1 DEF RawHit, SettingsRow, SetTypes
  <2>3. Reading(m) \in Job BY <2>1, <2>2 DEF Job, SetTypes
  <2> QED BY <1>1, <2>1, <2>3
<1>2. CASE ~RawHit
  <2>1. Reading(m) = [stage |-> "cal", month |-> m, history |-> Stored.history,
                      over |-> overrides, age |-> 0, value |-> Stored]
    BY <1>2 DEF Reading
  <2>2. Stored \in SettingsRow /\ Stored.history \in History
    BY StoredTyped DEF SettingsRow
  <2>3. Reading(m) \in Job BY <2>1, <2>2 DEF Job, SetTypes
  <2> QED BY <1>2, <2>1, <2>3
<1> QED BY <1>1, <1>2

(* What the snapshot has of a calendar: the month's working dates.            *)
LEMMA BuiltIs ==
  ASSUME NEW m \in Months, NEW calendar
  PROVE  /\ Built(m, calendar) \in Job /\ Built(m, calendar).stage = "built"
         /\ Built(m, calendar).month = m
         /\ Built(m, calendar).days = DatesOf(m, calendar)
<1>1. DatesOf(m, calendar) \in SUBSET Dates BY DEF DatesOf
<1> QED BY <1>1 DEF Built, Job

(* What becomes of the requests that want the calendar, and of a month's lock. *)
LEMMA CalendarSteps ==
  ASSUME SetTypes, NEW r \in SetRequests
  PROVE  /\ AskCalendar(r) => job[r] = Absent /\ Proceed(r, Reading(Absent))
         /\ ReadCalendar(r) =>
              /\ job[r] \in Job /\ job[r].stage = "cal"
              /\ Proceed(r, IF job[r].month = Absent THEN Absent
                            ELSE Built(job[r].month, CalendarRead(job[r])))
         /\ BeginLock(r) =>
              /\ job[r] = Absent
              /\ \E m \in Months :
                    /\ locked[m] = Absent /\ \A o \in SetRequests : Locking(job[o]) # m
                    /\ [stage |-> "locking", month |-> m] \in Job
                    /\ Proceed(r, [stage |-> "locking", month |-> m])
         /\ BuildLock(r) =>
              /\ job[r] \in Job /\ job[r].stage = "locking" /\ job[r].month \in Months
              /\ Proceed(r, IF CalHit THEN Built(job[r].month, cal.value)
                            ELSE Reading(job[r].month))
         /\ CommitLock(r) =>
              /\ job[r] \in Job /\ job[r].stage = "built" /\ job[r].month \in Months
              /\ Proceed(r, Absent)
         /\ FailLock(r) =>
              /\ job[r] \in Job /\ job[r].stage \in {"locking", "built"}
              /\ job[r].month \in Months /\ Proceed(r, Absent)
<1>1. AskCalendar(r) => job[r] = Absent /\ Proceed(r, Reading(Absent)) BY DEF AskCalendar
<1>2. ASSUME ReadCalendar(r)
      PROVE  /\ job[r] \in Job /\ job[r].stage = "cal"
             /\ Proceed(r, IF job[r].month = Absent THEN Absent
                           ELSE Built(job[r].month, CalendarRead(job[r])))
  BY <1>2 DEF ReadCalendar, JobAt, SetTypes
<1>3. ASSUME BeginLock(r)
      PROVE  /\ job[r] = Absent
             /\ \E m \in Months :
                   /\ locked[m] = Absent /\ \A o \in SetRequests : Locking(job[o]) # m
                   /\ [stage |-> "locking", month |-> m] \in Job
                   /\ Proceed(r, [stage |-> "locking", month |-> m])
  <2>1. \A m \in Months : [stage |-> "locking", month |-> m] \in Job BY DEF Job
  <2> QED BY <1>3, <2>1 DEF BeginLock
<1>4. ASSUME BuildLock(r)
      PROVE  /\ job[r] \in Job /\ job[r].stage = "locking" /\ job[r].month \in Months
             /\ Proceed(r, IF CalHit THEN Built(job[r].month, cal.value)
                           ELSE Reading(job[r].month))
  <2>1. job[r] \in Job /\ job[r].stage = "locking" BY <1>4 DEF BuildLock, JobAt, SetTypes
  <2> QED BY <1>4, <2>1, JobTyped DEF BuildLock
<1>5. ASSUME CommitLock(r)
      PROVE  /\ job[r] \in Job /\ job[r].stage = "built" /\ job[r].month \in Months
             /\ Proceed(r, Absent)
  <2>1. job[r] \in Job /\ job[r].stage = "built" BY <1>5 DEF CommitLock, JobAt, SetTypes
  <2> QED BY <1>5, <2>1, JobTyped DEF CommitLock
<1>6. ASSUME FailLock(r)
      PROVE  /\ job[r] \in Job /\ job[r].stage \in {"locking", "built"}
             /\ job[r].month \in Months /\ Proceed(r, Absent)
  <2>1. job[r] \in Job /\ job[r].stage \in {"locking", "built"}
    BY <1>6 DEF FailLock, JobAt, SetTypes
  <2> QED BY <1>6, <2>1, JobTyped DEF FailLock
<1> QED BY <1>1, <1>2, <1>3, <1>4, <1>5, <1>6

(* An organisation starts with well-formed settings.                          *)
LEMMA SetTypesInit == SetInit => SetTypes
<1> SUFFICES ASSUME SetInit PROVE SetTypes OBVIOUS
<1>1. sinceChange \in 0..(RawTtl + CalTtl) BY TtlAssumption DEF SetInit
<1>2. queue \in Seq(SetRequests) BY DEF SetInit
<1>3. job \in [SetRequests -> Job \cup {Absent}] BY DEF SetInit
<1>4. overrides \in [Dates -> BOOLEAN \cup {Absent}] BY DEF SetInit
<1> QED BY <1>1, <1>2, <1>3, <1>4 DEF SetInit, SetTypes

(* Every request, and the time, keep the settings and what the requests       *)
(* remember well formed.                                                      *)
LEMMA SetTypesStep ==
  ASSUME SetTypes, [SetNext]_setVars PROVE SetTypes'
<1> USE DEF SetTypes
<1>0. Stored \in SettingsRow BY StoredTyped
<1>1. ASSUME NEW r \in SetRequests, AskUpdate(r) PROVE SetTypes'
  <2>1. PICK u \in Updates : Queued(r, u) /\ BeginJob(r, [stage |-> "asked", todo |-> u])
    BY <1>1 DEF AskUpdate
  <2>2. [stage |-> "asked", todo |-> u] \in Job BY DEF Job
  <2>3. job' \in [SetRequests -> Job \cup {Absent}] BY <2>1, <2>2, JobsTyped
  <2>4. queue' \in Seq(SetRequests)
    <3>1. queue' = Append(queue, r) \/ queue' = queue BY <2>1 DEF Queued
    <3> QED BY <3>1
  <2> QED BY <1>1, <2>3, <2>4 DEF AskUpdate
<1>2. ASSUME NEW r \in SetRequests, NEW u \in Updates, NEW row \in SettingsRow, Judge(r, u, row)
      PROVE  queue' \in Seq(SetRequests) /\ job' \in [SetRequests -> Job \cup {Absent}]
  <2>1. CASE Section(u, row) = Absent
    <3>1. Proceed(r, Absent) /\ Leave(r) BY <1>2, <2>1 DEF Judge
    <3>2. queue' \in Seq(SetRequests) BY <3>1 DEF Leave
    <3> QED BY <3>1, <3>2, JobsTyped
  <2>2. CASE Section(u, row) # Absent
    <3> DEFINE q == [stage |-> "judged", todo |-> u, patch |-> Section(u, row)]
    <3>1. Proceed(r, q) /\ UNCHANGED queue BY <1>2, <2>2 DEF Judge
    <3>2. q \in Job BY <2>2, SectionTyped DEF Job
    <3> HIDE DEF q
    <3> QED BY <3>1, <3>2, JobsTyped
  <2> QED BY <2>1, <2>2
<1>3. ASSUME NEW r \in SetRequests, ReadSettings(r) PROVE SetTypes'
  <2>1. job[r] \in Job /\ job[r].todo \in Updates
    BY <1>3, JobTyped DEF ReadSettings, JobAt
  <2>2. CASE RawHit
    <3>1. Judge(r, job[r].todo, raw.value) BY <1>3, <2>2 DEF ReadSettings
    <3>2. raw.value \in SettingsRow BY <2>2 DEF RawHit
    <3> QED BY <1>2, <1>3, <2>1, <3>1, <3>2 DEF ReadSettings
  <2>3. CASE ~RawHit
    <3> DEFINE q == [stage |-> "fetched", todo |-> job[r].todo, value |-> Stored, age |-> 0]
    <3>1. Proceed(r, q) /\ UNCHANGED queue BY <1>3, <2>3 DEF ReadSettings
    <3>2. q \in Job BY <1>0, <2>1 DEF Job
    <3> HIDE DEF q
    <3>3. job' \in [SetRequests -> Job \cup {Absent}] BY <3>1, <3>2, JobsTyped
    <3> QED BY <1>3, <3>1, <3>3 DEF ReadSettings
  <2> QED BY <2>2, <2>3
<1>4. ASSUME NEW r \in SetRequests, FetchedSettings(r) PROVE SetTypes'
  <2>1. /\ job[r] \in Job /\ job[r].todo \in Updates /\ job[r].value \in SettingsRow
        /\ job[r].age \in Nat
    BY <1>4, JobTyped DEF FetchedSettings, JobAt
  <2>2. queue' \in Seq(SetRequests) /\ job' \in [SetRequests -> Job \cup {Absent}]
    BY <1>2, <1>4, <2>1 DEF FetchedSettings
  <2> QED BY <1>4, <2>1, <2>2 DEF FetchedSettings, Cached, Overtakes
<1>5. ASSUME NEW r \in SetRequests, ReadRow(r) PROVE SetTypes'
  <2> DEFINE q == [stage |-> "write", todo |-> job[r].todo, patch |-> job[r].patch,
                   base |-> Stored]
  <2>1. job[r].todo \in Updates /\ job[r].patch \in SectionKeys
    BY <1>5, JobTyped DEF ReadRow, JobAt
  <2>2. q \in Job BY <1>0, <2>1 DEF Job
  <2>3. Proceed(r, q) BY <1>5 DEF ReadRow
  <2> HIDE DEF q
  <2>4. job' \in [SetRequests -> Job \cup {Absent}] BY <2>2, <2>3, JobsTyped
  <2> QED BY <1>5, <2>4 DEF ReadRow
<1>6. ASSUME NEW r \in SetRequests, WriteRow(r) \/ CacheRow(r) PROVE SetTypes'
  <2>0. ASSUME NEW changes, Disturbed(changes) PROVE sinceChange' \in 0..(RawTtl + CalTtl)
    BY <2>0, TtlAssumption DEF Disturbed
  <2>1. CASE WriteRow(r)
    <3> DEFINE next == Put(job[r].base, job[r].patch)
               q == [stage |-> "written", todo |-> job[r].todo, value |-> next]
    <3>1. /\ job[r].base \in SettingsRow /\ job[r].patch \in SectionKeys
          /\ job[r].todo \in Updates
      BY <2>1, JobTyped DEF WriteRow, JobAt
    <3>2. next \in SettingsRow BY <3>1, PutTyped
    <3>3. q \in Job BY <3>1, <3>2 DEF Job
    <3>4. own' = next /\ Proceed(r, q) /\ Overtakes(job[r].base) BY <2>1 DEF WriteRow
    <3>5. sinceChange' \in 0..(RawTtl + CalTtl) BY <2>0, <2>1 DEF WriteRow, NoteChange
    <3> HIDE DEF next, q
    <3>6. job' \in [SetRequests -> Job \cup {Absent}] BY <3>3, <3>4, JobsTyped
    <3> QED BY <2>1, <3>2, <3>4, <3>5, <3>6 DEF WriteRow, Overtakes
  <2>2. CASE CacheRow(r)
    <3>1. job[r].value \in SettingsRow BY <2>2, JobTyped DEF CacheRow, JobAt
    <3>2. queue' \in Seq(SetRequests) /\ job' \in [SetRequests -> Job \cup {Absent}]
      <4>1. CASE job[r].todo.kind = "pattern"
        <5>1. [stage |-> "changed"] \in Job BY DEF Job
        <5>2. Proceed(r, [stage |-> "changed"]) /\ UNCHANGED queue
          BY <2>2, <4>1 DEF CacheRow
        <5> QED BY <5>1, <5>2, JobsTyped
      <4>2. CASE job[r].todo.kind # "pattern"
        <5>1. Proceed(r, Absent) /\ Leave(r) BY <2>2, <4>2 DEF CacheRow
        <5>2. queue' \in Seq(SetRequests) BY <5>1 DEF Leave
        <5> QED BY <5>1, <5>2, JobsTyped
      <4> QED BY <4>1, <4>2
    <3>3. sinceChange' \in 0..(RawTtl + CalTtl) BY <2>0, <2>2 DEF CacheRow
    <3>4. raw' = [value |-> job[r].value, age |-> 0] BY <2>2 DEF CacheRow
    <3> QED BY <2>2, <3>1, <3>2, <3>3, <3>4 DEF CacheRow, Overtakes
  <2> QED BY <1>6, <2>1, <2>2
<1>7. ASSUME NEW r \in SetRequests, AskDay(r) PROVE SetTypes'
  <2>1. PICK d \in Dates, works \in DayMarks \cup {Absent} :
          BeginJob(r, [stage |-> "day", date |-> d, works |-> works])
    BY <1>7 DEF AskDay
  <2>2. [stage |-> "day", date |-> d, works |-> works] \in Job BY DatesAssumption DEF Job
  <2>3. job' \in [SetRequests -> Job \cup {Absent}] BY <2>1, <2>2, JobsTyped
  <2> QED BY <1>7, <2>3 DEF AskDay
<1>8. ASSUME NEW r \in SetRequests, WriteDay(r) PROVE SetTypes'
  <2>1. job[r].works \in BOOLEAN \cup {Absent} BY <1>8, JobTyped DEF WriteDay, JobAt
  <2>2. [stage |-> "changed"] \in Job BY DEF Job
  <2>3. job' \in [SetRequests -> Job \cup {Absent}]
    BY <1>8, <2>2, JobsTyped DEF WriteDay
  <2>4. sinceChange' \in 0..(RawTtl + CalTtl)
    BY <1>8, TtlAssumption DEF WriteDay, NoteChange, Disturbed
  <2>5. overrides' \in [Dates -> BOOLEAN \cup {Absent}] BY <1>8, <2>1 DEF WriteDay
  <2> QED BY <1>8, <2>3, <2>4, <2>5 DEF WriteDay
<1>9. ASSUME NEW r \in SetRequests, Changed(r) PROVE SetTypes'
  <2>1. job' \in [SetRequests -> Job \cup {Absent}] BY <1>9, JobsTyped DEF Changed
  <2> QED BY <1>9, <2>1 DEF Changed
<1>10. ASSUME NEW r \in SetRequests, AskCalendar(r) PROVE SetTypes'
  <2>1. Proceed(r, Reading(Absent)) BY <1>10, CalendarSteps
  <2>2. Reading(Absent) \in Job BY ReadingIs
  <2>3. job' \in [SetRequests -> Job \cup {Absent}] BY <2>1, <2>2, JobsTyped
  <2> QED BY <1>10, <2>3 DEF AskCalendar
<1>11. ASSUME NEW r \in SetRequests, ReadCalendar(r) PROVE SetTypes'
  <2>1. /\ job[r].age \in Nat /\ job[r].value \in SettingsRow \cup {Absent}
        /\ job[r].month \in Months \cup {Absent}
    BY <1>11, JobTyped DEF ReadCalendar, JobAt
  <2>2. job' \in [SetRequests -> Job \cup {Absent}]
    <3>1. PICK q : q = IF job[r].month = Absent THEN Absent
                       ELSE Built(job[r].month, CalendarRead(job[r]))
      OBVIOUS
    <3>2. Proceed(r, q) BY <1>11, <3>1, CalendarSteps
    <3>3. q \in Job \cup {Absent} BY <2>1, <3>1, BuiltIs
    <3> QED BY <3>2, <3>3, JobsTyped
  <2>3. DOMAIN cal' = {"value", "age"} /\ cal'.age \in Nat
    BY <1>11, <2>1 DEF ReadCalendar, AgeRead
  <2>4. /\ raw' # Absent => raw' \in [value : SettingsRow, age : Nat]
        /\ overtaken' \in BOOLEAN
    <3>1. CASE job[r].value = Absent BY <1>11, <3>1 DEF ReadCalendar
    <3>2. CASE job[r].value # Absent
      <4>1. Cached(job[r]) /\ Overtakes(job[r].value) BY <1>11, <3>2 DEF ReadCalendar
      <4> QED BY <2>1, <3>2, <4>1 DEF Cached, Overtakes
    <3> QED BY <3>1, <3>2
  <2> QED BY <1>11, <2>2, <2>3, <2>4 DEF ReadCalendar
<1>12. ASSUME Tick PROVE SetTypes'
  <2>1. job' = [r \in SetRequests |-> Waited(job[r])] BY <1>12 DEF Tick, Waited
  <2>2. job' \in [SetRequests -> Job \cup {Absent}]
    <3>1. \A r \in SetRequests : Waited(job[r]) \in Job \cup {Absent}
      BY WaitedJob DEF Waited
    <3> QED BY <2>1, <3>1
  <2>3. sinceChange' \in 0..(RawTtl + CalTtl) BY <1>12, TtlAssumption DEF Tick, Older
  <2>4. raw' # Absent => raw' \in [value : SettingsRow, age : Nat]
    BY <1>12 DEF Tick, Aged
  <2>5. cal' # Absent => DOMAIN cal' = {"value", "age"} /\ cal'.age \in Nat
    BY <1>12 DEF Tick, Aged
  <2> QED BY <1>12, <2>2, <2>3, <2>4, <2>5 DEF Tick
<1>13. CASE UnlockMonth \/ UNCHANGED setVars
  BY <1>13 DEF UnlockMonth, setVars
<1>14. ASSUME NEW r \in SetRequests,
              BeginLock(r) \/ BuildLock(r) \/ CommitLock(r) \/ FailLock(r)
       PROVE  SetTypes'
  <2>1. \E q \in Job \cup {Absent} : Proceed(r, q)
    <3>1. CASE BeginLock(r) BY <3>1, CalendarSteps
    <3>2. CASE BuildLock(r) BY <3>2, CalendarSteps, BuiltIs, ReadingIs
    <3>3. CASE CommitLock(r) \/ FailLock(r) BY <3>3, CalendarSteps
    <3> QED BY <1>14, <3>1, <3>2, <3>3
  <2>2. job' \in [SetRequests -> Job \cup {Absent}] BY <2>1, JobsTyped
  <2>3. DOMAIN locked' = Months BY <1>14 DEF BeginLock, BuildLock, CommitLock, FailLock
  <2>4. UNCHANGED <<own, overrides, raw, cal, queue, sinceChange, overtaken>>
    BY <1>14 DEF BeginLock, BuildLock, CommitLock, FailLock
  <2> QED BY <2>2, <2>3, <2>4
<1> QED
  BY <1>1, <1>3, <1>4, <1>5, <1>6, <1>7, <1>8, <1>9, <1>10, <1>11, <1>12, <1>13, <1>14
  DEF SetNext, SetStep

-----------------------------------------------------------------------------
(* Settings: the day classes *)

JobFull(q) ==
    /\ q.stage \in {"judged", "write"} => RightKeys(q.todo, q.patch)
    /\ q.stage = "write" => q.base.full > q.base.half

(* Whatever row is written back, and whatever knobs are written into it, have *)
(* a full day above a half day.                                               *)
FullInv == /\ FullAboveHalf
           /\ \A r \in SetRequests : job[r] # Absent => JobFull(job[r])

Others(r) == \A o \in SetRequests \ {r} : job'[o] = job[o]

(* A judged update goes on with its section's keys or ends its request.       *)
LEMMA Judged ==
  ASSUME SetTypes, NEW r \in SetRequests, NEW u \in Updates, NEW row \in SettingsRow,
         Judge(r, u, row)
  PROVE  /\ Others(r)
         /\ \/ job'[r] = Absent /\ Leave(r)
            \/ /\ Section(u, row) # Absent /\ RightKeys(u, Section(u, row)) /\ UNCHANGED queue
               /\ job'[r] = [stage |-> "judged", todo |-> u, patch |-> Section(u, row)]
<1>1. CASE Section(u, row) = Absent
  <2>1. Proceed(r, Absent) /\ Leave(r) BY <1>1 DEF Judge
  <2> QED BY <2>1, JobSteps DEF SetTypes, Others
<1>2. CASE Section(u, row) # Absent
  <2>1. /\ Proceed(r, [stage |-> "judged", todo |-> u, patch |-> Section(u, row)])
        /\ UNCHANGED queue
    BY <1>2 DEF Judge
  <2> QED BY <1>2, <2>1, JobSteps, SectionTyped DEF SetTypes, Others
<1> QED BY <1>1, <1>2

(* A section is judged on a row from the cache, or on one that was fetched.   *)
LEMMA Judging ==
  ASSUME SetTypes, NEW r \in SetRequests
  PROVE  /\ ReadSettings(r) /\ RawHit =>
              /\ job[r].todo \in Updates /\ raw.value \in SettingsRow
              /\ Judge(r, job[r].todo, raw.value)
         /\ ReadSettings(r) /\ ~RawHit =>
              /\ Others(r) /\ UNCHANGED queue /\ job[r].todo \in Updates
              /\ job'[r] = [stage |-> "fetched", todo |-> job[r].todo, value |-> Stored,
                            age |-> 0]
         /\ FetchedSettings(r) =>
              /\ job[r].todo \in Updates /\ job[r].value \in SettingsRow
              /\ Judge(r, job[r].todo, job[r].value)
<1>1. JobAt(r, "asked") => job[r].todo \in Updates BY JobTyped DEF SetTypes, JobAt
<1>2. JobAt(r, "fetched") => job[r].todo \in Updates /\ job[r].value \in SettingsRow
  BY JobTyped DEF SetTypes, JobAt
<1>3. RawHit => raw.value \in SettingsRow BY DEF RawHit, SetTypes
<1>4. ReadSettings(r) /\ ~RawHit =>
        /\ Others(r) /\ UNCHANGED queue
        /\ job'[r] = [stage |-> "fetched", todo |-> job[r].todo, value |-> Stored, age |-> 0]
  BY JobSteps DEF ReadSettings, SetTypes, Others
<1> QED BY <1>1, <1>2, <1>3, <1>4 DEF ReadSettings, FetchedSettings

(* What a written section makes of the row, and where the request goes.       *)
LEMMA RowWritten ==
  ASSUME SetTypes, FullInv, NEW r \in SetRequests, WriteRow(r), NEW q, q = job[r]
  PROVE  /\ q \in Job /\ q.stage = "write" /\ q.todo \in Updates
         /\ own' \in SettingsRow /\ own' # Absent /\ Stored' = own'
         /\ overtaken' = (overtaken \/ q.base # Stored)
         /\ own'.full = IF q.todo.kind = "knobs" THEN q.patch.full ELSE q.base.full
         /\ own'.half = IF q.todo.kind = "knobs" THEN q.patch.half ELSE q.base.half
         /\ own'.history = IF q.todo.kind = "pattern" THEN q.patch.history ELSE q.base.history
         /\ own'.depts = IF q.todo.kind \in Idle THEN q.patch.depts ELSE q.base.depts
         /\ Others(r) /\ UNCHANGED <<raw, queue>>
         /\ job'[r] \in Job /\ job'[r].stage = "written" /\ job'[r].todo = q.todo
         /\ job'[r].value = own'
<1>1. /\ q \in Job /\ q.stage = "write" /\ q.todo \in Updates
      /\ q.base \in SettingsRow /\ q.patch \in SectionKeys
  BY JobTyped DEF WriteRow, JobAt, SetTypes
<1>2. RightKeys(q.todo, q.patch) BY <1>1 DEF FullInv, JobFull, WriteRow, JobAt
<1>3. own' = Put(q.base, q.patch) /\ overtaken' = (overtaken \/ q.base # Stored)
  BY DEF WriteRow, Overtakes
<1>4. own' \in SettingsRow /\ own' # Absent
  BY <1>1, <1>3, PutTyped, AbsentAssumption
<1>5. /\ Others(r) /\ UNCHANGED <<raw, queue>>
      /\ job'[r] = [stage |-> "written", todo |-> q.todo, value |-> own']
  <2>1. Proceed(r, [stage |-> "written", todo |-> q.todo, value |-> own'])
    BY <1>3 DEF WriteRow
  <2> QED BY <2>1, JobSteps DEF WriteRow, SetTypes, Others
<1>6. Stored' = own' BY <1>4 DEF Stored
<1>7. job'[r] \in Job BY <1>1, <1>4, <1>5 DEF Job
<1> QED BY <1>1, <1>2, <1>3, <1>4, <1>5, <1>6, <1>7, PutSection

(* What the answer to a write makes of the cache, and where the request goes. *)
LEMMA RowCached ==
  ASSUME SetTypes, NEW r \in SetRequests, CacheRow(r), NEW q, q = job[r]
  PROVE  /\ q \in Job /\ q.stage = "written" /\ q.todo \in Updates
         /\ q.value \in SettingsRow /\ raw' = [value |-> q.value, age |-> 0]
         /\ overtaken' = (overtaken \/ q.value # Stored)
         /\ UNCHANGED <<own, overrides, locked, cal, entered>> /\ Stored' = Stored
         /\ Others(r)
         /\ IF q.todo.kind = "pattern"
            THEN job'[r] = [stage |-> "changed"] /\ UNCHANGED queue
            ELSE job'[r] = Absent /\ Leave(r)
<1>1. /\ q \in Job /\ q.stage = "written" /\ q.todo \in Updates /\ q.value \in SettingsRow
  BY JobTyped DEF CacheRow, JobAt, SetTypes
<1>2. /\ raw' = [value |-> q.value, age |-> 0] /\ overtaken' = (overtaken \/ q.value # Stored)
      /\ UNCHANGED <<own, overrides, locked, cal, entered>>
  BY DEF CacheRow, Overtakes
<1>3. Others(r) /\ IF q.todo.kind = "pattern"
                   THEN job'[r] = [stage |-> "changed"] /\ UNCHANGED queue
                   ELSE job'[r] = Absent /\ Leave(r)
  BY JobSteps DEF CacheRow, SetTypes, Others
<1>4. Stored' = Stored BY <1>2 DEF Stored
<1> QED BY <1>1, <1>2, <1>3, <1>4

(* Reading the calendar, marking dates and locking months.                    *)
CalendarStep(r) ==
    \/ AskDay(r) \/ WriteDay(r) \/ Changed(r) \/ AskCalendar(r) \/ ReadCalendar(r)
    \/ BeginLock(r) \/ BuildLock(r) \/ CommitLock(r) \/ FailLock(r)
Elsewhere == {"day", "changed", "cal", "locking", "built"}

(* The requests that change no section.                                       *)
LEMMA Otherwise ==
  ASSUME SetTypes, NEW r \in SetRequests, CalendarStep(r)
  PROVE  /\ Others(r) /\ UNCHANGED <<own, queue, entered>> /\ Stored' = Stored
         /\ job[r] # Absent => job[r].stage \in Elsewhere
         /\ job'[r] # Absent => job'[r] \in Job /\ job'[r].stage \in Elsewhere
<1>1. UNCHANGED <<own, queue, entered>>
  BY DEF CalendarStep, AskDay, WriteDay, Changed, AskCalendar, ReadCalendar, BeginLock, BuildLock,
     CommitLock, FailLock
<1>2. Stored' = Stored BY <1>1 DEF Stored
<1>3. /\ Others(r)
      /\ job[r] # Absent => job[r].stage \in Elsewhere
      /\ job'[r] # Absent => job'[r] \in Job /\ job'[r].stage \in Elsewhere
  <2> USE DEF Elsewhere
  <2>1. CASE AskDay(r)
    <3>1. PICK d \in Dates, works \in DayMarks \cup {Absent} :
            BeginJob(r, [stage |-> "day", date |-> d, works |-> works])
      BY <2>1 DEF AskDay
    <3>2. [stage |-> "day", date |-> d, works |-> works] \in Job BY DatesAssumption DEF Job
    <3>3. Others(r) /\ job'[r] = [stage |-> "day", date |-> d, works |-> works]
      BY <3>1, JobSteps DEF SetTypes, Others
    <3>4. job'[r].stage = "day" BY <3>3
    <3> QED BY <2>1, <3>2, <3>3, <3>4 DEF AskDay, MayBegin
  <2>2. CASE WriteDay(r)
    <3>1. [stage |-> "changed"] \in Job BY DEF Job
    <3>2. Others(r) /\ job'[r] = [stage |-> "changed"]
      BY <2>2, JobSteps DEF WriteDay, SetTypes, Others
    <3>3. job'[r].stage = "changed" BY <3>2
    <3> QED BY <2>2, <3>1, <3>2, <3>3 DEF WriteDay, JobAt
  <2>3. CASE Changed(r)
    BY <2>3, JobSteps DEF Changed, JobAt, SetTypes, Others
  <2>4. ASSUME NEW q, Proceed(r, q), q # Absent => q \in Job /\ q.stage \in Elsewhere
        PROVE  /\ Others(r)
               /\ job'[r] # Absent => job'[r] \in Job /\ job'[r].stage \in Elsewhere
    BY <2>4, JobSteps DEF SetTypes, Others
  <2>5. CASE AskCalendar(r) BY <2>4, <2>5, CalendarSteps, ReadingIs
  <2>6. CASE ReadCalendar(r)
    <3>1. job[r].month \in Months \cup {Absent} BY <2>6, CalendarSteps, JobTyped
    <3> QED BY <2>4, <2>6, <3>1, CalendarSteps, BuiltIs
  <2>7. CASE BeginLock(r)
    <3>1. PICK m \in Months : /\ [stage |-> "locking", month |-> m] \in Job
                              /\ Proceed(r, [stage |-> "locking", month |-> m])
      BY <2>7, CalendarSteps
    <3>2. [stage |-> "locking", month |-> m].stage \in Elsewhere OBVIOUS
    <3> QED BY <2>4, <2>7, <3>1, <3>2, CalendarSteps
  <2>8. CASE BuildLock(r)
    <3>1. CASE CalHit BY <2>4, <2>8, <3>1, CalendarSteps, BuiltIs
    <3>2. CASE ~CalHit BY <2>4, <2>8, <3>2, CalendarSteps, ReadingIs
    <3> QED BY <3>1, <3>2
  <2>9. CASE CommitLock(r) \/ FailLock(r) BY <2>4, <2>9, CalendarSteps
  <2> QED BY <2>1, <2>2, <2>3, <2>5, <2>6, <2>7, <2>8, <2>9 DEF CalendarStep
<1> QED BY <1>1, <1>2, <1>3

(* Time passes: every request stays where it is.                              *)
LEMMA TickJobs ==
  ASSUME SetTypes, Tick, NEW r \in SetRequests
  PROVE  /\ job'[r] = Waited(job[r])
         /\ job[r] = Absent => job'[r] = Absent
         /\ job[r] # Absent => job[r] \in Job
BY DEF Tick, Waited, SetTypes

(* Whatever rows are read, judged and written back, in any order: no step     *)
(* writes a full day that is not above the half day.                          *)
LEMMA FullStep ==
  ASSUME SetTypes, FullInv, [SetNext]_setVars PROVE FullInv'
<1>1. ASSUME NEW r \in SetRequests, Others(r), UNCHANGED own,
             job'[r] # Absent => JobFull(job'[r])
      PROVE  FullInv'
  BY <1>1 DEF FullInv, FullAboveHalf, Others
<1>2. ASSUME NEW r \in SetRequests, AskUpdate(r) PROVE FullInv'
  <2>1. PICK u \in Updates : BeginJob(r, [stage |-> "asked", todo |-> u])
    BY <1>2 DEF AskUpdate
  <2>2. Others(r) /\ job'[r] = [stage |-> "asked", todo |-> u]
    BY <2>1, JobSteps DEF SetTypes, Others
  <2> QED BY <1>1, <1>2, <2>2 DEF AskUpdate, JobFull
<1>3. ASSUME NEW r \in SetRequests, ReadSettings(r) \/ FetchedSettings(r) PROVE FullInv'
  <2>1. UNCHANGED own BY <1>3 DEF ReadSettings, FetchedSettings
  <2>2. ASSUME NEW u \in Updates, NEW row \in SettingsRow, Judge(r, u, row) PROVE FullInv'
    <3>1. /\ Others(r)
          /\ \/ job'[r] = Absent
             \/ /\ RightKeys(u, Section(u, row))
                /\ job'[r] = [stage |-> "judged", todo |-> u, patch |-> Section(u, row)]
      BY <2>2, Judged
    <3>2. job'[r] # Absent =>
            job'[r].stage = "judged" /\ RightKeys(job'[r].todo, job'[r].patch)
      BY <3>1
    <3> QED BY <1>1, <2>1, <3>1, <3>2 DEF JobFull
  <2>3. CASE ReadSettings(r) /\ ~RawHit
    <3>1. /\ Others(r)
          /\ job'[r] = [stage |-> "fetched", todo |-> job[r].todo, value |-> Stored, age |-> 0]
      BY <2>3, Judging
    <3>2. job'[r].stage = "fetched" BY <3>1
    <3> QED BY <1>1, <2>1, <3>1, <3>2 DEF JobFull
  <2> QED BY <1>3, <2>2, <2>3, Judging
<1>4. ASSUME NEW r \in SetRequests, ReadRow(r) PROVE FullInv'
  <2>1. /\ Others(r) /\ UNCHANGED own
        /\ job'[r] = [stage |-> "write", todo |-> job[r].todo, patch |-> job[r].patch,
                      base |-> Stored]
    BY <1>4, JobSteps DEF ReadRow, SetTypes, Others
  <2>2. RightKeys(job[r].todo, job[r].patch) BY <1>4 DEF ReadRow, JobAt, FullInv, JobFull
  <2>3. Stored.full > Stored.half BY RowAssumption DEF FullInv, FullAboveHalf, Stored
  <2> QED BY <1>1, <2>1, <2>2, <2>3 DEF JobFull
<1>5. ASSUME NEW r \in SetRequests, WriteRow(r) PROVE FullInv'
  <2>0. PICK q : q = job[r] OBVIOUS
  <2>1. JobFull(q) BY <1>5, <2>0 DEF WriteRow, JobAt, FullInv
  <2>2. own'.full > own'.half
    <3>1. CASE q.todo.kind = "knobs"
      BY <1>5, <2>0, <2>1, <3>1, RowWritten DEF JobFull, RightKeys
    <3>2. CASE q.todo.kind # "knobs"
      BY <1>5, <2>0, <2>1, <3>2, RowWritten DEF JobFull
    <3> QED BY <3>1, <3>2
  <2>3. Others(r) /\ job'[r].stage = "written" BY <1>5, <2>0, RowWritten
  <2> QED BY <2>2, <2>3 DEF FullInv, FullAboveHalf, Others, JobFull
<1>9. ASSUME NEW r \in SetRequests, CacheRow(r) PROVE FullInv'
  <2>0. PICK q : q = job[r] OBVIOUS
  <2>1. /\ Others(r) /\ UNCHANGED own
        /\ job'[r] = Absent \/ job'[r] = [stage |-> "changed"]
    BY <1>9, <2>0, RowCached
  <2>2. job'[r] = Absent \/ job'[r].stage = "changed" BY <2>1
  <2> QED BY <1>1, <2>1, <2>2 DEF JobFull
<1>6. ASSUME NEW r \in SetRequests, CalendarStep(r) PROVE FullInv'
  BY <1>1, <1>6, Otherwise DEF JobFull, Elsewhere
<1>7. CASE Tick
  <2>1. UNCHANGED own BY <1>7 DEF Tick
  <2>2. ASSUME NEW r \in SetRequests, job'[r] # Absent PROVE JobFull(job'[r])
    <3>1. job[r] \in Job /\ job'[r] = Waited(job[r]) /\ JobFull(job[r])
      BY <1>7, <2>2, TickJobs DEF FullInv
    <3> QED BY <3>1, WaitedJob DEF JobFull
  <2> QED BY <2>1, <2>2 DEF FullInv, FullAboveHalf
<1>8. CASE UnlockMonth \/ UNCHANGED setVars
  BY <1>8 DEF UnlockMonth, setVars, FullInv, FullAboveHalf
<1> QED
  BY <1>2, <1>3, <1>4, <1>5, <1>6, <1>7, <1>8, <1>9 DEF SetNext, SetStep, CalendarStep

-----------------------------------------------------------------------------
(* Settings: department edits *)

IdleJob(q) ==
    /\ q # Absent /\ q.stage \in {"asked", "fetched", "judged", "write", "written"}
    /\ q.todo.kind \in Idle

(* Each input-tracking write is queued once, and has read only when it is first. *)
QueueInv ==
    /\ \A i, j \in DOMAIN queue : queue[i] = queue[j] => i = j
    /\ \A i \in DOMAIN queue : IdleJob(job[queue[i]])
    /\ \A r \in SetRequests : IdleJob(job[r]) =>
         \E i \in DOMAIN queue : queue[i] = r /\ (job[r].stage # "asked" => i = 1)

(* An input-tracking write that ends leaves its place to the next one.        *)
LEMMA LeaveQueue ==
  ASSUME QueueInv, queue \in Seq(SetRequests), NEW r \in SetRequests, Leave(r),
         IdleJob(job[r]) => \E i \in DOMAIN queue : queue[i] = r /\ i = 1,
         Others(r), job'[r] = Absent \/ job'[r].stage = "changed"
  PROVE  QueueInv'
<1>0. ~IdleJob(job'[r]) BY DEF IdleJob
<1>1. CASE IdleJob(job[r])
  <2>1. queue # <<>> /\ queue[1] = r /\ queue' = Tail(queue) BY <1>1 DEF Leave
  <2>2. /\ DOMAIN queue = 1..Len(queue) /\ Len(queue) \in Nat
        /\ DOMAIN queue' = 1..(Len(queue) - 1)
        /\ \A i \in DOMAIN queue' : queue'[i] = queue[i + 1] /\ i + 1 \in DOMAIN queue
    BY <2>1
  <2>3. \A i \in DOMAIN queue : i # 1 => queue[i] # r /\ queue[i] \in SetRequests
    BY <2>1, <2>2 DEF QueueInv
  <2>4. \A i, j \in DOMAIN queue' : queue'[i] = queue'[j] => i = j
    BY <2>2 DEF QueueInv
  <2>5. \A i \in DOMAIN queue' : IdleJob(job'[queue'[i]])
    BY <2>2, <2>3 DEF QueueInv, Others
  <2>6. ASSUME NEW o \in SetRequests, IdleJob(job'[o])
        PROVE  \E i \in DOMAIN queue' : queue'[i] = o /\ (job'[o].stage # "asked" => i = 1)
    <3>1. o # r /\ job'[o] = job[o] BY <1>0, <2>6 DEF Others
    <3>2. PICK i \in DOMAIN queue : queue[i] = o /\ (job[o].stage # "asked" => i = 1)
      BY <2>6, <3>1 DEF QueueInv
    <3>3. i # 1 /\ i - 1 \in DOMAIN queue' /\ queue'[i - 1] = o
      BY <2>1, <2>2, <3>1, <3>2
    <3> QED BY <3>1, <3>2, <3>3
  <2> QED BY <2>4, <2>5, <2>6 DEF QueueInv
<1>2. CASE ~IdleJob(job[r])
  <2>1. \A i \in DOMAIN queue : queue[i] # r BY <1>2 DEF QueueInv
  <2>2. queue' = queue BY <2>1 DEF Leave
  <2>3. \A i \in DOMAIN queue : job'[queue[i]] = job[queue[i]]
    BY <2>1 DEF Others
  <2> QED BY <1>0, <2>2, <2>3 DEF QueueInv, Others
<1> QED BY <1>1, <1>2

(* A request that goes on, in its turn, keeps its place.                      *)
LEMMA KeepQueue ==
  ASSUME QueueInv, queue \in Seq(SetRequests), NEW r \in SetRequests, UNCHANGED queue,
         Others(r),
         IdleJob(job'[r]) <=> IdleJob(job[r]),
         IdleJob(job[r]) => \E i \in DOMAIN queue : queue[i] = r /\ i = 1
  PROVE  QueueInv'
<1>1. \A i \in DOMAIN queue : queue[i] \in SetRequests OBVIOUS
<1> QED BY <1>1 DEF QueueInv, Others

(* serial(): input-tracking writes of an organisation take turns; the one     *)
(* that has read is the first of the queue until it ends.                     *)
LEMMA QueueStep ==
  ASSUME SetTypes, FullInv, QueueInv, [SetNext]_setVars PROVE QueueInv'
<1>0. queue \in Seq(SetRequests) BY DEF SetTypes
<1>1. ASSUME NEW r \in SetRequests, AskUpdate(r) PROVE QueueInv'
  <2>1. PICK u \in Updates : Queued(r, u) /\ BeginJob(r, [stage |-> "asked", todo |-> u])
    BY <1>1 DEF AskUpdate
  <2>2. Others(r) /\ job'[r] = [stage |-> "asked", todo |-> u]
    BY <2>1, JobSteps DEF SetTypes, Others
  <2>3. job[r] = Absent BY <1>1 DEF AskUpdate, MayBegin
  <2>4. \A i \in DOMAIN queue : queue[i] \in SetRequests /\ queue[i] # r
    BY <1>0, <2>3 DEF QueueInv, IdleJob
  <2>5. CASE u.kind \in Idle
    <3>1. queue' = Append(queue, r) BY <2>1, <2>5 DEF Queued
    <3>2. /\ DOMAIN queue = 1..Len(queue) /\ Len(queue) \in Nat
          /\ DOMAIN queue' = 1..(Len(queue) + 1) /\ queue'[Len(queue) + 1] = r
          /\ \A i \in DOMAIN queue : queue'[i] = queue[i]
      BY <1>0, <3>1
    <3>3. job'[r].stage = "asked" /\ IdleJob(job'[r])
      <4>1. [stage |-> "asked", todo |-> u] \in Job BY DEF Job
      <4> QED BY <2>2, <2>5, <4>1, AbsentAssumption DEF IdleJob
    <3>4. \A i, j \in DOMAIN queue' : queue'[i] = queue'[j] => i = j
      BY <2>4, <3>2 DEF QueueInv
    <3>5. \A i \in DOMAIN queue' : IdleJob(job'[queue'[i]])
      BY <2>2, <2>4, <3>2, <3>3 DEF QueueInv, Others
    <3>6. ASSUME NEW o \in SetRequests, IdleJob(job'[o])
          PROVE  \E i \in DOMAIN queue' : queue'[i] = o /\ (job'[o].stage # "asked" => i = 1)
      <4>1. CASE o = r BY <3>2, <3>3, <4>1
      <4>2. CASE o # r
        <5>1. job'[o] = job[o] BY <2>2, <4>2 DEF Others
        <5>2. PICK i \in DOMAIN queue : queue[i] = o /\ (job[o].stage # "asked" => i = 1)
          BY <3>6, <5>1 DEF QueueInv
        <5> QED BY <3>2, <5>1, <5>2
      <4> QED BY <4>1, <4>2
    <3> QED BY <3>4, <3>5, <3>6 DEF QueueInv
  <2>6. CASE u.kind \notin Idle
    <3>1. UNCHANGED queue BY <2>1, <2>6 DEF Queued
    <3>2. ~IdleJob(job'[r]) /\ ~IdleJob(job[r]) BY <2>2, <2>3, <2>6 DEF IdleJob
    <3> QED BY <1>0, <2>2, <3>1, <3>2, KeepQueue
  <2> QED BY <2>5, <2>6
<1>2. ASSUME NEW r \in SetRequests, IdleJob(job[r]),
             ReadSettings(r) \/ FetchedSettings(r) \/ ReadRow(r) \/ WriteRow(r) \/ CacheRow(r)
      PROVE  \E i \in DOMAIN queue : queue[i] = r /\ i = 1
  <2>1. CASE ReadSettings(r) BY <1>2, <2>1 DEF ReadSettings, MyTurn, QueueInv
  <2>2. CASE FetchedSettings(r) \/ ReadRow(r) \/ WriteRow(r) \/ CacheRow(r)
    BY <1>2, <2>2 DEF FetchedSettings, ReadRow, WriteRow, CacheRow, JobAt, QueueInv
  <2> QED BY <1>2, <2>1, <2>2
<1>3. ASSUME NEW r \in SetRequests, ReadSettings(r) \/ FetchedSettings(r) PROVE QueueInv'
  <2>0. IdleJob(job[r]) <=> job[r].todo.kind \in Idle
    BY <1>3 DEF ReadSettings, FetchedSettings, JobAt, IdleJob
  <2>1. ASSUME NEW row \in SettingsRow, job[r].todo \in Updates, Judge(r, job[r].todo, row)
        PROVE  QueueInv'
    <3>1. /\ Others(r)
          /\ \/ job'[r] = Absent /\ Leave(r)
             \/ /\ UNCHANGED queue
                /\ job'[r] = [stage |-> "judged", todo |-> job[r].todo,
                              patch |-> Section(job[r].todo, row)]
                /\ Section(job[r].todo, row) \in SectionKeys
      BY <2>1, Judged, SectionTyped
    <3>2. CASE job'[r] = Absent /\ Leave(r)
      BY <1>0, <1>2, <1>3, <3>1, <3>2, LeaveQueue
    <3>3. CASE /\ UNCHANGED queue
               /\ job'[r] = [stage |-> "judged", todo |-> job[r].todo,
                             patch |-> Section(job[r].todo, row)]
               /\ Section(job[r].todo, row) \in SectionKeys
      <4>1. job'[r] \in Job BY <2>1, <3>3 DEF Job
      <4>2. IdleJob(job'[r]) <=> IdleJob(job[r])
        BY <2>0, <3>3, <4>1, AbsentAssumption DEF IdleJob
      <4> QED BY <1>0, <1>2, <1>3, <3>1, <3>3, <4>2, KeepQueue
    <3> QED BY <3>1, <3>2, <3>3
  <2>2. CASE ReadSettings(r) /\ ~RawHit
    <3>1. /\ Others(r) /\ UNCHANGED queue /\ job[r].todo \in Updates
          /\ job'[r] = [stage |-> "fetched", todo |-> job[r].todo, value |-> Stored, age |-> 0]
      BY <2>2, Judging
    <3>2. job'[r] \in Job BY <3>1, StoredTyped DEF Job
    <3>3. IdleJob(job'[r]) <=> IdleJob(job[r])
      BY <2>0, <3>1, <3>2, AbsentAssumption DEF IdleJob
    <3> QED BY <1>0, <1>2, <1>3, <3>1, <3>3, KeepQueue
  <2> QED BY <1>3, <2>1, <2>2, Judging
<1>4. ASSUME NEW r \in SetRequests, ReadRow(r) PROVE QueueInv'
  <2>1. /\ Others(r) /\ UNCHANGED queue
        /\ job'[r] = [stage |-> "write", todo |-> job[r].todo, patch |-> job[r].patch,
                      base |-> Stored]
    BY <1>4, JobSteps DEF ReadRow, SetTypes, Others
  <2>2. job'[r] \in Job
    <3>1. job[r].todo \in Updates /\ job[r].patch \in SectionKeys
      BY <1>4, JobTyped DEF ReadRow, JobAt, SetTypes
    <3> QED BY <2>1, <3>1, StoredTyped DEF Job
  <2>3. IdleJob(job'[r]) <=> IdleJob(job[r])
    BY <1>4, <2>1, <2>2, AbsentAssumption DEF IdleJob, ReadRow, JobAt
  <2> QED BY <1>0, <1>2, <1>4, <2>1, <2>3, KeepQueue
<1>5. ASSUME NEW r \in SetRequests, WriteRow(r) PROVE QueueInv'
  <2>0. PICK q : q = job[r] OBVIOUS
  <2>1. /\ Others(r) /\ UNCHANGED queue /\ q.stage = "write"
        /\ job'[r] \in Job /\ job'[r].stage = "written" /\ job'[r].todo = q.todo
    BY <1>5, <2>0, RowWritten
  <2>2. q # Absent BY <1>5, <2>0 DEF WriteRow, JobAt
  <2>3. IdleJob(job'[r]) <=> IdleJob(job[r]) BY <2>0, <2>1, <2>2, AbsentAssumption DEF IdleJob
  <2> QED BY <1>0, <1>2, <1>5, <2>1, <2>3, KeepQueue
<1>9. ASSUME NEW r \in SetRequests, CacheRow(r) PROVE QueueInv'
  <2>0. PICK q : q = job[r] OBVIOUS
  <2>1. CASE q.todo.kind = "pattern"
    <3>1. Others(r) /\ UNCHANGED queue /\ job'[r].stage = "changed"
      BY <1>9, <2>0, <2>1, RowCached
    <3>2. ~IdleJob(job[r]) /\ ~IdleJob(job'[r]) BY <2>0, <2>1, <3>1 DEF IdleJob, Idle
    <3> QED BY <1>0, <3>1, <3>2, KeepQueue
  <2>2. CASE q.todo.kind # "pattern"
    <3>1. Others(r) /\ Leave(r) /\ job'[r] = Absent BY <1>9, <2>0, <2>2, RowCached
    <3> QED BY <1>0, <1>2, <1>9, <3>1, LeaveQueue
  <2> QED BY <2>1, <2>2
<1>6. ASSUME NEW r \in SetRequests, CalendarStep(r) PROVE QueueInv'
  <2>1. Others(r) /\ UNCHANGED queue /\ ~IdleJob(job[r]) /\ ~IdleJob(job'[r])
    BY <1>6, Otherwise DEF IdleJob, Elsewhere
  <2> QED BY <1>0, <2>1, KeepQueue
<1>7. CASE Tick
  <2>1. UNCHANGED queue BY <1>7 DEF Tick
  <2>2. ASSUME NEW r \in SetRequests
        PROVE  /\ IdleJob(job'[r]) <=> IdleJob(job[r])
               /\ IdleJob(job[r]) => job'[r].stage = job[r].stage
    <3>1. CASE job[r] = Absent BY <1>7, <3>1, TickJobs DEF IdleJob
    <3>2. CASE job[r] # Absent
      <4>1. job[r] \in Job /\ job'[r] = Waited(job[r]) BY <1>7, <3>2, TickJobs
      <4>2. job'[r] # Absent BY <4>1, WaitedJob, AbsentAssumption
      <4> QED BY <3>2, <4>1, <4>2, WaitedJob DEF IdleJob
    <3> QED BY <3>1, <3>2
  <2>3. \A i \in DOMAIN queue : queue[i] \in SetRequests BY <1>0
  <2> QED BY <2>1, <2>2, <2>3 DEF QueueInv
<1>8. CASE UnlockMonth \/ UNCHANGED setVars
  BY <1>8 DEF UnlockMonth, setVars, QueueInv
<1> QED
  BY <1>1, <1>3, <1>4, <1>5, <1>6, <1>7, <1>8, <1>9 DEF SetNext, SetStep, CalendarStep

(* What a department's settings are once an input-tracking update is written. *)
DeptsAfter(u, depts) ==
    IF u.kind = "dept" THEN [depts EXCEPT ![u.dept] = u.entry]
    ELSE [d \in Depts |-> StillKnown(depts[d], u.reasons)]

(* As long as nothing older was written back or cached, the cached row has the *)
(* departments as they are, unless an input-tracking write waits for its      *)
(* answer, and such a write holds the departments it has to write.            *)
CachedDepts ==
    raw # Absent => \/ raw.value.depts = entered
                    \/ \E o \in SetRequests : IdleJob(job[o]) /\ job[o].stage = "written"
DeptsInv ==
    ~overtaken =>
        /\ Stored.depts = entered
        /\ CachedDepts
        /\ \A r \in SetRequests :
             IdleJob(job[r]) /\ job[r].stage \in {"judged", "write"} =>
               job[r].patch.depts = DeptsAfter(job[r].todo, entered)

(* An input-tracking update writes the departments its row had, with its own  *)
(* change.                                                                    *)
LEMMA SectionDepts ==
  ASSUME NEW u \in Updates, u.kind \in Idle, NEW row, Section(u, row) # Absent
  PROVE  Section(u, row).depts = DeptsAfter(u, row.depts)
<1>1. CASE u.kind = "dept"
  <2>1. Section(u, row) = [depts |-> [row.depts EXCEPT ![u.dept] = u.entry]]
    BY <1>1 DEF Section
  <2> QED BY <1>1, <2>1 DEF DeptsAfter
<1>2. CASE u.kind = "reasons"
  <2>1. Section(u, row) = [reasons |-> u.reasons,
                           depts |-> [d \in Depts |-> StillKnown(row.depts[d], u.reasons)]]
    BY <1>2 DEF Section
  <2> QED BY <1>2, <2>1 DEF DeptsAfter
<1> QED BY <1>1, <1>2 DEF Idle

(* As long as no older row is written back or cached, every input-tracking    *)
(* write is judged on the departments as they are when it is written: an edit *)
(* never undoes another department's.                                         *)
LEMMA DeptsStep ==
  ASSUME SetTypes, FullInv, QueueInv, DeptsInv, [SetNext]_setVars PROVE DeptsInv'
<1> SUFFICES ASSUME ~overtaken'
             PROVE  /\ Stored'.depts = entered'
                    /\ CachedDepts'
                    /\ \A r \in SetRequests :
                         IdleJob(job'[r]) /\ job'[r].stage \in {"judged", "write"} =>
                           job'[r].patch.depts = DeptsAfter(job'[r].todo, entered')
  BY DEF DeptsInv
<1> DEFINE Held(r) == IdleJob(job'[r]) /\ job'[r].stage \in {"judged", "write"} =>
                        job'[r].patch.depts = DeptsAfter(job'[r].todo, entered')
           Goal == /\ Stored'.depts = entered'
                   /\ CachedDepts'
                   /\ \A o \in SetRequests : Held(o)
<1>1. ASSUME ~overtaken, UNCHANGED <<own, entered>>, NEW r \in SetRequests, Others(r), Held(r),
             \/ raw' = raw /\ (job[r] # Absent => job[r].stage # "written")
             \/ raw'.value = Stored
      PROVE  Goal
  <2>1. Stored' = Stored /\ Stored.depts = entered BY <1>1 DEF DeptsInv, Stored
  <2>2. CachedDepts'
    <3>1. CASE raw'.value = Stored BY <1>1, <2>1, <3>1 DEF CachedDepts
    <3>2. CASE raw' = raw /\ (job[r] # Absent => job[r].stage # "written")
      <4>1. CachedDepts BY <1>1 DEF DeptsInv
      <4>2. ASSUME NEW o \in SetRequests, IdleJob(job[o]), job[o].stage = "written"
            PROVE  IdleJob(job'[o]) /\ job'[o].stage = "written"
        BY <1>1, <3>2, <4>2 DEF Others, IdleJob
      <4> QED BY <1>1, <3>2, <4>1, <4>2 DEF CachedDepts
    <3> QED BY <1>1, <3>1, <3>2
  <2>3. \A o \in SetRequests : Held(o) BY <1>1 DEF DeptsInv, Others
  <2> QED BY <1>1, <2>1, <2>2, <2>3
<1>2. ASSUME NEW r \in SetRequests, AskUpdate(r) PROVE Goal
  <2>1. PICK u \in Updates : BeginJob(r, [stage |-> "asked", todo |-> u])
    BY <1>2 DEF AskUpdate
  <2>2. Others(r) /\ job'[r] = [stage |-> "asked", todo |-> u]
    BY <2>1, JobSteps DEF SetTypes, Others
  <2>3. job'[r].stage = "asked" /\ Held(r) BY <2>2
  <2>4. ~overtaken /\ UNCHANGED <<own, entered, raw>> /\ job[r] = Absent
    BY <1>2 DEF AskUpdate, MayBegin
  <2> QED BY <1>1, <2>2, <2>3, <2>4
<1>3. ASSUME NEW r \in SetRequests, ReadSettings(r) \/ FetchedSettings(r) PROVE Goal
  <2>1. UNCHANGED <<own, entered>> /\ Stored' = Stored /\ ~overtaken /\ job[r].stage # "written"
    <3>1. CASE ReadSettings(r) BY <3>1 DEF ReadSettings, JobAt, Stored
    <3>2. CASE FetchedSettings(r) BY <3>2 DEF FetchedSettings, Overtakes, JobAt, Stored
    <3> QED BY <1>3, <3>1, <3>2
  <2>2. ASSUME NEW u \in Updates, NEW row \in SettingsRow, Judge(r, u, row),
               u.kind \in Idle => row.depts = entered
        PROVE  Others(r) /\ Held(r)
    <3>1. /\ Others(r)
          /\ \/ job'[r] = Absent
             \/ /\ Section(u, row) # Absent
                /\ job'[r] = [stage |-> "judged", todo |-> u, patch |-> Section(u, row)]
      BY <2>2, Judged
    <3>2. CASE job'[r] = Absent BY <3>1, <3>2 DEF IdleJob
    <3>3. CASE job'[r] # Absent
      <4>1. /\ Section(u, row) # Absent /\ job'[r].todo = u
            /\ job'[r].patch = Section(u, row)
        BY <3>1, <3>3
      <4>2. IdleJob(job'[r]) => u.kind \in Idle BY <4>1 DEF IdleJob
      <4> QED BY <2>1, <2>2, <3>1, <4>1, <4>2, SectionDepts
    <3> QED BY <3>2, <3>3
  <2>3. CASE ReadSettings(r) /\ RawHit
    <3>1. raw' = raw BY <2>3 DEF ReadSettings
    <3>2. /\ job[r] # Absent /\ job[r].stage = "asked" /\ job[r].todo \in Updates
          /\ raw.value \in SettingsRow /\ Judge(r, job[r].todo, raw.value) /\ MyTurn(r)
      BY <2>3, Judging DEF ReadSettings, JobAt
    <3>3. ASSUME job[r].todo.kind \in Idle PROVE raw.value.depts = entered
      <4>1. IdleJob(job[r]) BY <3>2, <3>3 DEF IdleJob
      <4>2. PICK i \in DOMAIN queue : queue[i] = r /\ i = 1 BY <3>2, <4>1 DEF QueueInv, MyTurn
      <4>3. \A o \in SetRequests : ~(IdleJob(job[o]) /\ job[o].stage = "written")
        BY <3>2, <4>2 DEF QueueInv
      <4> QED BY <2>1, <2>3, <4>3 DEF DeptsInv, CachedDepts, RawHit
    <3>4. Others(r) /\ Held(r) BY <2>2, <3>2, <3>3
    <3> QED BY <1>1, <2>1, <3>1, <3>4
  <2>4. CASE ReadSettings(r) /\ ~RawHit
    <3>1. /\ Others(r)
          /\ job'[r] = [stage |-> "fetched", todo |-> job[r].todo, value |-> Stored, age |-> 0]
      BY <2>4, Judging
    <3>2. job'[r].stage = "fetched" /\ Held(r) BY <3>1
    <3>3. raw' = raw BY <2>4 DEF ReadSettings
    <3> QED BY <1>1, <2>1, <3>1, <3>2, <3>3
  <2>5. CASE FetchedSettings(r)
    <3>1. job[r].value = Stored /\ raw'.value = Stored
      BY <2>5 DEF FetchedSettings, Overtakes, Cached
    <3>2. Stored.depts = entered BY <2>1 DEF DeptsInv
    <3>3. Others(r) /\ Held(r) BY <2>2, <2>5, <3>1, <3>2, Judging
    <3> QED BY <1>1, <2>1, <3>1, <3>3
  <2> QED BY <1>3, <2>3, <2>4, <2>5
<1>4. ASSUME NEW r \in SetRequests, ReadRow(r) PROVE Goal
  <2>1. /\ Others(r)
        /\ job'[r] = [stage |-> "write", todo |-> job[r].todo, patch |-> job[r].patch,
                      base |-> Stored]
    BY <1>4, JobSteps DEF ReadRow, SetTypes, Others
  <2>2. ~overtaken /\ UNCHANGED <<own, entered, raw>> BY <1>4 DEF ReadRow
  <2>3. job'[r].todo = job[r].todo /\ job'[r].patch = job[r].patch BY <2>1
  <2>4. Held(r) BY <1>4, <2>2, <2>3 DEF ReadRow, JobAt, IdleJob, DeptsInv
  <2>5. job[r].stage # "written" BY <1>4 DEF ReadRow, JobAt
  <2> QED BY <1>1, <2>1, <2>2, <2>4, <2>5
<1>5. ASSUME NEW r \in SetRequests, WriteRow(r) PROVE Goal
  <2>0. PICK q : q = job[r] OBVIOUS
  <2>1. /\ Stored' = own' /\ Others(r) /\ UNCHANGED raw
        /\ own'.depts = (IF q.todo.kind \in Idle THEN q.patch.depts ELSE q.base.depts)
        /\ job'[r] \in Job /\ job'[r].stage = "written" /\ job'[r].todo = q.todo
        /\ q \in Job /\ q.stage = "write" /\ q.todo \in Updates
    BY <1>5, <2>0, RowWritten
  <2>2. ~overtaken /\ q.base = Stored
    <3>1. overtaken' = (overtaken \/ q.base # Stored) BY <1>5, <2>0, RowWritten
    <3> QED BY <3>1
  <2>3. entered' = IF q.todo.kind \in Idle THEN DeptsAfter(q.todo, entered) ELSE entered
    BY <1>5, <2>0 DEF WriteRow, Enter, Idle, DeptsAfter
  <2>4. Stored.depts = entered /\ CachedDepts BY <2>2 DEF DeptsInv
  <2>5. Held(r) BY <2>1
  <2>6. CASE q.todo.kind \in Idle
    <3>1. IdleJob(job[r]) BY <2>0, <2>1, <2>6, AbsentAssumption DEF IdleJob
    <3>2. Stored'.depts = entered' BY <2>0, <2>1, <2>2, <2>3, <2>6, <3>1 DEF DeptsInv
    <3>3. CachedDepts'
      <4>1. IdleJob(job'[r]) BY <2>1, <2>6, AbsentAssumption DEF IdleJob
      <4> QED BY <2>1, <4>1 DEF CachedDepts
    <3>4. ASSUME NEW o \in SetRequests, o # r PROVE Held(o)
      <4>1. job'[o] = job[o] BY <2>1, <3>4 DEF Others
      <4>2. ~(IdleJob(job[o]) /\ job[o].stage \in {"judged", "write"})
        BY <2>0, <2>1, <3>1, <3>4 DEF QueueInv
      <4> QED BY <4>1, <4>2
    <3> QED BY <2>5, <3>2, <3>3, <3>4
  <2>7. CASE q.todo.kind \notin Idle
    <3>1. Stored'.depts = entered' /\ entered' = entered BY <2>1, <2>2, <2>3, <2>4, <2>7
    <3>2. CachedDepts'
      <4>1. ASSUME NEW o \in SetRequests, IdleJob(job[o]), job[o].stage = "written"
            PROVE  IdleJob(job'[o]) /\ job'[o].stage = "written"
        BY <2>0, <2>1, <4>1 DEF Others
      <4> QED BY <2>1, <2>4, <3>1, <4>1 DEF CachedDepts
    <3>3. \A o \in SetRequests : Held(o) BY <2>1, <2>2, <2>5, <3>1 DEF Others, DeptsInv
    <3> QED BY <3>1, <3>2, <3>3
  <2> QED BY <2>6, <2>7
<1>6. ASSUME NEW r \in SetRequests, CacheRow(r) PROVE Goal
  <2>0. PICK q : q = job[r] OBVIOUS
  <2>1. overtaken' = (overtaken \/ q.value # Stored) BY <1>6, <2>0, RowCached
  <2>2. /\ UNCHANGED <<own, entered>> /\ Others(r) /\ raw' = [value |-> q.value, age |-> 0]
        /\ job'[r] = Absent \/ job'[r] = [stage |-> "changed"]
    BY <1>6, <2>0, RowCached
  <2>3. ~overtaken /\ raw'.value = Stored BY <2>1, <2>2
  <2>4. Held(r) BY <2>2 DEF IdleJob
  <2> QED BY <1>1, <2>2, <2>3, <2>4
<1>7. ASSUME NEW r \in SetRequests, CalendarStep(r) PROVE Goal
  <2>1. Others(r) /\ UNCHANGED <<own, entered>> /\ Held(r)
    BY <1>7, Otherwise DEF IdleJob, Elsewhere
  <2>2. job[r] # Absent => job[r].stage # "written" BY <1>7, Otherwise DEF Elsewhere
  <2>3. /\ ~overtaken
        /\ \/ UNCHANGED raw
           \/ raw'.value = Stored
    <3>1. CASE ReadCalendar(r)
      <4>1. CASE job[r].value = Absent BY <3>1, <4>1 DEF ReadCalendar
      <4>2. CASE job[r].value # Absent
        <5>1. Cached(job[r]) /\ Overtakes(job[r].value) BY <3>1, <4>2 DEF ReadCalendar
        <5> QED BY <5>1 DEF Cached, Overtakes
      <4> QED BY <4>1, <4>2
    <3>2. CASE ~ReadCalendar(r)
      BY <1>7, <3>2 DEF CalendarStep, AskDay, WriteDay, Changed, AskCalendar, BeginLock, BuildLock,
         CommitLock, FailLock
    <3> QED BY <3>1, <3>2
  <2> QED BY <1>1, <2>1, <2>2, <2>3
<1>8. CASE Tick
  <2>1. ~overtaken /\ UNCHANGED <<own, entered>> /\ Stored' = Stored BY <1>8 DEF Tick, Stored
  <2>2. ASSUME NEW r \in SetRequests
        PROVE  /\ Held(r)
               /\ IdleJob(job[r]) /\ job[r].stage = "written" => job'[r] = job[r]
    <3>1. CASE job[r] = Absent BY <1>8, <3>1, TickJobs DEF IdleJob
    <3>2. CASE job[r] # Absent
      <4>1. job[r] \in Job /\ job'[r] = Waited(job[r]) BY <1>8, <3>2, TickJobs
      <4> QED BY <2>1, <4>1, WaitedJob DEF DeptsInv
    <3> QED BY <3>1, <3>2
  <2>3. CachedDepts'
    <3>1. raw' # Absent => raw # Absent /\ raw'.value = raw.value
      BY <1>8 DEF Tick, Aged, SetTypes
    <3>2. CachedDepts BY <2>1 DEF DeptsInv
    <3> QED BY <2>1, <2>2, <3>1, <3>2 DEF CachedDepts
  <2> QED BY <2>1, <2>2, <2>3 DEF DeptsInv
<1>9. CASE UnlockMonth \/ UNCHANGED setVars
  <2>1. UNCHANGED <<own, raw, job, entered, overtaken>> BY <1>9 DEF UnlockMonth, setVars
  <2> QED BY <2>1 DEF DeptsInv, Stored, CachedDepts
<1> QED
  BY <1>2, <1>3, <1>4, <1>5, <1>6, <1>7, <1>8, <1>9 DEF SetNext, SetStep, CalendarStep

-----------------------------------------------------------------------------
(* Settings: the cached calendar *)

(* How much older than its own age a calendar can be that was made of a       *)
(* cached row.                                                                *)
Lag == IF RawTtl = 0 THEN 0 ELSE RawTtl - 1

(* A row, or a calendar, that is not the present one was read before the last *)
(* change, or before an overwritten row was cached as new.                    *)
RowDated(row, age) == row.history # Stored.history => sinceChange <= age
TablesDated(history, over, age) ==
    history # Stored.history \/ over # overrides => sinceChange <= age + Lag

JobDated(q) ==
    /\ q.stage = "fetched" => RowDated(q.value, q.age)
    /\ q.stage = "cal" => /\ q.value # Absent => RowDated(q.value, q.age)
                          /\ TablesDated(q.history, q.over, q.age)

RawDated == raw # Absent => RowDated(raw.value, raw.age)
CalDated == cal # Absent => (cal.value # Calendar => sinceChange <= cal.age + Lag)
DatedInv == /\ RawDated /\ CalDated
            /\ \A r \in SetRequests : job[r] # Absent => JobDated(job[r])

(* The lag is a length of time.                                               *)
LEMMA LagIs == Lag \in Nat
BY TtlAssumption DEF Lag

(* A step after which everything read before counts as older than the last    *)
(* change, or that changes neither table.                                     *)
Steady == /\ sinceChange' = sinceChange /\ Stored'.history = Stored.history
          /\ UNCHANGED overrides

(* A step that changes neither table, or restarts the count, keeps everything *)
(* dated, when what it caches is.                                             *)
LEMMA SteadyKeeps ==
  ASSUME SetTypes, DatedInv, NEW r \in SetRequests, Others(r),
         Steady \/ sinceChange' = 0,
         raw' = raw \/ (raw' # Absent => RowDated(raw.value, raw.age)'),
         cal' = cal \/ (cal' # Absent => CalDated'),
         job'[r] # Absent => JobDated(job[r])'
  PROVE  DatedInv'
<1>1. CASE Steady
  <2>1. Calendar' = Calendar BY <1>1 DEF Steady, Calendar, IsWorkingDay
  <2>2. RawDated' BY <1>1 DEF DatedInv, RawDated, RowDated, Steady
  <2>3. CalDated' BY <1>1, <2>1 DEF DatedInv, CalDated, Steady
  <2>4. ASSUME NEW o \in SetRequests, job'[o] # Absent PROVE JobDated(job[o])'
    BY <1>1, <2>4 DEF DatedInv, JobDated, RowDated, TablesDated, Steady, Others
  <2> QED BY <2>2, <2>3, <2>4 DEF DatedInv
<1>2. CASE sinceChange' = 0
  <2>1. RawDated' BY <1>2 DEF RawDated, RowDated, SetTypes
  <2>2. CalDated' BY <1>2, LagIs DEF CalDated, SetTypes
  <2>3. ASSUME NEW o \in SetRequests, job'[o] # Absent PROVE JobDated(job[o])'
    <3>1. CASE o = r BY <2>3, <3>1
    <3>2. CASE o # r
      <4>1. job'[o] = job[o] /\ job[o] \in Job BY <2>3, <3>2 DEF Others, SetTypes
      <4>2. job[o].stage \in {"fetched", "cal"} => job[o].age \in Nat BY <4>1, JobTyped
      <4> QED BY <1>2, <4>1, <4>2, LagIs DEF JobDated, RowDated, TablesDated
    <3> QED BY <3>1, <3>2
  <2> QED BY <2>1, <2>2, <2>3 DEF DatedInv
<1> QED BY <1>1, <1>2

(* Every step keeps what is cached, or on its way to a cache, no further      *)
(* behind the last change than its own age and the time a cached row is used. *)
LEMMA DatedStep ==
  ASSUME SetTypes, FullInv, DatedInv, [SetNext]_setVars PROVE DatedInv'
<1>0. sinceChange \in Nat /\ Lag \in Nat BY LagIs, TtlAssumption DEF SetTypes
<1>1. ASSUME NEW r \in SetRequests, AskUpdate(r) PROVE DatedInv'
  <2>1. PICK u \in Updates : BeginJob(r, [stage |-> "asked", todo |-> u])
    BY <1>1 DEF AskUpdate
  <2>2. Others(r) /\ job'[r] = [stage |-> "asked", todo |-> u]
    BY <2>1, JobSteps DEF SetTypes, Others
  <2>3. job'[r].stage = "asked" BY <2>2
  <2>4. Steady /\ UNCHANGED <<raw, cal>> BY <1>1 DEF AskUpdate, Steady, Stored
  <2> QED BY <2>2, <2>3, <2>4, SteadyKeeps DEF JobDated
<1>2. ASSUME NEW r \in SetRequests, ReadSettings(r) \/ FetchedSettings(r) PROVE DatedInv'
  <2>1. Steady /\ UNCHANGED cal BY <1>2 DEF ReadSettings, FetchedSettings, Steady, Stored
  <2>2. ASSUME NEW u \in Updates, NEW row \in SettingsRow, Judge(r, u, row)
        PROVE  Others(r) /\ (job'[r] # Absent => JobDated(job[r])')
    <3>1. /\ Others(r)
          /\ \/ job'[r] = Absent
             \/ job'[r] = [stage |-> "judged", todo |-> u, patch |-> Section(u, row)]
      BY <2>2, Judged
    <3>2. job'[r] # Absent => job'[r].stage = "judged" BY <3>1
    <3> QED BY <3>1, <3>2 DEF JobDated
  <2>3. CASE ReadSettings(r) /\ RawHit
    <3>1. UNCHANGED raw BY <2>3 DEF ReadSettings
    <3> QED BY <2>1, <2>2, <2>3, <3>1, Judging, SteadyKeeps
  <2>4. CASE ReadSettings(r) /\ ~RawHit
    <3>1. /\ Others(r)
          /\ job'[r] = [stage |-> "fetched", todo |-> job[r].todo, value |-> Stored, age |-> 0]
      BY <2>4, Judging
    <3>2. job'[r].stage = "fetched" /\ job'[r].value = Stored BY <3>1
    <3>3. UNCHANGED raw BY <2>4 DEF ReadSettings
    <3>4. JobDated(job[r])' BY <2>1, <3>2 DEF JobDated, RowDated, Steady
    <3> QED BY <2>1, <3>1, <3>3, <3>4, SteadyKeeps
  <2>5. CASE FetchedSettings(r)
    <3>1. raw' = [value |-> job[r].value, age |-> job[r].age]
      BY <2>5 DEF FetchedSettings, Cached
    <3>2. RowDated(job[r].value, job[r].age)
      BY <2>5 DEF FetchedSettings, JobAt, DatedInv, JobDated
    <3>3. RowDated(raw.value, raw.age)' BY <2>1, <3>1, <3>2 DEF RowDated, Steady
    <3> QED BY <2>1, <2>2, <2>5, <3>3, Judging, SteadyKeeps
  <2> QED BY <1>2, <2>3, <2>4, <2>5
<1>3. ASSUME NEW r \in SetRequests, ReadRow(r) PROVE DatedInv'
  <2>1. /\ Others(r)
        /\ job'[r] = [stage |-> "write", todo |-> job[r].todo, patch |-> job[r].patch,
                      base |-> Stored]
    BY <1>3, JobSteps DEF ReadRow, SetTypes, Others
  <2>2. job'[r].stage = "write" BY <2>1
  <2>3. Steady /\ UNCHANGED <<raw, cal>> BY <1>3 DEF ReadRow, Steady, Stored
  <2> QED BY <2>1, <2>2, <2>3, SteadyKeeps DEF JobDated
<1>4. ASSUME NEW r \in SetRequests, WriteRow(r) PROVE DatedInv'
  <2>0. PICK q : q = job[r] OBVIOUS
  <2>1. Others(r) /\ raw' = raw /\ job'[r].stage = "written" BY <1>4, <2>0, RowWritten
  <2>2. UNCHANGED <<cal, overrides>> BY <1>4 DEF WriteRow
  <2>3. Steady \/ sinceChange' = 0 BY <1>4, <2>2 DEF WriteRow, NoteChange, Disturbed, Steady
  <2> QED BY <2>1, <2>2, <2>3, SteadyKeeps DEF JobDated
<1>10. ASSUME NEW r \in SetRequests, CacheRow(r) PROVE DatedInv'
  <2>0. PICK q : q = job[r] OBVIOUS
  <2>1. /\ Others(r) /\ raw' = [value |-> q.value, age |-> 0] /\ Stored' = Stored
        /\ UNCHANGED <<cal, overrides>>
        /\ job'[r] = Absent \/ job'[r] = [stage |-> "changed"]
    BY <1>10, <2>0, RowCached
  <2>2. job'[r] # Absent => job'[r].stage = "changed" BY <2>1
  <2>3. Disturbed(q.value.history # Stored.history) BY <1>10, <2>0 DEF CacheRow
  <2>4. raw'.value = q.value /\ raw'.age = 0 BY <2>1
  <2>5. CASE q.value.history # Stored.history
    <3>1. sinceChange' = 0 BY <2>3, <2>5 DEF Disturbed
    <3>2. RowDated(raw.value, raw.age)' BY <2>4, <3>1 DEF RowDated
    <3> QED BY <2>1, <2>2, <3>1, <3>2, SteadyKeeps DEF JobDated
  <2>6. CASE q.value.history = Stored.history
    <3>1. Steady BY <2>1, <2>3, <2>6 DEF Disturbed, Steady
    <3>2. RowDated(raw.value, raw.age)' BY <2>1, <2>4, <2>6 DEF RowDated
    <3> QED BY <2>1, <2>2, <3>1, <3>2, SteadyKeeps DEF JobDated
  <2> QED BY <2>5, <2>6
<1>5. ASSUME NEW r \in SetRequests, AskDay(r) \/ WriteDay(r) \/ Changed(r) \/ FailLock(r)
                                  \/ BeginLock(r) \/ CommitLock(r)
      PROVE  DatedInv'
  <2>1. Others(r) /\ UNCHANGED raw /\ Stored' = Stored
    BY <1>5, Otherwise
    DEF CalendarStep, AskDay, WriteDay, Changed, FailLock, BeginLock, CommitLock
  <2>2. job'[r] # Absent => job'[r].stage \in {"day", "changed", "locking"}
    <3>1. CASE AskDay(r)
      <4>1. PICK d \in Dates, works \in DayMarks \cup {Absent} :
              job'[r] = [stage |-> "day", date |-> d, works |-> works]
        BY <3>1, JobSteps DEF AskDay, SetTypes
      <4> QED BY <4>1
    <3>2. CASE WriteDay(r)
      <4>1. job'[r] = [stage |-> "changed"] BY <3>2, JobSteps DEF WriteDay, SetTypes
      <4> QED BY <4>1
    <3>3. CASE Changed(r) BY <3>3, JobSteps DEF Changed, SetTypes
    <3>4. CASE BeginLock(r)
      <4>1. PICK m \in Months : Proceed(r, [stage |-> "locking", month |-> m])
        BY <3>4, CalendarSteps
      <4>2. job'[r] = [stage |-> "locking", month |-> m] BY <4>1, JobSteps DEF SetTypes
      <4> QED BY <4>2
    <3>5. CASE CommitLock(r) \/ FailLock(r)
      BY <3>5, CalendarSteps, JobSteps DEF SetTypes
    <3> QED BY <1>5, <3>1, <3>2, <3>3, <3>4, <3>5
  <2>3. cal' = cal \/ cal' = Absent
    BY <1>5 DEF AskDay, WriteDay, Changed, FailLock, BeginLock, CommitLock
  <2>4. Steady \/ sinceChange' = 0
    <3>1. CASE WriteDay(r) BY <2>1, <3>1 DEF WriteDay, NoteChange, Disturbed, Steady
    <3>2. CASE ~WriteDay(r)
      BY <1>5, <2>1, <3>2 DEF AskDay, Changed, FailLock, BeginLock, CommitLock, Steady
    <3> QED BY <3>1, <3>2
  <2> QED BY <2>1, <2>2, <2>3, <2>4, SteadyKeeps DEF JobDated
<1>11. ASSUME NEW m \in Months \cup {Absent}
       PROVE  JobDated(Reading(m))
  <2>1. CASE RawHit
    <3>1. raw.value.history # Stored.history => sinceChange <= raw.age
      BY <2>1 DEF RawHit, DatedInv, RawDated, RowDated
    <3>2. raw.age <= Lag /\ raw.age \in Nat
      BY <2>1, TtlAssumption DEF RawHit, Lag, SetTypes
    <3> QED BY <1>0, <2>1, <3>1, <3>2, ReadingIs DEF JobDated, TablesDated
  <2>2. CASE ~RawHit BY <2>2, ReadingIs DEF JobDated, RowDated, TablesDated
  <2> QED BY <2>1, <2>2
<1>6. ASSUME NEW r \in SetRequests, AskCalendar(r) \/ BuildLock(r) PROVE DatedInv'
  <2>1. Steady /\ UNCHANGED <<raw, cal>> /\ Others(r)
    BY <1>6, Otherwise DEF CalendarStep, AskCalendar, BuildLock, Steady
  <2>2. PICK m \in Months \cup {Absent} :
          \/ job'[r] = Reading(m)
          \/ CalHit /\ m \in Months /\ job'[r] = Built(m, cal.value)
    <3>1. CASE AskCalendar(r) BY <3>1, CalendarSteps, JobSteps DEF SetTypes
    <3>2. CASE BuildLock(r) BY <3>2, CalendarSteps, JobSteps DEF SetTypes
    <3> QED BY <1>6, <3>1, <3>2
  <2>3. CASE job'[r] = Reading(m)
    <3>1. PICK q : q = Reading(m) OBVIOUS
    <3>2. JobDated(q) BY <1>11, <3>1
    <3>3. JobDated(job[r])'
      BY <2>1, <2>3, <3>1, <3>2 DEF JobDated, RowDated, TablesDated, Steady
    <3> QED BY <2>1, <3>3, SteadyKeeps
  <2>4. CASE CalHit /\ m \in Months /\ job'[r] = Built(m, cal.value)
    <3>1. job'[r].stage = "built" BY <2>4, BuiltIs
    <3> QED BY <2>1, <3>1, SteadyKeeps DEF JobDated
  <2> QED BY <2>2, <2>3, <2>4
<1>7. ASSUME NEW r \in SetRequests, ReadCalendar(r) PROVE DatedInv'
  <2>0. PICK q : q = job[r] OBVIOUS
  <2>1. Steady /\ Others(r)
    BY <1>7, Otherwise DEF CalendarStep, ReadCalendar, Steady
  <2>2. JobDated(q) /\ q.stage = "cal" BY <1>7, <2>0 DEF ReadCalendar, JobAt, DatedInv
  <2>3. raw' = raw \/ (raw' # Absent => RowDated(raw.value, raw.age)')
    <3>1. CASE q.value = Absent BY <1>7, <2>0, <3>1 DEF ReadCalendar
    <3>2. CASE q.value # Absent
      <4>1. raw' = [value |-> q.value, age |-> q.age]
        BY <1>7, <2>0, <3>2 DEF ReadCalendar, Cached
      <4> QED BY <2>1, <2>2, <3>2, <4>1 DEF JobDated, RowDated, Steady
    <3> QED BY <3>1, <3>2
  <2>4. CalDated'
    <3>1. cal'.value = CalendarRead(q) /\ cal'.age = q.age
      BY <1>7, <2>0 DEF ReadCalendar, AgeRead
    <3>2. CASE q.history = Stored.history /\ q.over = overrides
      <4>1. cal'.value = Calendar'
        BY <2>1, <3>1, <3>2 DEF Calendar, CalendarRead, Steady
      <4> QED BY <4>1 DEF CalDated
    <3>3. CASE q.history # Stored.history \/ q.over # overrides
      <4>1. sinceChange <= q.age + Lag BY <2>2, <3>3 DEF JobDated, TablesDated
      <4> QED BY <2>1, <3>1, <4>1 DEF CalDated, Steady
    <3> QED BY <3>2, <3>3
  <2>5. job'[r] # Absent => job'[r].stage = "built"
    <3>1. q.month \in Months \cup {Absent} BY <1>7, <2>0, CalendarSteps, JobTyped
    <3>2. job'[r] = IF q.month = Absent THEN Absent ELSE Built(q.month, CalendarRead(q))
      BY <1>7, <2>0, CalendarSteps, JobSteps DEF SetTypes
    <3> QED BY <3>1, <3>2, BuiltIs
  <2> QED BY <2>1, <2>3, <2>4, <2>5, SteadyKeeps DEF JobDated
<1>8. CASE Tick
  <2>1. /\ UNCHANGED <<own, overrides>> /\ Stored' = Stored /\ Calendar' = Calendar
        /\ sinceChange' = Older(sinceChange)
    BY <1>8 DEF Tick, Stored, Calendar
  <2>2. sinceChange' <= sinceChange + 1 /\ sinceChange' <= RawTtl + CalTtl /\ sinceChange' \in Nat
    BY <2>1, TtlAssumption DEF Older, SetTypes
  <2>3. RawDated'
    <3> SUFFICES ASSUME raw' # Absent PROVE RowDated(raw.value, raw.age)'
      BY DEF RawDated
    <3>1. raw # Absent /\ raw' = [raw EXCEPT !.age = @ + 1] BY <1>8 DEF Tick, Aged
    <3>2. raw'.value = raw.value /\ raw'.age = raw.age + 1 /\ raw.age \in Nat
      BY <3>1 DEF SetTypes
    <3> QED BY <1>0, <2>1, <2>2, <3>1, <3>2 DEF DatedInv, RawDated, RowDated
  <2>4. CalDated'
    <3> SUFFICES ASSUME cal' # Absent, cal'.value # Calendar
                 PROVE  sinceChange' <= cal'.age + Lag
      BY <2>1 DEF CalDated
    <3>1. cal # Absent /\ cal' = [cal EXCEPT !.age = @ + 1] BY <1>8 DEF Tick, Aged
    <3>2. cal'.value = cal.value /\ cal'.age = cal.age + 1 /\ cal.age \in Nat
      BY <3>1 DEF SetTypes
    <3> QED BY <1>0, <2>1, <2>2, <3>1, <3>2 DEF DatedInv, CalDated
  <2>5. ASSUME NEW r \in SetRequests, job'[r] # Absent PROVE JobDated(job[r])'
    <3>0. PICK q : q = job[r] OBVIOUS
    <3>1. q \in Job /\ job'[r] = Waited(q) /\ JobDated(q)
      BY <1>8, <2>5, <3>0, TickJobs DEF DatedInv
    <3>2. ASSUME q.stage \in {"fetched", "cal"}
          PROVE  /\ q.age \in Nat /\ job'[r].age = Older(q.age) /\ job'[r].age \in Nat
                 /\ \A lag \in Nat : sinceChange <= q.age + lag
                                     => sinceChange' <= job'[r].age + lag
      <4>1. q.age \in Nat /\ job'[r].age = Older(q.age)
        BY <3>1, <3>2, JobTyped, WaitedJob
      <4>2. CASE q.age < RawTtl + CalTtl
        <5>1. job'[r].age = q.age + 1 BY <4>1, <4>2 DEF Older
        <5> QED BY <1>0, <2>2, <4>1, <5>1
      <4>3. CASE ~(q.age < RawTtl + CalTtl)
        <5>1. job'[r].age = q.age BY <4>1, <4>3 DEF Older
        <5> QED BY <1>0, <2>2, <4>1, <4>3, <5>1, TtlAssumption
      <4> QED BY <4>2, <4>3
    <3>3. CASE q.stage = "fetched"
      <4>1. job'[r].stage = "fetched" /\ job'[r].value = q.value
        BY <3>1, <3>3, WaitedJob
      <4>2. sinceChange <= q.age => sinceChange' <= job'[r].age
        <5>1. sinceChange <= q.age + 0 => sinceChange' <= job'[r].age + 0 BY <3>2, <3>3
        <5> QED BY <3>2, <3>3, <5>1
      <4> QED BY <2>1, <3>1, <3>3, <4>1, <4>2 DEF JobDated, RowDated
    <3>4. CASE q.stage = "cal"
      <4>1. /\ job'[r].stage = "cal" /\ job'[r].value = q.value
            /\ job'[r].history = q.history /\ job'[r].over = q.over
        BY <3>1, <3>4, WaitedJob
      <4>2. sinceChange <= q.age => sinceChange' <= job'[r].age
        <5>1. sinceChange <= q.age + 0 => sinceChange' <= job'[r].age + 0 BY <3>2, <3>4
        <5> QED BY <3>2, <3>4, <5>1
      <4>3. sinceChange <= q.age + Lag => sinceChange' <= job'[r].age + Lag
        BY <1>0, <3>2, <3>4
      <4> QED BY <2>1, <3>1, <3>4, <4>1, <4>2, <4>3 DEF JobDated, RowDated, TablesDated
    <3>5. CASE q.stage \notin {"fetched", "cal"}
      <4>1. job'[r] = q BY <3>1, <3>5, WaitedJob
      <4> QED BY <3>5, <4>1 DEF JobDated
    <3> QED BY <3>3, <3>4, <3>5
  <2> QED BY <2>3, <2>4, <2>5 DEF DatedInv
<1>9. CASE UnlockMonth \/ UNCHANGED setVars
  <2>1. UNCHANGED <<own, overrides, raw, cal, job, sinceChange>>
    BY <1>9 DEF UnlockMonth, setVars
  <2>2. Stored' = Stored /\ Calendar' = Calendar BY <2>1 DEF Stored, Calendar
  <2> QED BY <2>1, <2>2 DEF DatedInv, RawDated, CalDated, JobDated, RowDated, TablesDated
<1> QED
  BY <1>1, <1>2, <1>3, <1>4, <1>5, <1>6, <1>7, <1>8, <1>9, <1>10 DEF SetNext, SetStep

-----------------------------------------------------------------------------
(* Settings: locked months *)

(* The patterns a decision from a day on leaves before it are what they were. *)
LEMMA LatestEntry ==
  ASSUME NEW entries \in SUBSET Nat, 0 \in entries, NEW d \in Nat
  PROVE  \E f \in entries : f <= d /\ \A g \in entries : g <= d => g <= f
<1> DEFINE gaps == {d - f : f \in {g \in entries : g <= d}}
<1>1. gaps \subseteq Nat /\ d - 0 \in gaps OBVIOUS
<1>2. PICK gap \in gaps : \A other \in gaps : ~(<<other, gap>> \in OpToRel(<, Nat))
  BY <1>1, NatLessThanWellFounded, WFMin
<1>3. PICK f \in entries : f <= d /\ gap = d - f OBVIOUS
<1>4. ASSUME NEW g \in entries, g <= d PROVE g <= f
  <2>1. d - g \in gaps /\ d - g \in Nat BY <1>4
  <2>2. ~(d - g < gap) BY <1>1, <1>2, <2>1 DEF OpToRel
  <2> QED BY <1>3, <2>1, <2>2
<1> QED BY <1>3, <1>4

Latest(entries, d, f) == f \in entries /\ f <= d /\ \A g \in entries : g <= d => g <= f

(* The pattern on a day is that of the latest entry not after it.             *)
LEMMA PatternIs ==
  ASSUME NEW history, DOMAIN history \subseteq Nat, NEW d \in Nat, NEW f,
         Latest(DOMAIN history, d, f)
  PROVE  PatternOn(history, d) = history[f]
<1> DEFINE Is(g) == g <= d /\ \A h \in DOMAIN history : h <= d => h <= g
<1>1. f \in DOMAIN history /\ Is(f) BY DEF Latest
<1>2. \A g \in DOMAIN history : Is(g) => g = f BY <1>1
<1>3. PatternOn(history, d) = history[CHOOSE g \in DOMAIN history : Is(g)] BY DEF PatternOn
<1> HIDE DEF Is
<1> QED BY <1>1, <1>2, <1>3

(* A decision from a day on leaves every earlier day's pattern as it was      *)
(* (withPatternFrom).                                                         *)
LEMMA PatternBefore ==
  ASSUME NEW history \in History, NEW from \in Dates, NEW works, NEW d \in Dates, d < from
  PROVE  PatternOn(WithPatternFrom(history, from, works), d) = PatternOn(history, d)
<1> DEFINE kept == Kept(history, from)
           before == [f \in kept |-> history[f]]
           after == [f \in kept \cup {from} |-> IF f = from THEN works ELSE history[f]]
<1>1. DOMAIN history \subseteq Nat /\ 0 \in DOMAIN history
  <2>1. PICK entries \in SUBSET Dates : history \in [entries \cup {0} -> BOOLEAN]
    BY DEF History
  <2> QED BY <2>1, DatesAssumption
<1>2. d \in Nat /\ from \in Nat BY DatesAssumption
<1>3. PICK f \in DOMAIN history : f <= d /\ \A g \in DOMAIN history : g <= d => g <= f
  BY <1>1, <1>2, LatestEntry
<1>4. f \in kept /\ f # from /\ f < from BY <1>1, <1>2, <1>3 DEF Kept
<1>5. PatternOn(history, d) = history[f]
  BY <1>1, <1>2, <1>3, PatternIs DEF Latest
<1>6. PatternOn(before, d) = history[f]
  <2>1. DOMAIN before = kept /\ kept \subseteq DOMAIN history BY DEF Kept
  <2>2. Latest(DOMAIN before, d, f) BY <1>3, <1>4, <2>1 DEF Latest
  <2>3. before[f] = history[f] BY <1>4
  <2> HIDE DEF before
  <2> QED BY <1>1, <1>2, <2>1, <2>2, <2>3, PatternIs
<1>7. PatternOn(after, d) = history[f]
  <2>1. DOMAIN after = kept \cup {from} /\ kept \subseteq DOMAIN history BY DEF Kept
  <2>2. Latest(DOMAIN after, d, f) BY <1>1, <1>2, <1>3, <1>4, <2>1 DEF Latest
  <2>3. after[f] = history[f] BY <1>4
  <2>4. DOMAIN after \subseteq Nat BY <1>1, <1>2, <2>1
  <2> HIDE DEF after
  <2> QED BY <1>2, <2>2, <2>3, <2>4, PatternIs
<1>8. WithPatternFrom(history, from, works) = before \/ WithPatternFrom(history, from, works) = after
  BY DEF WithPatternFrom
<1> QED BY <1>5, <1>6, <1>7, <1>8

(* A day of an earlier month is an earlier day.                               *)
LEMMA MonthsInOrder ==
  ASSUME NEW d \in Dates, NEW from \in Dates, ~(MonthOf(d) >= MonthOf(from))
  PROVE  d < from
BY DatesAssumption DEF MonthOf

(* A month is being locked by one request at a time, and only while it is not *)
(* locked (lockMonthExclusive).                                               *)
AloneInv ==
    \A r \in SetRequests : Locking(job[r]) # Absent =>
        /\ Locking(job[r]) \in Months /\ locked[Locking(job[r])] = Absent
        /\ \A o \in SetRequests \ {r} : Locking(job[o]) # Locking(job[r])

(* What a step can do to the months and to who is locking them: nothing, or   *)
(* give one up; begin with one nobody holds; or lock the one that is held.    *)
Releases(r) == UNCHANGED locked /\ Locking(job'[r]) \in {Locking(job[r]), Absent}
Begins(r) ==
    /\ UNCHANGED locked
    /\ \E m \in Months : /\ Locking(job'[r]) = m /\ locked[m] = Absent
                         /\ \A o \in SetRequests : Locking(job[o]) # m
Locks(r) ==
    /\ Locking(job'[r]) = Absent /\ Locking(job[r]) \in Months
    /\ \A m \in Months \ {Locking(job[r])} : locked'[m] = locked[m]

(* A request that is at none of the lock's stages locks nothing.              *)
LEMMA NotLocking ==
  ASSUME NEW q, q # Absent => q.stage \notin {"locking", "cal", "built"}
  PROVE  Locking(q) = Absent
BY DEF Locking

(* The steps that write a section lock nothing.                               *)
LEMMA SectionSteps ==
  ASSUME SetTypes, FullInv, NEW r \in SetRequests,
         \/ AskUpdate(r) \/ ReadSettings(r) \/ FetchedSettings(r) \/ ReadRow(r)
         \/ WriteRow(r) \/ CacheRow(r)
  PROVE  Others(r) /\ UNCHANGED locked /\ Locking(job'[r]) = Absent
<1>0. UNCHANGED locked
  BY DEF AskUpdate, ReadSettings, FetchedSettings, ReadRow, WriteRow, CacheRow
<1>1. CASE AskUpdate(r)
  <2>1. PICK u \in Updates : BeginJob(r, [stage |-> "asked", todo |-> u])
    BY <1>1 DEF AskUpdate
  <2>2. Others(r) /\ job'[r] = [stage |-> "asked", todo |-> u]
    BY <2>1, JobSteps DEF SetTypes, Others
  <2>3. job'[r].stage = "asked" BY <2>2
  <2> QED BY <1>0, <2>2, <2>3, NotLocking
<1>2. CASE ReadSettings(r) /\ ~RawHit
  <2>1. Others(r) /\ job'[r] = [stage |-> "fetched", todo |-> job[r].todo,
                                value |-> Stored, age |-> 0]
    BY <1>2, Judging
  <2>2. job'[r].stage = "fetched" BY <2>1
  <2> QED BY <1>0, <2>1, <2>2, NotLocking
<1>3. ASSUME NEW u \in Updates, NEW row \in SettingsRow, Judge(r, u, row)
      PROVE  Others(r) /\ Locking(job'[r]) = Absent
  <2>1. /\ Others(r)
        /\ \/ job'[r] = Absent
           \/ job'[r] = [stage |-> "judged", todo |-> u, patch |-> Section(u, row)]
    BY <1>3, Judged
  <2>2. job'[r] # Absent => job'[r].stage = "judged" BY <2>1
  <2> QED BY <2>1, <2>2, NotLocking
<1>4. CASE ReadRow(r)
  <2>1. /\ Others(r)
        /\ job'[r] = [stage |-> "write", todo |-> job[r].todo, patch |-> job[r].patch,
                      base |-> Stored]
    BY <1>4, JobSteps DEF ReadRow, SetTypes, Others
  <2>2. job'[r].stage = "write" BY <2>1
  <2> QED BY <1>0, <2>1, <2>2, NotLocking
<1>5. CASE WriteRow(r)
  <2>0. PICK q : q = job[r] OBVIOUS
  <2>1. Others(r) /\ job'[r].stage = "written" BY <1>5, <2>0, RowWritten
  <2> QED BY <1>0, <2>1, NotLocking
<1>6. CASE CacheRow(r)
  <2>0. PICK q : q = job[r] OBVIOUS
  <2>1. Others(r) /\ (job'[r] = Absent \/ job'[r] = [stage |-> "changed"])
    BY <1>6, <2>0, RowCached
  <2>2. job'[r] # Absent => job'[r].stage = "changed" BY <2>1
  <2> QED BY <1>0, <2>1, <2>2, NotLocking
<1> QED BY <1>0, <1>1, <1>2, <1>3, <1>4, <1>5, <1>6, Judging

(* Marking dates and reading the calendar lock nothing.                       *)
LEMMA Unlocking ==
  ASSUME SetTypes, NEW r \in SetRequests,
         AskDay(r) \/ WriteDay(r) \/ Changed(r) \/ AskCalendar(r)
  PROVE  Locking(job'[r]) = Absent
<1>1. CASE AskDay(r)
  <2>1. PICK d \in Dates, works \in DayMarks \cup {Absent} :
          job'[r] = [stage |-> "day", date |-> d, works |-> works]
    BY <1>1, JobSteps DEF AskDay, SetTypes
  <2>2. job'[r].stage = "day" BY <2>1
  <2> QED BY <2>2, NotLocking
<1>2. CASE WriteDay(r)
  <2>1. job'[r] = [stage |-> "changed"] BY <1>2, JobSteps DEF WriteDay, SetTypes
  <2>2. job'[r].stage = "changed" BY <2>1
  <2> QED BY <2>2, NotLocking
<1>3. CASE Changed(r) BY <1>3, JobSteps, NotLocking DEF Changed, SetTypes
<1>4. CASE AskCalendar(r)
  <2>1. job'[r] = Reading(Absent) BY <1>4, CalendarSteps, JobSteps DEF SetTypes
  <2> QED BY <2>1, ReadingIs DEF Locking
<1> QED BY <1>1, <1>2, <1>3, <1>4

(* The steps of the calendar and of the locks.                                *)
LEMMA LockingSteps ==
  ASSUME SetTypes, NEW r \in SetRequests, CalendarStep(r)
  PROVE  Releases(r) \/ Begins(r) \/ Locks(r)
<1>1. CASE AskDay(r) \/ WriteDay(r) \/ Changed(r) \/ AskCalendar(r)
  BY <1>1, Unlocking DEF AskDay, WriteDay, Changed, AskCalendar, Releases
<1>3. CASE ReadCalendar(r)
  <2>1. /\ job[r] \in Job /\ job[r].stage = "cal"
        /\ job'[r] = IF job[r].month = Absent THEN Absent
                     ELSE Built(job[r].month, CalendarRead(job[r]))
    BY <1>3, CalendarSteps, JobSteps DEF SetTypes
  <2>2. job[r] # Absent /\ job[r].month \in Months \cup {Absent}
    BY <2>1, JobTyped, AbsentAssumption
  <2>3. UNCHANGED locked BY <1>3 DEF ReadCalendar
  <2>4. CASE job[r].month = Absent BY <2>1, <2>3, <2>4 DEF Locking, Releases
  <2>5. CASE job[r].month \in Months
    <3>1. job'[r] = Built(job[r].month, CalendarRead(job[r]))
      BY <2>1, <2>5, AbsentAssumption
    <3>2. job'[r].stage = "built" /\ job'[r].month = job[r].month /\ job'[r] # Absent
      BY <2>5, <3>1, BuiltIs, AbsentAssumption
    <3> QED BY <2>1, <2>2, <2>3, <3>2 DEF Locking, Releases
  <2> QED BY <2>2, <2>4, <2>5
<1>4. CASE BeginLock(r)
  <2>1. PICK m \in Months : /\ locked[m] = Absent /\ \A o \in SetRequests : Locking(job[o]) # m
                            /\ [stage |-> "locking", month |-> m] \in Job
                            /\ Proceed(r, [stage |-> "locking", month |-> m])
    BY <1>4, CalendarSteps
  <2>2. job'[r] = [stage |-> "locking", month |-> m] BY <2>1, JobSteps DEF SetTypes
  <2>3. job'[r].stage = "locking" /\ job'[r].month = m /\ job'[r] # Absent
    BY <2>1, <2>2, AbsentAssumption
  <2>4. Locking(job'[r]) = m BY <2>3 DEF Locking
  <2>5. UNCHANGED locked BY <1>4 DEF BeginLock
  <2> QED BY <2>1, <2>4, <2>5 DEF Begins
<1>5. CASE BuildLock(r)
  <2>1. /\ job[r] \in Job /\ job[r].stage = "locking" /\ job[r].month \in Months
        /\ job'[r] = IF CalHit THEN Built(job[r].month, cal.value) ELSE Reading(job[r].month)
    BY <1>5, CalendarSteps, JobSteps DEF SetTypes
  <2>2. /\ job'[r].stage \in {"built", "cal"} /\ job'[r].month = job[r].month
        /\ job'[r] # Absent
    BY <2>1, BuiltIs, ReadingIs, AbsentAssumption
  <2>3. UNCHANGED locked /\ job[r] # Absent BY <1>5 DEF BuildLock, JobAt
  <2> QED BY <2>1, <2>2, <2>3 DEF Locking, Releases
<1>6. CASE CommitLock(r)
  <2>1. /\ job[r] \in Job /\ job[r].stage = "built" /\ job[r].month \in Months
        /\ job'[r] = Absent /\ job[r] # Absent
    BY <1>6, CalendarSteps, JobSteps, AbsentAssumption DEF SetTypes
  <2>2. locked' = [locked EXCEPT ![job[r].month] = job[r].days] BY <1>6 DEF CommitLock
  <2> QED BY <2>1, <2>2 DEF Locking, Locks, SetTypes
<1>7. CASE FailLock(r)
  <2>1. job'[r] = Absent BY <1>7, CalendarSteps, JobSteps DEF SetTypes
  <2>2. UNCHANGED locked BY <1>7 DEF FailLock
  <2> QED BY <2>1, <2>2 DEF Locking, Releases
<1> QED BY <1>1, <1>3, <1>4, <1>5, <1>6, <1>7 DEF CalendarStep

(* The month's lock keeps two requests from locking it at once.               *)
LEMMA AloneStep ==
  ASSUME SetTypes, FullInv, AloneInv, [SetNext]_setVars PROVE AloneInv'
<1>1. ASSUME NEW r \in SetRequests, Others(r), Releases(r) \/ Begins(r) \/ Locks(r)
      PROVE  AloneInv'
  <2>0. \A o \in SetRequests \ {r} : Locking(job'[o]) = Locking(job[o])
    BY <1>1 DEF Others
  <2> SUFFICES ASSUME NEW a \in SetRequests, Locking(job'[a]) # Absent
               PROVE  /\ Locking(job'[a]) \in Months /\ locked'[Locking(job'[a])] = Absent
                      /\ \A o \in SetRequests \ {a} : Locking(job'[o]) # Locking(job'[a])
    <3>1. \A q : Locking(q)' = Locking(q') OBVIOUS
    <3> QED BY DEF AloneInv, Locking
  <2>1. CASE Releases(r) BY <2>0, <2>1 DEF Releases, AloneInv
  <2>2. CASE Begins(r) BY <2>0, <2>2 DEF Begins, AloneInv
  <2>3. CASE Locks(r)
    <3>1. a # r /\ Locking(job'[a]) = Locking(job[a]) BY <2>0, <2>3 DEF Locks
    <3>2. Locking(job[a]) \in Months /\ Locking(job[a]) # Locking(job[r]) BY <3>1 DEF AloneInv
    <3>3. \A o \in SetRequests \ {a} : Locking(job'[o]) # Locking(job'[a])
      BY <2>0, <2>3, <3>1 DEF Locks, AloneInv
    <3> QED BY <2>3, <3>1, <3>2, <3>3 DEF Locks, AloneInv
  <2> QED BY <1>1, <2>1, <2>2, <2>3
<1>2. ASSUME NEW r \in SetRequests, SetStep(r) PROVE AloneInv'
  <2>1. CASE CalendarStep(r) BY <1>1, <2>1, Otherwise, LockingSteps
  <2>2. CASE ~CalendarStep(r)
    BY <1>1, <1>2, <2>2, SectionSteps DEF SetStep, CalendarStep, Releases
  <2> QED BY <2>1, <2>2
<1>3. CASE Tick
  <2>1. \A r \in SetRequests : Locking(job'[r]) = Locking(job[r])
    <3> TAKE r \in SetRequests
    <3>1. job'[r] = Waited(job[r]) /\ (job[r] # Absent => job[r] \in Job) BY <1>3, TickJobs
    <3>2. CASE job[r] = Absent BY <1>3, <3>2, TickJobs
    <3>3. CASE job[r] # Absent
      <4>1. job'[r] # Absent /\ job'[r].stage = job[r].stage
        BY <3>1, <3>3, WaitedJob, AbsentAssumption
      <4>2. job[r].stage \in {"locking", "cal", "built"} => job'[r].month = job[r].month
        BY <3>1, <3>3, WaitedJob
      <4> QED BY <3>3, <4>1, <4>2 DEF Locking
    <3> QED BY <3>2, <3>3
  <2>2. UNCHANGED locked BY <1>3 DEF Tick
  <2> QED BY <2>1, <2>2 DEF AloneInv, Locking
<1>4. CASE UnlockMonth
  <2>1. UNCHANGED job /\ \A m \in Months : locked'[m] \in {locked[m], Absent}
    BY <1>4 DEF UnlockMonth, SetTypes
  <2> QED BY <2>1 DEF AloneInv, Locking
<1>5. CASE UNCHANGED setVars BY <1>5 DEF setVars, AloneInv, Locking
<1> QED BY <1>2, <1>3, <1>4, <1>5 DEF SetNext

(* As long as a month's working dates were read long enough after a change,   *)
(* and nothing changed since, what was read of them is what the tables say.   *)
BuiltClear(q) ==
    Locking(q) \in Months \ lockedOver /\ q.stage # "locking" =>
        /\ sinceChange >= RawTtl + CalTtl
        /\ q.stage = "cal" => q.history = Stored.history /\ q.over = overrides
        /\ q.stage = "built" => q.days = WorkingDates(q.month)
BuiltInv == \A r \in SetRequests : BuiltClear(job[r])

(* A step that leaves the calendar alone, or is noted by whoever reads it for *)
(* a lock, keeps what they read.                                              *)
LEMMA BuiltKept ==
  ASSUME BuiltInv, NEW r \in SetRequests, Others(r), BuiltClear(job[r])',
         \/ /\ Steady
            /\ \A o \in SetRequests \ {r} :
                 Locking(job[o]) \in lockedOver => Locking(job[o]) \in lockedOver'
         \/ lockedOver' = lockedOver \cup BeingLocked
  PROVE  BuiltInv'
<1> SUFFICES ASSUME NEW o \in SetRequests, o # r PROVE BuiltClear(job[o])'
  BY DEF BuiltInv
<1> SUFFICES ASSUME Locking(job'[o]) \in Months \ lockedOver', job'[o].stage # "locking"
             PROVE  /\ sinceChange' >= RawTtl + CalTtl
                    /\ job'[o].stage = "cal" =>
                         job'[o].history = Stored'.history /\ job'[o].over = overrides'
                    /\ job'[o].stage = "built" => job'[o].days = WorkingDates(job[o].month)'
  BY DEF BuiltClear, Locking
<1>1. job'[o] = job[o] BY DEF Others
<1>2. Steady /\ Locking(job[o]) \notin lockedOver BY <1>1 DEF BeingLocked
<1>3. /\ sinceChange >= RawTtl + CalTtl
      /\ job[o].stage = "cal" => job[o].history = Stored.history /\ job[o].over = overrides
      /\ job[o].stage = "built" => job[o].days = WorkingDates(job[o].month)
  BY <1>1, <1>2 DEF BuiltInv, BuiltClear
<1>4. Calendar' = Calendar BY <1>2 DEF Steady, Calendar, IsWorkingDay
<1>5. WorkingDates(job[o].month)' = WorkingDates(job[o].month)
  BY <1>1, <1>4 DEF WorkingDates, DatesOf
<1> QED BY <1>1, <1>2, <1>3, <1>5 DEF Steady

(* What a lock reads of the calendar long enough after its last change is     *)
(* what the tables say (forOrg, lockMonth).                                   *)
LEMMA BuiltStep ==
  ASSUME SetTypes, FullInv, AloneInv, DatedInv, BuiltInv, [SetNext]_setVars PROVE BuiltInv'
<1>0. sinceChange \in Nat /\ RawTtl \in Nat /\ CalTtl \in Nat BY TtlAssumption DEF SetTypes
<1>1. ASSUME NEW r \in SetRequests, Locking(job'[r]) = Absent PROVE BuiltClear(job[r])'
  BY <1>1, AbsentAssumption DEF BuiltClear, Locking
<1>2. ASSUME NEW r \in SetRequests,
             AskUpdate(r) \/ ReadSettings(r) \/ FetchedSettings(r) \/ ReadRow(r)
             \/ WriteRow(r) \/ CacheRow(r)
      PROVE  BuiltInv'
  <2>1. Others(r) /\ Locking(job'[r]) = Absent BY <1>2, SectionSteps
  <2>2. BuiltClear(job[r])' BY <1>1, <2>1
  <2>3. CASE AskUpdate(r) \/ ReadSettings(r) \/ FetchedSettings(r) \/ ReadRow(r)
    <3>1. UNCHANGED <<own, overrides, sinceChange, lockedOver>>
      BY <2>3 DEF AskUpdate, ReadSettings, FetchedSettings, ReadRow
    <3>2. Steady BY <3>1 DEF Steady, Stored
    <3> QED BY <2>1, <2>2, <3>1, <3>2, BuiltKept
  <2>4. CASE WriteRow(r)
    <3>1. UNCHANGED overrides BY <2>4 DEF WriteRow
    <3>2. (Steady /\ UNCHANGED lockedOver) \/ lockedOver' = lockedOver \cup BeingLocked
      BY <2>4, <3>1 DEF WriteRow, NoteChange, Disturbed, Steady
    <3> QED BY <2>1, <2>2, <3>2, BuiltKept
  <2>5. CASE CacheRow(r)
    <3>0. PICK q : q = job[r] OBVIOUS
    <3>1. UNCHANGED overrides /\ Stored' = Stored BY <2>5, <3>0, RowCached
    <3>2. Disturbed(q.value.history # Stored.history) BY <2>5, <3>0 DEF CacheRow
    <3>3. (Steady /\ UNCHANGED lockedOver) \/ lockedOver' = lockedOver \cup BeingLocked
      BY <3>1, <3>2 DEF Disturbed, Steady
    <3> QED BY <2>1, <2>2, <3>3, BuiltKept
  <2> QED BY <1>2, <2>3, <2>4, <2>5
<1>3. ASSUME NEW r \in SetRequests, AskDay(r) \/ WriteDay(r) \/ Changed(r) \/ AskCalendar(r)
                                    \/ BeginLock(r) \/ CommitLock(r) \/ FailLock(r)
      PROVE  BuiltInv'
  <2>1. Others(r) /\ Stored' = Stored BY <1>3, Otherwise DEF CalendarStep
  <2>2. BuiltClear(job[r])'
    <3>1. CASE AskDay(r) \/ WriteDay(r) \/ Changed(r) \/ AskCalendar(r)
      <4>1. Locking(job'[r]) = Absent BY <3>1, Unlocking
      <4> QED BY <1>1, <4>1
    <3>2. CASE BeginLock(r)
      <4>1. PICK m \in Months : Proceed(r, [stage |-> "locking", month |-> m])
        BY <3>2, CalendarSteps
      <4>2. job'[r] = [stage |-> "locking", month |-> m] BY <4>1, JobSteps DEF SetTypes
      <4>3. job'[r].stage = "locking" BY <4>2
      <4> QED BY <4>3 DEF BuiltClear
    <3>3. CASE CommitLock(r) \/ FailLock(r)
      <4>1. job'[r] = Absent BY <3>3, CalendarSteps, JobSteps DEF SetTypes
      <4> QED BY <1>1, <4>1 DEF Locking
    <3> QED BY <1>3, <3>1, <3>2, <3>3
  <2>3. CASE WriteDay(r)
    <3>1. (Steady /\ UNCHANGED lockedOver) \/ lockedOver' = lockedOver \cup BeingLocked
      BY <2>1, <2>3 DEF WriteDay, NoteChange, Disturbed, Steady
    <3> QED BY <2>1, <2>2, <3>1, BuiltKept
  <2>4. CASE ~WriteDay(r)
    <3>1. Steady
      BY <1>3, <2>1, <2>4
      DEF AskDay, Changed, AskCalendar, BeginLock, CommitLock, FailLock, Steady
    <3>2. CASE FailLock(r)
      <4>1. lockedOver' = lockedOver \ {job[r].month} BY <3>2 DEF FailLock
      <4>2. Locking(job[r]) = job[r].month /\ job[r].month \in Months
        BY <3>2, CalendarSteps, AbsentAssumption DEF Locking
      <4>3. \A o \in SetRequests \ {r} : Locking(job[o]) # job[r].month
        BY <4>2, AbsentAssumption DEF AloneInv
      <4> QED BY <2>1, <2>2, <3>1, <4>1, <4>3, BuiltKept
    <3>3. CASE ~FailLock(r)
      <4>1. lockedOver \subseteq lockedOver'
        BY <1>3, <2>4, <3>3 DEF AskDay, Changed, AskCalendar, BeginLock, CommitLock
      <4> QED BY <2>1, <2>2, <3>1, <4>1, BuiltKept
    <3> QED BY <3>2, <3>3
  <2> QED BY <2>3, <2>4
<1>4. ASSUME NEW r \in SetRequests, BuildLock(r) PROVE BuiltInv'
  <2>1. PICK m \in Months : m = job[r].month BY <1>4, CalendarSteps
  <2>2. /\ job'[r] = IF CalHit THEN Built(m, cal.value) ELSE Reading(m)
        /\ lockedOver' = IF sinceChange < RawTtl + CalTtl THEN lockedOver \cup {m} ELSE lockedOver
    BY <1>4, <2>1, CalendarSteps, JobSteps DEF BuildLock, SetTypes
  <2>3. Steady /\ Others(r) /\ Calendar' = Calendar /\ UNCHANGED <<overrides, sinceChange>>
    BY <1>4, Otherwise DEF CalendarStep, BuildLock, Steady, Calendar
  <2>4. /\ job'[r].stage \in {"built", "cal"} /\ job'[r].month = m /\ job'[r] # Absent
    BY <2>2, BuiltIs, ReadingIs, AbsentAssumption
  <2>5. ASSUME m \notin lockedOver'
        PROVE  /\ sinceChange' >= RawTtl + CalTtl
               /\ job'[r].stage = "cal" =>
                    job'[r].history = Stored'.history /\ job'[r].over = overrides'
               /\ job'[r].stage = "built" => job'[r].days = WorkingDates(m)'
    <3>1. sinceChange >= RawTtl + CalTtl BY <1>0, <2>2, <2>5
    <3>2. CASE CalHit
      <4>1. cal # Absent /\ cal.age < CalTtl /\ cal.age \in Nat
        BY <3>2 DEF CalHit, SetTypes
      <4>2. cal.value = Calendar
        <5>1. ~(sinceChange <= cal.age + Lag) BY <1>0, <3>1, <4>1 DEF Lag
        <5> QED BY <4>1, <5>1 DEF DatedInv, CalDated
      <4>3. job'[r].stage = "built" /\ job'[r].days = DatesOf(m, Calendar)
        BY <2>2, <3>2, <4>2, BuiltIs
      <4>4. WorkingDates(m)' = DatesOf(m, Calendar) BY <2>3 DEF WorkingDates, DatesOf
      <4> QED BY <2>3, <3>1, <4>3, <4>4
    <3>3. CASE ~CalHit
      <4>1. job'[r].stage = "cal" /\ job'[r].over = overrides BY <2>2, <3>3, ReadingIs
      <4>2. job'[r].history = Stored.history
        <5>1. CASE RawHit
          <6>1. raw # Absent /\ raw.age < RawTtl /\ raw.age \in Nat
            BY <5>1 DEF RawHit, SetTypes
          <6>2. raw.value.history = Stored.history
            BY <1>0, <3>1, <6>1 DEF DatedInv, RawDated, RowDated
          <6> QED BY <2>2, <3>3, <5>1, <6>2, ReadingIs
        <5>2. CASE ~RawHit BY <2>2, <3>3, <5>2, ReadingIs
        <5> QED BY <5>1, <5>2
      <4> QED BY <2>3, <3>1, <4>1, <4>2 DEF Steady
    <3> QED BY <3>2, <3>3
  <2>6. Locking(job'[r]) = m BY <2>4 DEF Locking
  <2>7. BuiltClear(job[r])' BY <2>4, <2>5, <2>6 DEF BuiltClear, Locking
  <2>8. lockedOver \subseteq lockedOver' BY <2>2
  <2> QED BY <2>3, <2>7, <2>8, BuiltKept
<1>5. ASSUME NEW r \in SetRequests, ReadCalendar(r) PROVE BuiltInv'
  <2>0. PICK q : q = job[r] OBVIOUS
  <2>1. /\ q \in Job /\ q.stage = "cal" /\ q.month \in Months \cup {Absent} /\ q # Absent
        /\ job'[r] = IF q.month = Absent THEN Absent ELSE Built(q.month, CalendarRead(q))
    BY <1>5, <2>0, CalendarSteps, JobTyped, JobSteps, AbsentAssumption DEF SetTypes
  <2>2. /\ Steady /\ Others(r) /\ Calendar' = Calendar
        /\ UNCHANGED <<overrides, sinceChange, lockedOver>>
    BY <1>5, Otherwise DEF CalendarStep, ReadCalendar, Steady, Calendar
  <2>3. CASE q.month = Absent
    <3>1. Locking(job'[r]) = Absent BY <2>1, <2>3 DEF Locking
    <3> QED BY <1>1, <2>2, <3>1, BuiltKept
  <2>4. CASE q.month \in Months
    <3>1. /\ job'[r].stage = "built" /\ job'[r].month = q.month /\ job'[r] # Absent
          /\ job'[r].days = DatesOf(q.month, CalendarRead(q))
      BY <2>1, <2>4, BuiltIs, AbsentAssumption
    <3>2. Locking(job'[r]) = q.month /\ Locking(q) = q.month BY <2>1, <3>1 DEF Locking
    <3>3. ASSUME q.month \notin lockedOver
          PROVE  sinceChange >= RawTtl + CalTtl /\ CalendarRead(q) = Calendar
      <4>1. /\ sinceChange >= RawTtl + CalTtl
            /\ q.history = Stored.history /\ q.over = overrides
        BY <2>0, <2>1, <2>4, <3>2, <3>3 DEF BuiltInv, BuiltClear
      <4> QED BY <4>1 DEF Calendar, CalendarRead
    <3>4. WorkingDates(q.month)' = DatesOf(q.month, Calendar)
      BY <2>2 DEF WorkingDates, DatesOf
    <3>5. BuiltClear(job[r])' BY <2>2, <3>1, <3>2, <3>3, <3>4 DEF BuiltClear, Locking
    <3> QED BY <2>2, <3>5, BuiltKept
  <2> QED BY <2>1, <2>3, <2>4
<1>6. CASE Tick
  <2>1. /\ UNCHANGED <<own, overrides, lockedOver>> /\ sinceChange' = Older(sinceChange)
    BY <1>6 DEF Tick
  <2>2. Stored' = Stored /\ Calendar' = Calendar BY <2>1 DEF Stored, Calendar
  <2> SUFFICES ASSUME NEW r \in SetRequests PROVE BuiltClear(job[r])'
    BY DEF BuiltInv
  <2>3. CASE job[r] = Absent
    <3>1. Locking(job'[r]) = Absent BY <1>6, <2>3, TickJobs DEF Locking
    <3> QED BY <1>1, <3>1
  <2>4. CASE job[r] # Absent
    <3>0. PICK q : q = job[r] OBVIOUS
    <3>1. q \in Job /\ job'[r] = Waited(q) /\ BuiltClear(q) /\ q # Absent
      BY <1>6, <2>4, <3>0, TickJobs DEF BuiltInv
    <3>2. /\ job'[r].stage = q.stage /\ job'[r] # Absent
          /\ q.stage # "fetched" /\ q.stage # "cal" => job'[r] = q
          /\ q.stage = "cal" => /\ job'[r].history = q.history /\ job'[r].over = q.over
                                /\ job'[r].month = q.month
      BY <3>1, WaitedJob, AbsentAssumption
    <3>3. Locking(job'[r]) = Locking(q)
      BY <3>1, <3>2 DEF Locking
    <3>4. sinceChange >= RawTtl + CalTtl => sinceChange' >= RawTtl + CalTtl
      BY <1>0, <2>1 DEF Older
    <3>5. \A m : WorkingDates(m)' = WorkingDates(m) BY <2>2 DEF WorkingDates, DatesOf
    <3> QED BY <2>1, <2>2, <3>1, <3>2, <3>3, <3>4, <3>5 DEF BuiltClear, Locking
  <2> QED BY <2>3, <2>4
<1>7. CASE UnlockMonth \/ UNCHANGED setVars
  <2>1. UNCHANGED <<own, overrides, job, sinceChange>> BY <1>7 DEF UnlockMonth, setVars
  <2>2. Stored' = Stored /\ Calendar' = Calendar BY <2>1 DEF Stored, Calendar
  <2>3. ASSUME NEW r \in SetRequests, Locking(job[r]) \in Months, Locking(job[r]) \in lockedOver
        PROVE  Locking(job[r]) \in lockedOver'
    <3>1. CASE UnlockMonth
      <4>1. PICK m \in Months : locked[m] # Absent /\ lockedOver' = lockedOver \ {m}
        BY <3>1 DEF UnlockMonth
      <4>2. Locking(job[r]) # m BY <2>3, <4>1, AbsentAssumption DEF AloneInv
      <4> QED BY <2>3, <4>1, <4>2
    <3>2. CASE UNCHANGED setVars BY <2>3, <3>2 DEF setVars
    <3> QED BY <1>7, <3>1, <3>2
  <2>4. \A m : WorkingDates(m)' = WorkingDates(m) BY <2>2 DEF WorkingDates, DatesOf
  <2> QED BY <2>1, <2>2, <2>3, <2>4 DEF BuiltInv, BuiltClear, Locking
<1> QED BY <1>2, <1>3, <1>4, <1>5, <1>6, <1>7 DEF SetNext, SetStep

(* A month that was locked with what the tables said and say.                 *)
Clean(m) == locked[m] # Absent /\ m \notin lockedOver

(* What is under way, read or cached leaves the dates of such a month as they *)
(* are: no change of theirs is asked for, and every history that may be       *)
(* written back has the same pattern there.                                   *)
HistorySame(history) ==
    \A d \in Dates : Clean(MonthOf(d)) =>
        PatternOn(history, d) = PatternOn(Stored.history, d)
DayClear(q) == q.stage = "day" => ~Clean(MonthOf(q.date))
PatternClear(q) ==
    q.stage \in {"asked", "fetched", "judged", "write"} /\ q.todo.kind = "pattern" =>
        \A m \in Months : m >= MonthOf(q.todo.from) => ~Clean(m)
PatchSame(q) ==
    q.stage \in {"judged", "write"} /\ q.todo.kind = "pattern" =>
        HistorySame(q.patch.history)
RowSame(q) ==
    /\ q.stage = "fetched" => HistorySame(q.value.history)
    /\ q.stage = "write" => HistorySame(q.base.history)
    /\ q.stage = "written" => HistorySame(q.value.history)
    /\ q.stage = "cal" /\ q.value # Absent /\ q.age < RawTtl => HistorySame(q.value.history)

Clear(q) == DayClear(q) /\ PatternClear(q) /\ PatchSame(q) /\ RowSame(q)
RawSame == RawHit => HistorySame(raw.value.history)
LockInv == /\ LockedMonthStands /\ RawSame
           /\ \A r \in SetRequests : job[r] # Absent => Clear(job[r])

(* A step that locks no more months, and leaves the dates of those that are   *)
(* locked alone.                                                              *)
Spares ==
    /\ \A m \in Months : Clean(m)' => Clean(m) /\ locked'[m] = locked[m]
    /\ \A d \in Dates : Clean(MonthOf(d))' =>
          /\ PatternOn(Stored'.history, d) = PatternOn(Stored.history, d)
          /\ overrides'[d] = overrides[d]

(* A history that agrees with the row on those dates agrees after such a step. *)
LEMMA SparedSame ==
  ASSUME Spares, NEW history, HistorySame(history)
  PROVE  \A d \in Dates : Clean(MonthOf(d))' =>
            PatternOn(history, d) = PatternOn(Stored'.history, d)
<1>1. \A d \in Dates : MonthOf(d) \in Months BY DEF Months
<1> QED BY <1>1 DEF Spares, HistorySame

(* A request that does nothing in such a step stays clear of the locked dates. *)
LEMMA SparedClear ==
  ASSUME Spares, NEW q \in Job, Clear(q), NEW r \in SetRequests, job'[r] = q
  PROVE  Clear(job[r])'
<1>1. DayClear(job[r])'
  <2>1. q.stage = "day" => MonthOf(q.date) \in Months BY JobTyped DEF Months
  <2> QED BY <2>1 DEF Clear, DayClear, Spares
<1>2. PatternClear(job[r])' BY DEF Clear, PatternClear, Spares
<1>3. PatchSame(job[r])' BY SparedSame DEF Clear, PatchSame, HistorySame
<1>4. RowSame(job[r])'
  <2>1. q.stage = "fetched" => HistorySame(job[r].value.history)'
    BY SparedSame DEF Clear, RowSame, HistorySame
  <2>2. q.stage = "write" => HistorySame(job[r].base.history)'
    BY SparedSame DEF Clear, RowSame, HistorySame
  <2>3. q.stage = "written" => HistorySame(job[r].value.history)'
    BY SparedSame DEF Clear, RowSame, HistorySame
  <2>4. q.stage = "cal" /\ q.value # Absent /\ q.age < RawTtl =>
          HistorySame(job[r].value.history)'
    BY SparedSame DEF Clear, RowSame, HistorySame
  <2> QED BY <2>1, <2>2, <2>3, <2>4 DEF RowSame
<1> QED BY <1>1, <1>2, <1>3, <1>4 DEF Clear

(* A step that leaves those dates alone keeps the locked months.              *)
LEMMA LockKept ==
  ASSUME SetTypes, LockInv, Spares, NEW r \in SetRequests, Others(r),
         job'[r] # Absent => Clear(job[r])', raw' = raw \/ RawSame'
  PROVE  LockInv'
<1>1. LockedMonthStands'
  <2> SUFFICES ASSUME NEW m \in Months, Clean(m)'
               PROVE  WorkingDates(m)' = locked'[m]
    BY DEF LockedMonthStands, Clean
  <2>1. \A d \in Dates : MonthOf(d) = m => Calendar'[d] = Calendar[d]
    BY DEF Calendar, IsWorkingDay, Spares
  <2>2. WorkingDates(m)' = WorkingDates(m) BY <2>1 DEF WorkingDates, DatesOf
  <2> QED BY <2>2 DEF LockInv, LockedMonthStands, Clean, Spares
<1>2. RawSame'
  <2> SUFFICES ASSUME raw' = raw PROVE RawSame' OBVIOUS
  <2> QED BY SparedSame DEF LockInv, RawSame, RawHit, HistorySame
<1>3. ASSUME NEW o \in SetRequests, job'[o] # Absent, o # r PROVE Clear(job[o])'
  <2>1. job'[o] = job[o] /\ job[o] \in Job /\ Clear(job[o])
    BY <1>3 DEF Others, LockInv, SetTypes
  <2> QED BY <2>1, SparedClear
<1> QED BY <1>1, <1>2, <1>3 DEF LockInv

(* A row somebody judges a pattern on has the patterns of the locked dates,   *)
(* and so has what is made of it (withPatternFrom).                           *)
LEMMA SectionSame ==
  ASSUME NEW u \in Updates, u.kind = "pattern", NEW row \in SettingsRow,
         HistorySame(row.history), \A m \in Months : m >= MonthOf(u.from) => ~Clean(m)
  PROVE  HistorySame(Section(u, row).history)
<1> SUFFICES ASSUME NEW d \in Dates, Clean(MonthOf(d))
             PROVE  PatternOn(Section(u, row).history, d) = PatternOn(Stored.history, d)
  BY DEF HistorySame
<1>1. Section(u, row).history = WithPatternFrom(row.history, u.from, u.works)
  BY DEF Section
<1>2. u.from \in Dates /\ row.history \in History BY DEF Updates, SettingsRow
<1>3. d < u.from
  <2>1. MonthOf(d) \in Months BY DEF Months
  <2> QED BY <1>2, <2>1, MonthsInOrder
<1> QED BY <1>1, <1>2, <1>3, PatternBefore DEF HistorySame

(* assertMonthOpen and its callers: no change that is under way touches a day *)
(* of a month that was locked before it was asked for, and every row that is  *)
(* written back, however old, holds those days as they were.                  *)
LEMMA LockStep ==
  ASSUME SetTypes, FullInv, AloneInv, DatedInv, BuiltInv, LockInv, [SetNext]_setVars
  PROVE  LockInv'
<1>0. HistorySame(Stored.history) BY DEF HistorySame
<1>1. ASSUME UNCHANGED <<own, overrides, locked, lockedOver>>
      PROVE  Spares /\ Stored' = Stored
  BY <1>1 DEF Spares, Clean, Stored
<1>2. ASSUME NEW r \in SetRequests, AskUpdate(r) PROVE LockInv'
  <2>1. PICK u \in Updates : /\ u.kind = "pattern" => PatternOpen(u.from)
                             /\ BeginJob(r, [stage |-> "asked", todo |-> u])
    BY <1>2 DEF AskUpdate
  <2>2. Others(r) /\ job'[r] = [stage |-> "asked", todo |-> u]
    BY <2>1, JobSteps DEF SetTypes, Others
  <2>3. job'[r].stage = "asked" /\ job'[r].todo = u BY <2>2
  <2>4. UNCHANGED <<own, overrides, locked, lockedOver, raw>> BY <1>2 DEF AskUpdate
  <2>5. Clear(job[r])'
    BY <2>1, <2>3, <2>4 DEF Clear, DayClear, PatternClear, PatchSame, RowSame, Clean,
       PatternOpen
  <2> QED BY <1>1, <2>2, <2>4, <2>5, LockKept
<1>3. ASSUME NEW r \in SetRequests, ReadSettings(r) \/ FetchedSettings(r) PROVE LockInv'
  <2>1. UNCHANGED <<own, overrides, locked, lockedOver>>
    BY <1>3 DEF ReadSettings, FetchedSettings
  <2>2. Spares /\ Stored' = Stored BY <1>1, <2>1
  <2>3. /\ job[r] # Absent /\ job[r].stage \in {"asked", "fetched"}
        /\ job[r].todo.kind = "pattern" =>
             \A m \in Months : m >= MonthOf(job[r].todo.from) => ~Clean(m)
        /\ job[r].stage = "fetched" => HistorySame(job[r].value.history)
    BY <1>3
    DEF ReadSettings, FetchedSettings, JobAt, LockInv, Clear, PatternClear, RowSame
  <2>4. ASSUME NEW u \in Updates, u = job[r].todo, NEW row \in SettingsRow, Judge(r, u, row),
               HistorySame(row.history), raw' = raw \/ RawSame'
        PROVE  LockInv'
    <3>1. /\ Others(r)
          /\ \/ job'[r] = Absent
             \/ /\ Section(u, row) # Absent
                /\ job'[r] = [stage |-> "judged", todo |-> u, patch |-> Section(u, row)]
      BY <2>4, Judged
    <3>2. CASE job'[r] = Absent BY <2>2, <2>4, <3>1, <3>2, LockKept
    <3>3. CASE job'[r] # Absent
      <4>1. /\ job'[r].stage = "judged" /\ job'[r].todo = u
            /\ job'[r].patch = Section(u, row)
        BY <3>1, <3>3
      <4>2. DayClear(job[r])' /\ RowSame(job[r])' BY <4>1 DEF DayClear, RowSame
      <4>3. PatternClear(job[r])'
        BY <2>1, <2>3, <2>4, <4>1 DEF PatternClear, Clean
      <4>4. PatchSame(job[r])'
        <5>1. CASE u.kind = "pattern"
          <6>1. HistorySame(Section(u, row).history) BY <2>3, <2>4, <5>1, SectionSame
          <6> QED BY <2>2, <4>1, <6>1, SparedSame DEF PatchSame, HistorySame
        <5>2. CASE u.kind # "pattern" BY <4>1, <5>2 DEF PatchSame
        <5> QED BY <5>1, <5>2
      <4>5. Clear(job[r])' BY <4>2, <4>3, <4>4 DEF Clear
      <4> QED BY <2>2, <2>4, <3>1, <4>5, LockKept
    <3> QED BY <3>2, <3>3
  <2>5. CASE ReadSettings(r) /\ RawHit
    <3>1. HistorySame(raw.value.history) /\ raw' = raw
      BY <2>5 DEF LockInv, RawSame, ReadSettings
    <3> QED BY <2>4, <2>5, <3>1, Judging
  <2>6. CASE ReadSettings(r) /\ ~RawHit
    <3>1. /\ Others(r)
          /\ job'[r] = [stage |-> "fetched", todo |-> job[r].todo, value |-> Stored, age |-> 0]
      BY <2>6, Judging
    <3>2. /\ job'[r].stage = "fetched" /\ job'[r].todo = job[r].todo
          /\ job'[r].value = Stored /\ raw' = raw
      BY <2>6, <3>1 DEF ReadSettings
    <3>3. Clear(job[r])'
      BY <2>1, <2>2, <2>3, <3>2
      DEF Clear, DayClear, PatternClear, PatchSame, RowSame, HistorySame, Clean
    <3> QED BY <2>2, <3>1, <3>2, <3>3, LockKept
  <2>7. CASE FetchedSettings(r)
    <3>1. HistorySame(job[r].value.history) BY <2>3, <2>7 DEF FetchedSettings, JobAt
    <3>2. raw' = [value |-> job[r].value, age |-> job[r].age]
      BY <2>7 DEF FetchedSettings, Cached
    <3>3. raw'.value = job[r].value BY <3>2
    <3>4. RawSame' BY <2>2, <3>1, <3>3, SparedSame DEF RawSame, HistorySame
    <3> QED BY <2>4, <2>7, <3>1, <3>4, Judging
  <2> QED BY <1>3, <2>5, <2>6, <2>7
<1>4. ASSUME NEW r \in SetRequests, ReadRow(r) PROVE LockInv'
  <2>1. /\ Others(r)
        /\ job'[r] = [stage |-> "write", todo |-> job[r].todo, patch |-> job[r].patch,
                      base |-> Stored]
    BY <1>4, JobSteps DEF ReadRow, SetTypes, Others
  <2>2. UNCHANGED <<own, overrides, locked, lockedOver, raw>> BY <1>4 DEF ReadRow
  <2>3. Spares /\ Stored' = Stored BY <1>1, <2>2
  <2>4. /\ job'[r].stage = "write" /\ job'[r].todo = job[r].todo
        /\ job'[r].patch = job[r].patch /\ job'[r].base = Stored
    BY <2>1
  <2>5. Clear(job[r]) /\ job[r].stage = "judged" BY <1>4 DEF ReadRow, JobAt, LockInv
  <2>6. PatchSame(job[r])'
    BY <2>3, <2>4, <2>5, SparedSame DEF Clear, PatchSame, HistorySame
  <2>7. RowSame(job[r])' BY <2>3, <2>4 DEF RowSame, HistorySame
  <2>8. DayClear(job[r])' /\ PatternClear(job[r])'
    BY <2>2, <2>4, <2>5 DEF Clear, DayClear, PatternClear, Clean
  <2>9. Clear(job[r])' BY <2>6, <2>7, <2>8 DEF Clear
  <2> QED BY <2>1, <2>2, <2>3, <2>9, LockKept
<1>5. ASSUME NEW r \in SetRequests, WriteRow(r) PROVE LockInv'
  <2>0. PICK q : q = job[r] OBVIOUS
  <2>1. /\ q.stage = "write" /\ q.todo \in Updates /\ Stored' = own' /\ Others(r)
        /\ own'.history = (IF q.todo.kind = "pattern" THEN q.patch.history ELSE q.base.history)
        /\ raw' = raw
        /\ job'[r].stage = "written" /\ job'[r].value = own'
    BY <1>5, <2>0, RowWritten
  <2>2. Clear(q) BY <1>5, <2>0 DEF WriteRow, JobAt, LockInv
  <2>3. HistorySame(own'.history) BY <2>1, <2>2 DEF Clear, PatchSame, RowSame
  <2>4. UNCHANGED <<overrides, locked>> /\ lockedOver \subseteq lockedOver'
    BY <1>5 DEF WriteRow, NoteChange, Disturbed
  <2>5. Spares BY <2>1, <2>3, <2>4 DEF Spares, Clean, HistorySame, Months
  <2>6. Clear(job[r])'
    BY <2>1 DEF Clear, DayClear, PatternClear, PatchSame, RowSame, HistorySame
  <2> QED BY <2>1, <2>5, <2>6, LockKept
<1>6. ASSUME NEW r \in SetRequests, CacheRow(r) PROVE LockInv'
  <2>0. PICK q : q = job[r] OBVIOUS
  <2>1. /\ Others(r) /\ raw' = [value |-> q.value, age |-> 0] /\ Stored' = Stored
        /\ UNCHANGED <<own, overrides, locked>> /\ q.stage = "written"
        /\ job'[r] = Absent \/ job'[r] = [stage |-> "changed"]
    BY <1>6, <2>0, RowCached
  <2>2. Disturbed(q.value.history # Stored.history) BY <1>6, <2>0 DEF CacheRow
  <2>3. lockedOver \subseteq lockedOver' BY <2>2 DEF Disturbed
  <2>4. Spares BY <2>1, <2>3 DEF Spares, Clean, Months
  <2>5. HistorySame(q.value.history)
    BY <1>6, <2>0, <2>1 DEF CacheRow, JobAt, LockInv, Clear, RowSame
  <2>6. raw'.value = q.value BY <2>1
  <2>7. RawSame' BY <2>4, <2>5, <2>6, SparedSame DEF RawSame, HistorySame
  <2>8. job'[r] # Absent => job'[r].stage = "changed" BY <2>1
  <2>9. job'[r] # Absent => Clear(job[r])'
    BY <2>8 DEF Clear, DayClear, PatternClear, PatchSame, RowSame
  <2> QED BY <2>1, <2>4, <2>7, <2>9, LockKept
<1>7. ASSUME NEW r \in SetRequests, AskDay(r) PROVE LockInv'
  <2>1. PICK d \in Dates, works \in DayMarks \cup {Absent} :
          DayOpen(d) /\ BeginJob(r, [stage |-> "day", date |-> d, works |-> works])
    BY <1>7 DEF AskDay
  <2>2. Others(r) /\ job'[r] = [stage |-> "day", date |-> d, works |-> works]
    BY <2>1, JobSteps DEF SetTypes, Others
  <2>3. job'[r].stage = "day" /\ job'[r].date = d BY <2>2
  <2>4. UNCHANGED <<own, overrides, locked, lockedOver, raw>> BY <1>7 DEF AskDay
  <2>5. Clear(job[r])'
    BY <2>1, <2>3, <2>4 DEF Clear, DayClear, PatternClear, PatchSame, RowSame, Clean, DayOpen
  <2> QED BY <1>1, <2>2, <2>4, <2>5, LockKept
<1>8. ASSUME NEW r \in SetRequests, WriteDay(r) PROVE LockInv'
  <2>1. /\ Others(r) /\ UNCHANGED <<own, locked, raw>> /\ job'[r] = [stage |-> "changed"]
        /\ lockedOver \subseteq lockedOver'
    BY <1>8, JobSteps DEF WriteDay, NoteChange, Disturbed, SetTypes, Others
  <2>2. job'[r].stage = "changed" BY <2>1
  <2>3. Clear(job[r])' BY <2>2 DEF Clear, DayClear, PatternClear, PatchSame, RowSame
  <2>4. ~Clean(MonthOf(job[r].date))
    BY <1>8 DEF WriteDay, JobAt, LockInv, Clear, DayClear
  <2>5. \A d \in Dates : d # job[r].date => overrides'[d] = overrides[d]
    BY <1>8 DEF WriteDay, SetTypes
  <2>6. Stored' = Stored BY <2>1 DEF Stored
  <2>7. Spares BY <2>1, <2>4, <2>5, <2>6 DEF Spares, Clean
  <2> QED BY <2>1, <2>3, <2>7, LockKept
<1>9. ASSUME NEW r \in SetRequests,
             Changed(r) \/ AskCalendar(r) \/ BeginLock(r) \/ BuildLock(r) \/ FailLock(r)
      PROVE  LockInv'
  <2>1. Others(r) /\ Stored' = Stored BY <1>9, Otherwise DEF CalendarStep
  <2>2. UNCHANGED <<overrides, locked, raw>>
    BY <1>9 DEF Changed, AskCalendar, BeginLock, BuildLock, FailLock
  <2>3. \A m \in Months : Clean(m)' => Clean(m)
    <3>1. CASE FailLock(r)
      <4>1. Locking(job[r]) = job[r].month /\ job[r].month \in Months
        BY <3>1, CalendarSteps, AbsentAssumption DEF Locking
      <4>2. locked[job[r].month] = Absent BY <4>1, AbsentAssumption DEF AloneInv
      <4> QED BY <3>1, <4>2 DEF FailLock, Clean
    <3>2. CASE ~FailLock(r)
      <4>1. lockedOver \subseteq lockedOver'
        BY <1>9, <3>2 DEF Changed, AskCalendar, BeginLock, BuildLock
      <4> QED BY <2>2, <4>1 DEF Clean
    <3> QED BY <3>1, <3>2
  <2>4. Spares BY <2>1, <2>2, <2>3 DEF Spares, Months
  <2>5. job'[r] # Absent => Clear(job[r])'
    <3>1. CASE Changed(r) \/ FailLock(r)
      BY <3>1, CalendarSteps, JobSteps DEF Changed, SetTypes
    <3>2. CASE BeginLock(r)
      <4>1. PICK m \in Months : Proceed(r, [stage |-> "locking", month |-> m])
        BY <3>2, CalendarSteps
      <4>2. job'[r] = [stage |-> "locking", month |-> m] BY <4>1, JobSteps DEF SetTypes
      <4>3. job'[r].stage = "locking" BY <4>2
      <4> QED BY <4>3 DEF Clear, DayClear, PatternClear, PatchSame, RowSame
    <3>3. ASSUME NEW m \in Months \cup {Absent}, job'[r] = Reading(m) PROVE Clear(job[r])'
      <4>1. job'[r].stage = "cal" /\ job'[r].value \in {Stored, Absent}
        BY <3>3, ReadingIs
      <4> QED BY <2>1, <4>1
          DEF Clear, DayClear, PatternClear, PatchSame, RowSame, HistorySame
    <3>4. ASSUME NEW m \in Months, job'[r] = Built(m, cal.value) PROVE Clear(job[r])'
      <4>1. job'[r].stage = "built" BY <3>4, BuiltIs
      <4> QED BY <4>1 DEF Clear, DayClear, PatternClear, PatchSame, RowSame
    <3>5. CASE AskCalendar(r) BY <3>3, <3>5, CalendarSteps, JobSteps DEF SetTypes
    <3>6. CASE BuildLock(r) BY <3>3, <3>4, <3>6, CalendarSteps, JobSteps DEF SetTypes
    <3> QED BY <1>9, <3>1, <3>2, <3>5, <3>6
  <2> QED BY <2>1, <2>2, <2>4, <2>5, LockKept
<1>10. ASSUME NEW r \in SetRequests, ReadCalendar(r) PROVE LockInv'
  <2>0. PICK q : q = job[r] OBVIOUS
  <2>1. Others(r) BY <1>10, Otherwise DEF CalendarStep
  <2>2. UNCHANGED <<own, overrides, locked, lockedOver>> BY <1>10 DEF ReadCalendar
  <2>3. Spares /\ Stored' = Stored BY <1>1, <2>2
  <2>4. RowSame(q) /\ q.stage = "cal"
    BY <1>10, <2>0 DEF ReadCalendar, JobAt, LockInv, Clear
  <2>5. raw' = raw \/ RawSame'
    <3>1. CASE q.value = Absent BY <1>10, <2>0, <3>1 DEF ReadCalendar
    <3>2. CASE q.value # Absent
      <4>1. raw' = [value |-> q.value, age |-> q.age]
        BY <1>10, <2>0, <3>2 DEF ReadCalendar, Cached
      <4>2. raw'.value = q.value /\ raw'.age = q.age BY <4>1
      <4>3. RawHit' => HistorySame(q.value.history)
        BY <2>4, <3>2, <4>2 DEF RawHit, RowSame
      <4> QED BY <2>3, <4>2, <4>3, SparedSame DEF RawSame, HistorySame
    <3> QED BY <3>1, <3>2
  <2>6. job'[r] # Absent => job'[r].stage = "built"
    <3>1. q.month \in Months \cup {Absent} BY <1>10, <2>0, CalendarSteps, JobTyped
    <3>2. job'[r] = IF q.month = Absent THEN Absent ELSE Built(q.month, CalendarRead(q))
      BY <1>10, <2>0, CalendarSteps, JobSteps DEF SetTypes
    <3> QED BY <3>1, <3>2, BuiltIs
  <2>7. job'[r] # Absent => Clear(job[r])'
    BY <2>6 DEF Clear, DayClear, PatternClear, PatchSame, RowSame
  <2> QED BY <2>1, <2>3, <2>5, <2>7, LockKept
<1>11. ASSUME NEW r \in SetRequests, CommitLock(r) PROVE LockInv'
  <2>1. PICK m \in Months : m = job[r].month BY <1>11, CalendarSteps
  <2>2. /\ Others(r) /\ Stored' = Stored /\ job'[r] = Absent
        /\ UNCHANGED <<overrides, raw, sinceChange>> /\ Calendar' = Calendar
    BY <1>11, Otherwise, CalendarSteps, JobSteps
    DEF CalendarStep, CommitLock, Calendar, SetTypes
  <2>3. /\ locked' = [locked EXCEPT ![m] = job[r].days]
        /\ lockedOver' = IF UnderWay THEN lockedOver \cup {m} ELSE lockedOver
    BY <1>11, <2>1 DEF CommitLock
  <2>4. locked'[m] = job[r].days /\ \A n \in Months \ {m} : locked'[n] = locked[n]
    BY <2>3 DEF SetTypes
  <2>5. \A n \in Months : WorkingDates(n)' = WorkingDates(n)
    BY <2>2 DEF WorkingDates, DatesOf
  <2>6. CASE UnderWay \/ m \in lockedOver
    <3>1. \A n \in Months : Clean(n)' => Clean(n) /\ locked'[n] = locked[n]
      BY <2>3, <2>4, <2>6 DEF Clean
    <3>2. Spares BY <2>2, <3>1 DEF Spares, Months
    <3> QED BY <2>2, <3>2, LockKept
  <2>7. CASE ~UnderWay /\ m \notin lockedOver
    <3>1. Locking(job[r]) = m /\ job[r].stage = "built"
      BY <1>11, <2>1, CalendarSteps, AbsentAssumption DEF Locking
    <3>2. sinceChange >= RawTtl + CalTtl /\ job[r].days = WorkingDates(m)
      BY <2>1, <2>7, <3>1 DEF BuiltInv, BuiltClear
    <3>3. LockedMonthStands'
      BY <2>3, <2>4, <2>5, <2>7, <3>2 DEF LockInv, LockedMonthStands
    <3>4. sinceChange \in Nat /\ RawTtl \in Nat /\ CalTtl \in Nat
      BY TtlAssumption DEF SetTypes
    <3>5. RawSame'
      <4> SUFFICES ASSUME RawHit PROVE raw.value.history = Stored.history
        BY <2>2 DEF RawSame, RawHit, HistorySame
      <4>1. raw # Absent /\ raw.age < RawTtl /\ raw.age \in Nat BY DEF RawHit, SetTypes
      <4> QED BY <3>2, <3>4, <4>1 DEF DatedInv, RawDated, RowDated
    <3>6. ASSUME NEW o \in SetRequests, job'[o] # Absent PROVE Clear(job[o])'
      <4>1. job'[o] = job[o] /\ job[o] \in Job BY <2>2, <3>6 DEF Others, SetTypes
      <4>2. job[o].stage \in {"locking", "cal", "built"}
        BY <2>7, <3>6, <4>1 DEF UnderWay
      <4>3. ASSUME job[o].stage = "cal", job[o].value # Absent, job[o].age < RawTtl
            PROVE  job[o].value.history = Stored.history
        <5>1. RowDated(job[o].value, job[o].age) /\ job[o].age \in Nat
          BY <3>6, <4>1, <4>3, JobTyped DEF DatedInv, JobDated
        <5> QED BY <3>2, <3>4, <4>3, <5>1 DEF RowDated
      <4> QED BY <2>2, <4>1, <4>2, <4>3
          DEF Clear, DayClear, PatternClear, PatchSame, RowSame, HistorySame
    <3> QED BY <3>3, <3>5, <3>6 DEF LockInv
  <2> QED BY <2>6, <2>7
<1>12. CASE Tick
  <2>1. UNCHANGED <<own, overrides, locked, lockedOver>> BY <1>12 DEF Tick
  <2>2. Spares /\ Stored' = Stored BY <1>1, <2>1
  <2>3. ASSUME NEW r \in SetRequests, job'[r] # Absent PROVE Clear(job[r])'
    <3>0. PICK q : q = job[r] OBVIOUS
    <3>1. q \in Job /\ job'[r] = Waited(q) /\ Clear(q)
      BY <1>12, <2>3, <3>0, TickJobs DEF LockInv
    <3>2. CASE q.stage \notin {"fetched", "cal"}
      <4>1. job'[r] = q BY <3>1, <3>2, WaitedJob
      <4> QED BY <2>2, <3>1, <4>1, SparedClear
    <3>3. CASE q.stage = "fetched"
      <4>1. job'[r].stage = "fetched" /\ job'[r].todo = q.todo /\ job'[r].value = q.value
        BY <3>1, <3>3, WaitedJob
      <4>2. HistorySame(q.value.history) BY <3>1, <3>3 DEF Clear, RowSame
      <4>3. RowSame(job[r])' BY <2>2, <4>1, <4>2, SparedSame DEF RowSame, HistorySame
      <4>4. PatternClear(job[r])'
        BY <2>1, <3>1, <3>3, <4>1 DEF Clear, PatternClear, Clean
      <4> QED BY <4>1, <4>3, <4>4 DEF Clear, DayClear, PatchSame
    <3>4. CASE q.stage = "cal"
      <4>1. /\ job'[r].stage = "cal" /\ job'[r].value = q.value
            /\ job'[r].age = Older(q.age) /\ q.age \in Nat
        BY <3>1, <3>4, WaitedJob, JobTyped
      <4>2. job'[r].age < RawTtl => q.age < RawTtl BY <4>1, TtlAssumption DEF Older
      <4>3. q.value # Absent /\ q.age < RawTtl => HistorySame(q.value.history)
        BY <3>1, <3>4 DEF Clear, RowSame
      <4>4. RowSame(job[r])'
        BY <2>2, <4>1, <4>2, <4>3, SparedSame DEF RowSame, HistorySame
      <4> QED BY <4>1, <4>4 DEF Clear, DayClear, PatternClear, PatchSame
    <3> QED BY <3>2, <3>3, <3>4
  <2>4. RawSame'
    <3> SUFFICES ASSUME RawHit' PROVE HistorySame(raw.value.history)'
      BY DEF RawSame
    <3>1. raw # Absent /\ raw' = [raw EXCEPT !.age = @ + 1] BY <1>12 DEF Tick, Aged, RawHit
    <3>2. raw'.value = raw.value /\ raw'.age = raw.age + 1 /\ raw.age \in Nat
      BY <3>1 DEF SetTypes
    <3>3. raw'.age < RawTtl BY DEF RawHit
    <3>4. RawHit BY <3>1, <3>2, <3>3, TtlAssumption DEF RawHit
    <3>5. HistorySame(raw.value.history) BY <3>4 DEF LockInv, RawSame
    <3> QED BY <2>2, <3>2, <3>5, SparedSame DEF HistorySame
  <2>5. LockedMonthStands'
    <3>1. \A m \in Months : WorkingDates(m)' = WorkingDates(m)
      BY <2>1, <2>2 DEF WorkingDates, DatesOf, Calendar
    <3> QED BY <2>1, <3>1 DEF LockInv, LockedMonthStands
  <2> QED BY <2>3, <2>4, <2>5 DEF LockInv
<1>13. CASE UnlockMonth \/ UNCHANGED setVars
  <2>1. UNCHANGED <<own, overrides, raw, job>> BY <1>13 DEF UnlockMonth, setVars
  <2>2. Stored' = Stored BY <2>1 DEF Stored
  <2>3. \A m \in Months : Clean(m)' => Clean(m) /\ locked'[m] = locked[m]
    <3>1. CASE UnlockMonth
      <4>1. PICK m \in Months : /\ locked' = [locked EXCEPT ![m] = Absent]
                                /\ lockedOver' = lockedOver \ {m}
        BY <3>1 DEF UnlockMonth
      <4> QED BY <4>1 DEF Clean, SetTypes
    <3>2. CASE UNCHANGED setVars BY <3>2 DEF Clean, setVars
    <3> QED BY <1>13, <3>1, <3>2
  <2>4. Spares BY <2>1, <2>2, <2>3 DEF Spares, Months
  <2>5. ASSUME NEW r \in SetRequests, job'[r] # Absent PROVE Clear(job[r])'
    <3>1. job'[r] = job[r] /\ job[r] \in Job /\ Clear(job[r])
      BY <2>1, <2>5 DEF LockInv, SetTypes
    <3> QED BY <2>4, <3>1, SparedClear
  <2>6. RawSame'
    BY <2>1, <2>4, SparedSame DEF LockInv, RawSame, RawHit, HistorySame
  <2>7. LockedMonthStands'
    <3>1. \A m \in Months : WorkingDates(m)' = WorkingDates(m)
      BY <2>1, <2>2 DEF WorkingDates, DatesOf, Calendar
    <3> QED BY <2>3, <3>1 DEF LockInv, LockedMonthStands, Clean
  <2> QED BY <2>5, <2>6, <2>7 DEF LockInv
<1> QED
  BY <1>2, <1>3, <1>4, <1>5, <1>6, <1>7, <1>8, <1>9, <1>10, <1>11, <1>12, <1>13
  DEF SetNext, SetStep

-----------------------------------------------------------------------------
(* Settings: the theorems *)

SettingsInv == /\ SetTypes /\ FullInv /\ QueueInv /\ DeptsInv /\ DatedInv
               /\ AloneInv /\ BuiltInv /\ LockInv

(* The inductive invariant of the settings: types, day classes, the queue,    *)
(* the departments, the dates of what is cached, who is locking a month with  *)
(* what, and the locked months.                                               *)
LEMMA SettingsInvHolds == SetSpec => []SettingsInv
<1>1. ASSUME SetInit PROVE SettingsInv
  <2>1. SetTypes BY <1>1, SetTypesInit
  <2>2. \A r \in SetRequests : job[r] = Absent BY <1>1 DEF SetInit
  <2>3. Stored = SharedRow BY <1>1 DEF SetInit, Stored
  <2>4. FullInv BY <1>1, <2>2 DEF SetInit, FullInv, FullAboveHalf
  <2>5. QueueInv BY <1>1, <2>2 DEF SetInit, QueueInv, IdleJob
  <2>6. DeptsInv BY <1>1, <2>2, <2>3 DEF SetInit, DeptsInv, CachedDepts, IdleJob
  <2>7. LockInv
    BY <1>1, <2>2 DEF SetInit, LockInv, LockedMonthStands, RawSame, RawHit
  <2>8. DatedInv BY <1>1, <2>2 DEF SetInit, DatedInv, RawDated, CalDated
  <2>9. \A r \in SetRequests : Locking(job[r]) = Absent BY <2>2 DEF Locking
  <2>10. AloneInv BY <2>9 DEF AloneInv
  <2>11. BuiltInv BY <2>9, AbsentAssumption DEF BuiltInv, BuiltClear
  <2> QED BY <2>1, <2>4, <2>5, <2>6, <2>7, <2>8, <2>10, <2>11 DEF SettingsInv
<1>2. SettingsInv /\ [SetNext]_setVars => SettingsInv'
  BY SetTypesStep, FullStep, QueueStep, DeptsStep, DatedStep, AloneStep, BuiltStep, LockStep
  DEF SettingsInv
<1> QED BY <1>1, <1>2, PTL DEF SetSpec

(* The day classes keep their order whatever meets, and departments keep      *)
(* their edits as long as no older row is written back or cached              *)
(* (settings.service.ts: writeRaw, update, serial).                           *)
THEOREM SettingsHold == SetSpec => []SettingsStand
<1>1. SettingsInv => SettingsStand
  BY DEF SettingsInv, FullInv, DeptsInv, SettingsStand, DepartmentEditsKeep
<1> QED BY <1>1, SettingsInvHolds, PTL

(* A month locked for payroll keeps the working dates of its snapshot,        *)
(* whatever is read, written back and cached, unless they were read within    *)
(* both caches' times of a change, or a change came or was under way between  *)
(* that and the lock (prisma-report.store.ts: lockMonthExclusive;             *)
(* calendar.service.ts: forOrg, assertMonthOpen).                             *)
THEOREM MonthsHold == SetSpec => []LockedMonthStands
<1>1. SettingsInv => LockedMonthStands BY DEF SettingsInv, LockInv
<1> QED BY <1>1, SettingsInvHolds, PTL

(* A cached calendar that is used is less than both caches' times behind the  *)
(* last change of its tables, or behind the last answer to a write that came  *)
(* when the row had been overwritten (app-settings.service.ts: writeRaw;      *)
(* calendar.service.ts: forOrg).                                              *)
THEOREM CalendarHolds == SetSpec => []CalendarCatchesUp
<1>1. ASSUME SettingsInv, CalHit, cal.value # Calendar PROVE sinceChange < RawTtl + CalTtl
  <2>1. cal # Absent /\ cal.age < CalTtl BY <1>1 DEF CalHit
  <2>2. sinceChange <= cal.age + Lag BY <1>1, <2>1 DEF SettingsInv, DatedInv, CalDated
  <2>3. cal.age \in Nat /\ sinceChange \in Nat
    BY <1>1, <2>1, TtlAssumption DEF SettingsInv, SetTypes
  <2> QED BY <2>1, <2>2, <2>3, TtlAssumption DEF Lag
<1>2. SettingsInv => CalendarCatchesUp BY <1>1 DEF CalendarCatchesUp
<1> QED BY <1>2, SettingsInvHolds, PTL
=============================================================================
