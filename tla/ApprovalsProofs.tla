-------------------------- MODULE ApprovalsProofs --------------------------
(***************************************************************************)
(* Approvals implements the month register, for every set of items,        *)
(* people, approvers and requests.                                         *)
(*                                                                         *)
(* The invariant ties what a request remembers to the rows: the copy it    *)
(* judged names the owner of the row it will write, and a request that is  *)
(* about to write an item of a member holds the month's shared lock.  So   *)
(* whatever lockMonth has counted stays counted until it commits.          *)
(***************************************************************************)
EXTENDS Approvals, TLAPS

USE DEF Exists, Waits, IsDecided, Exclusive

(* A row of a member was recorded in his organisation. *)
AtHome == \A i \in Items :
  (Exists(i) /\ items[i].owner \in Members) => items[i].home

(* What a request in flight remembers. *)
Remembers(q) ==
  /\ q.op # "create" => /\ items[q.item] # None
                        /\ Exists(q.item) => items[q.item].owner = q.row.owner
  /\ q.op = "create" => q.row.status = "PENDING" /\ q.row.by = None
  /\ q.op = "decide" => q.me \in Approvers
  /\ q.row.owner \in Members => q.row.home
  /\ (q.pc = "commit" /\ q.op # "end" /\ q.row.owner \in Members) => q.locks
RequestsRemember == \A r \in Slots : requests[r] # None => Remembers(requests[r])

(* The month is open as long as a lockMonth that counted has not committed. *)
OpenWhileLocking == locker.pc \in {"build", "commit"} => monthLock = None

(* The rows, the requests and the two locks, without what the register says. *)
Base == /\ TypeOK
        /\ Members \subseteq joined
        /\ AtHome
        /\ RequestsRemember
        /\ Exclusive => Shared = {}
        /\ OpenWhileLocking

ApprovalsInv == Base /\ LockerIsAlone

-----------------------------------------------------------------------------
(* Decisions of one item *)

Told(row) == IF row \notin {None, Deleted} /\ row.owner \in Members
             THEN [status |-> row.status, by |-> row.by] ELSE None

(* The register reads each row on its own. *)
LEMMA DecisionsOf ==
  /\ Decisions = [i \in Items |-> Told(items[i])]
  /\ Decisions' = [i \in Items |-> Told(items'[i])]
BY DEF Decisions, Told

(* A decision told of a row is not "no row". *)
LEMMA ToldIsSomething ==
  ASSUME NEW row \in Item, row.owner \in Members
  PROVE  /\ Told(row) = [status |-> row.status, by |-> row.by]
         /\ Told(row) # None
         /\ Told(row).status = row.status
BY NoneIsNoRow DEF Told, Item

(* Writing a row is a step of that item alone. *)
LEMMA WriteTells ==
  ASSUME TypeOK, NEW i \in Items, NEW row, Write(i, row)
  PROVE  Decisions' = [Decisions EXCEPT ![i] = Told(row)]
<1>1. \A j \in Items : items'[j] = IF j = i THEN row ELSE items[j]
  BY DEF Write, TypeOK
<1> QED
  BY <1>1, DecisionsOf

LEMMA InsertTells ==
  ASSUME NEW i \in Items, NEW row, NEW gone \in SUBSET Items, Insert(i, row, gone)
  PROVE  Decisions' = [j \in Items |-> IF j = i THEN Told(row)
                                       ELSE IF j \in gone THEN None ELSE Decisions[j]]
<1>1. \A j \in Items : items'[j] = IF j = i THEN row
                                   ELSE IF j \in gone THEN Deleted ELSE items[j]
  BY DEF Insert
<1>2. Told(Deleted) = None
  BY DEF Told
<1> QED
  BY <1>1, <1>2, DecisionsOf

(* Nothing changes in the register when the rows stay. *)
LEMMA SameRows == ASSUME UNCHANGED items PROVE Decisions' = Decisions
BY DecisionsOf

-----------------------------------------------------------------------------
(* Rows: a row keeps its owner, and a deleted one never comes back. *)

RowsStay == \A i \in Items : items[i] # None =>
  /\ items'[i] # None
  /\ items'[i] # Deleted => /\ items[i] # Deleted
                            /\ items'[i].owner = items[i].owner
RowsGo == /\ items' \in [Items -> Item \cup {None, Deleted}]
          /\ AtHome'
          /\ RowsStay

LEMMA SameGo == ASSUME TypeOK, AtHome, UNCHANGED items PROVE RowsGo
BY DEF TypeOK, AtHome, RowsStay, RowsGo

(* A row is changed in place, but for its owner and its home. *)
LEMMA WriteGoes ==
  ASSUME TypeOK, AtHome, NEW i \in Items, Exists(i), NEW row \in Item, Write(i, row),
         row.owner = items[i].owner, row.home = items[i].home
  PROVE  RowsGo
<1>1. items' \in [Items -> Item \cup {None, Deleted}]
  BY DEF Write, TypeOK
<1>2. \A j \in Items : items'[j] = IF j = i THEN row ELSE items[j]
  BY DEF Write, TypeOK
<1>3. AtHome'
  BY <1>2 DEF AtHome
<1>4. RowsStay
  BY <1>2, NoneIsNoRow DEF RowsStay
<1> QED
  BY <1>1, <1>3, <1>4 DEF RowsGo

LEMMA DeleteGoes ==
  ASSUME TypeOK, AtHome, NEW i \in Items, Write(i, Deleted)
  PROVE  RowsGo
<1>1. items' \in [Items -> Item \cup {None, Deleted}]
  BY DEF Write, TypeOK
<1>2. \A j \in Items : items'[j] = IF j = i THEN Deleted ELSE items[j]
  BY DEF Write, TypeOK
<1>3. AtHome'
  BY <1>2 DEF AtHome
<1>4. RowsStay
  BY <1>2, NoneIsNoRow DEF RowsStay
<1> QED
  BY <1>1, <1>3, <1>4 DEF RowsGo

(* A new row takes a free id and removes rows of its own person. *)
LEMMA InsertGoes ==
  ASSUME TypeOK, AtHome, NEW i \in Items, items[i] = None, NEW row \in Item,
         row.owner \in Members => row.home,
         NEW gone \in GiveWay(row), Insert(i, row, gone)
  PROVE  /\ RowsGo
         /\ gone \subseteq {j \in Items : Exists(j) /\ items[j].owner = row.owner}
         /\ i \notin gone
<1>1. gone \subseteq {j \in Items : Exists(j) /\ items[j].owner = row.owner}
  BY DEF GiveWay, Skips
<1>2. items' \in [Items -> Item \cup {None, Deleted}]
  BY DEF Insert, TypeOK
<1>3. \A j \in Items : items'[j] = IF j = i THEN row
                                   ELSE IF j \in gone THEN Deleted ELSE items[j]
  BY DEF Insert
<1>4. AtHome'
  BY <1>3 DEF AtHome
<1>5. RowsStay
  BY <1>1, <1>3, NoneIsNoRow DEF RowsStay
<1> QED
  BY <1>1, <1>2, <1>4, <1>5 DEF RowsGo

(* A new item is one of its person, at home when he is a member. *)
LEMMA NewItemType ==
  ASSUME Members \subseteq joined, NEW k \in Kinds, NEW p \in People,
         NEW status \in Statuses
  PROVE  /\ NewItem(k, p, status) \in Item
         /\ NewItem(k, p, status).owner = p
         /\ NewItem(k, p, status).status = status
         /\ NewItem(k, p, status).by = None
         /\ p \in Members => NewItem(k, p, status).home
<1>1. \A home \in BOOLEAN, running \in BOOLEAN :
        [kind |-> k, owner |-> p, home |-> home, status |-> status,
         by |-> None, running |-> running, asked |-> FALSE] \in Item
  BY PeopleAssumption DEF Item
<1>2. (p \in joined) \in BOOLEAN /\ (k \in {"BREAK", "MEETING"}) \in BOOLEAN
  OBVIOUS
<1>3. NewItem(k, p, status) \in Item
  BY <1>1, <1>2, Zenon DEF NewItem
<1> QED
  BY <1>3 DEF NewItem

(* The changes a row goes through. *)
LEMMA Changes ==
  ASSUME NEW row \in Item
  PROVE  /\ [row EXCEPT !.running = FALSE] \in Item
         /\ Discard(row) \in Item
         /\ [row EXCEPT !.status = "PENDING", !.by = None] \in Item
         /\ \A a \in Approvers, verdict \in Decided :
              [row EXCEPT !.status = verdict, !.by = a] \in Item
         /\ \A by \in Approvers \cup {None} :
              [row EXCEPT !.asked = TRUE, !.status = "PENDING", !.by = by] \in Item
BY DEF Item, Discard, Statuses, Decided

-----------------------------------------------------------------------------
(* Requests: each goes on to remember the owner of its row. *)

RequestsGo == requests' \in [Slots -> Request \cup {None}] /\ RequestsRemember'

LEMMA OthersRemember ==
  ASSUME TypeOK, RowsStay, RequestsRemember,
         NEW r \in Slots, requests[r] # None, requests'[r] = requests[r]
  PROVE  Remembers(requests[r])'
<1>1. requests[r] \in Request /\ Remembers(requests[r])
  BY DEF TypeOK, RequestsRemember
<1>2. requests[r].item \in Items
  BY <1>1 DEF Request
<1> QED
  BY <1>1, <1>2, NoneIsNoRow DEF Remembers, RowsStay

LEMMA SameRemember ==
  ASSUME TypeOK, RowsStay, RequestsRemember, UNCHANGED requests
  PROVE  RequestsGo /\ Shared' = Shared
BY OthersRemember DEF RequestsGo, RequestsRemember, TypeOK, Shared

(* A request that writes an existing row has read that row. *)
LEMMA ReceiveGoes ==
  ASSUME TypeOK, RowsStay, RequestsRemember,
         NEW r \in Slots, NEW op \in {"create", "decide", "reopen", "finish", "end", "heal"},
         NEW i \in Items, NEW row \in Item, NEW verdict \in Decided,
         NEW me \in Approvers \cup {None}, Receive(r, op, i, row, verdict, me),
         op # "create" => Exists(i) /\ row.owner = items[i].owner,
         op = "create" => row.status = "PENDING" /\ row.by = None,
         op = "decide" => me \in Approvers,
         row.owner \in Members => row.home
  PROVE  RequestsGo /\ Shared' = Shared
<1> DEFINE q == [op |-> op, pc |-> IF op = "heal" THEN "discard" ELSE "begin",
                 item |-> i, row |-> row, verdict |-> verdict, me |-> me,
                 locks |-> FALSE]
<1>1. q \in Request
  BY DEF Request
<1>2. /\ requests' = [requests EXCEPT ![r] = q]
      /\ requests \in [Slots -> Request \cup {None}] /\ requests[r] = None
  BY DEF Receive, TypeOK
<1>3. requests' \in [Slots -> Request \cup {None}]
  BY <1>1, <1>2
<1>4. requests'[r] = q /\ \A s \in Slots \ {r} : requests'[s] = requests[s]
  BY <1>2
<1>5. Remembers(requests[r])'
  BY <1>4, NoneIsNoRow DEF Remembers, RowsStay
<1>6. RequestsRemember'
  BY <1>4, <1>5, OthersRemember DEF RequestsRemember
<1>7. Shared' = Shared
  BY <1>2, <1>4 DEF Shared
<1> QED
  BY <1>3, <1>6, <1>7 DEF RequestsGo

LEMMA DoneGoes ==
  ASSUME TypeOK, RowsStay, RequestsRemember, NEW r \in Slots, Done(r)
  PROVE  RequestsGo /\ Shared' \subseteq Shared
<1>1. requests' = [requests EXCEPT ![r] = None] /\ requests' \in [Slots -> Request \cup {None}]
  BY DEF Done, TypeOK
<1>2. requests'[r] = None /\ \A s \in Slots \ {r} : requests'[s] = requests[s]
  BY <1>1 DEF TypeOK
<1>3. RequestsRemember'
  BY <1>2, OthersRemember DEF RequestsRemember
<1> QED
  BY <1>1, <1>2, <1>3 DEF RequestsGo, Shared

(* The month lock a request takes is not held by a lockMonth. *)
LEMMA BeginGoes ==
  ASSUME TypeOK, RowsStay, RequestsRemember, Members \subseteq joined,
         Exclusive => Shared = {}, NEW r \in Slots, Begin(r)
  PROVE  RequestsGo /\ (Exclusive => Shared' = {})
<1> DEFINE q == requests[r]
<1>1. q \in Request /\ Remembers(q) /\ q.pc = "begin"
  BY DEF Begin, TypeOK, RequestsRemember
<1>2. TakesLock(q) \in BOOLEAN
  BY DEF TakesLock
<1>3. [q EXCEPT !.pc = "commit", !.locks = TakesLock(q)] \in Request
  <2>1. \A b \in BOOLEAN : [q EXCEPT !.pc = "commit", !.locks = b] \in Request
    BY <1>1 DEF Request
  <2> QED
    BY <1>2, <2>1
<1>4. /\ requests' \in [Slots -> Request \cup {None}]
      /\ requests'[r] = [q EXCEPT !.pc = "commit", !.locks = TakesLock(q)]
      /\ \A s \in Slots \ {r} : requests'[s] = requests[s]
  BY <1>3 DEF Begin, TypeOK
<1>5. Remembers(requests[r])'
  <2>1. /\ requests'[r].pc = "commit" /\ requests'[r].locks = TakesLock(q)
        /\ requests'[r].op = q.op /\ requests'[r].item = q.item
        /\ requests'[r].row = q.row /\ requests'[r].me = q.me
    BY <1>1, <1>4 DEF Request
  <2>2. q.op # "end" /\ q.row.owner \in Members => TakesLock(q)
    BY DEF TakesLock
  <2>3. q.item \in Items
    BY <1>1 DEF Request
  <2> QED
    BY <1>1, <2>1, <2>2, <2>3, NoneIsNoRow DEF Remembers, RowsStay
<1>6. RequestsRemember'
  BY <1>4, <1>5, OthersRemember DEF RequestsRemember
<1>7. Exclusive => Shared' = {}
  <2> SUFFICES ASSUME Exclusive PROVE Shared' = {}
    OBVIOUS
  <2>1. ~TakesLock(q)
    BY DEF Begin
  <2>2. ~requests'[r].locks
    BY <1>1, <1>4, <2>1 DEF Request
  <2> QED
    BY <1>4, <2>2 DEF Shared
<1> QED
  BY <1>4, <1>6, <1>7 DEF RequestsGo

-----------------------------------------------------------------------------
(* Each step of the rows is a step of the register, and one that asks or     *)
(* decides only happens while nobody locks the month.                        *)

QuietStep ==
  \/ UNCHANGED Decisions
  \/ \E i \in Items : \/ \E gone \in SUBSET Items : Register!Noted(i, gone)
                      \/ Register!Discarded(i) \/ Register!Gone(i)
BusyStep ==
  /\ ~Exclusive
  /\ \E i \in Items :
       \/ \E gone \in SUBSET Items : Register!Asked(i, gone)
       \/ \E a \in Approvers, verdict \in Decided : Register!DecidedBy(i, a, verdict)

Handled == /\ RowsGo /\ RequestsGo
           /\ Exclusive => Shared' = {}
           /\ UNCHANGED <<joined, locker, monthLock>>
           /\ QuietStep \/ BusyStep

(* A row changed in place tells the register its new status and decider. *)
LEMMA WriteRow ==
  ASSUME TypeOK, NEW i \in Items, Exists(i), NEW row \in Item, Write(i, row),
         row.owner = items[i].owner, row.home = items[i].home
  PROVE  Decisions' = IF items[i].owner \in Members
                      THEN [Decisions EXCEPT ![i] = [status |-> row.status, by |-> row.by]]
                      ELSE Decisions
<1>1. Decisions' = [Decisions EXCEPT ![i] = Told(row)]
  BY WriteTells
<1>2. CASE items[i].owner \in Members
  BY <1>1, <1>2, ToldIsSomething
<1>3. CASE items[i].owner \notin Members
  <2>1. Told(row) = None /\ Decisions[i] = None
    BY <1>3, DecisionsOf DEF Told
  <2>2. Decisions \in [Items -> {Decisions[j] : j \in Items}]
    BY DecisionsOf
  <2> QED
    BY <1>1, <1>3, <2>1, <2>2
<1> QED
  BY <1>2, <1>3

(* What the register knows of a row. *)
LEMMA RowInRegister ==
  ASSUME TypeOK, NEW i \in Items
  PROVE  /\ Exists(i) /\ items[i].owner \in Members =>
              /\ items[i] \in Item
              /\ Decisions[i] = [status |-> items[i].status, by |-> items[i].by]
              /\ Decisions[i] # None
              /\ Register!Waits(i) <=> Waits(i)
              /\ Register!IsDecided(i) <=> IsDecided(i)
         /\ ~(Exists(i) /\ items[i].owner \in Members) => Decisions[i] = None
<1>1. ASSUME Exists(i), items[i].owner \in Members
      PROVE  /\ items[i] \in Item
             /\ Decisions[i] = [status |-> items[i].status, by |-> items[i].by]
             /\ Decisions[i] # None
  <2>1. items[i] \in Item
    BY <1>1 DEF TypeOK
  <2> QED
    BY <1>1, <2>1, ToldIsSomething, DecisionsOf
<1>2. ~(Exists(i) /\ items[i].owner \in Members) => Decisions[i] = None
  BY DEF Decisions
<1> QED
  BY <1>1, <1>2 DEF Register!Waits, Register!IsDecided, Register!Decided, Decided

(* A row leaves the register, or was not in it. *)
LEMMA DeleteIsGone ==
  ASSUME TypeOK, NEW i \in Items, Write(i, Deleted), UNCHANGED monthLock
  PROVE  QuietStep
<1>1. Decisions' = [Decisions EXCEPT ![i] = None]
  BY WriteTells DEF Told
<1> QED
  BY <1>1 DEF QuietStep, Register!Gone

(* A change that keeps status and decider is not seen, and one to            *)
(* NOT_REQUIRED discards the item.                                           *)
LEMMA WriteIsQuiet ==
  ASSUME TypeOK, NEW i \in Items, Exists(i), NEW row \in Item, Write(i, row),
         row.owner = items[i].owner, row.home = items[i].home, row.by = items[i].by,
         row.status \in {items[i].status, "NOT_REQUIRED"}, UNCHANGED monthLock
  PROVE  QuietStep
<1>1. CASE items[i].owner \notin Members
  BY <1>1, WriteRow DEF QuietStep
<1>2. CASE items[i].owner \in Members
  <2>1. Decisions' = [Decisions EXCEPT ![i] = [status |-> row.status, by |-> items[i].by]]
    BY <1>2, WriteRow
  <2>2. /\ Decisions[i] = [status |-> items[i].status, by |-> items[i].by]
        /\ Decisions[i] # None
    BY <1>2, RowInRegister
  <2>3. CASE row.status = items[i].status
    BY <2>1, <2>2, <2>3, DecisionsOf DEF QuietStep
  <2>4. CASE row.status = "NOT_REQUIRED"
    <3>1. Decisions[i].by = items[i].by
      BY <2>2
    <3>2. Register!Discarded(i)
      BY <2>1, <2>2, <2>4, <3>1 DEF Register!Discarded, Register!Set
    <3> QED
      BY <3>2 DEF QuietStep
  <2> QED
    BY <2>3, <2>4
<1> QED
  BY <1>1, <1>2

(* A new row asks, or is noted; the rows it removes leave the register. *)
LEMMA InsertIsReplacing ==
  ASSUME TypeOK, AtHome, NEW i \in Items, items[i] = None, NEW row \in Item,
         row.by = None, row.owner \in Members => row.home,
         NEW gone \in GiveWay(row), Insert(i, row, gone), UNCHANGED monthLock
  PROVE  /\ gone \in SUBSET Items
         /\ Decisions[i] = None
         /\ IF row.owner \in Members THEN Register!Replacing(i, row.status, gone)
                                     ELSE UNCHANGED Decisions
<1>1. /\ gone \subseteq {j \in Items : Exists(j) /\ items[j].owner = row.owner}
      /\ i \notin gone
  BY InsertGoes
<1>2. Decisions' = [j \in Items |-> IF j = i THEN Told(row)
                                    ELSE IF j \in gone THEN None ELSE Decisions[j]]
  BY <1>1, InsertTells
<1>3. Decisions[i] = None
  BY RowInRegister
<1>4. CASE row.owner \in Members
  BY <1>1, <1>2, <1>3, <1>4, ToldIsSomething DEF Register!Replacing
<1>5. CASE row.owner \notin Members
  <2>1. \A j \in gone : Decisions[j] = None
    BY <1>1, <1>5, RowInRegister
  <2>2. Told(row) = None
    BY <1>5 DEF Told
  <2>3. \A j \in Items : Decisions'[j] = Decisions[j]
    BY <1>2, <1>3, <2>1, <2>2
  <2> QED
    BY <1>1, <1>3, <1>5, <2>3, DecisionsOf
<1> QED
  BY <1>4, <1>5

-----------------------------------------------------------------------------
(* The handlers: items that come, arrivals, and the statements without a     *)
(* request.                                                                  *)

LEMMA NoteHandled ==
  ASSUME Base, NEW i \in Items, NEW k \in Kinds, NEW p \in People, Note(i, k, p)
  PROVE  Handled
<1> DEFINE row == NewItem(k, p, "NOT_REQUIRED")
<1>1. /\ row \in Item /\ row.status = "NOT_REQUIRED" /\ row.by = None
      /\ row.owner \in Members => row.home
  BY NewItemType DEF Base, Statuses
<1>2. PICK gone \in GiveWay(row) : Insert(i, row, gone)
  BY DEF Note
<1>3. items[i] = None /\ UNCHANGED <<joined, requests, locker, monthLock>>
  BY DEF Note
<1> HIDE DEF row
<1>4. RowsGo
  BY <1>1, <1>2, <1>3, InsertGoes DEF Base
<1>5. RequestsGo /\ Shared' = Shared
  BY <1>3, <1>4, SameRemember DEF Base, RowsGo
<1>6. QuietStep
  <2>1. /\ gone \in SUBSET Items /\ Decisions[i] = None
        /\ IF row.owner \in Members THEN Register!Replacing(i, "NOT_REQUIRED", gone)
                                    ELSE UNCHANGED Decisions
    BY <1>1, <1>2, <1>3, InsertIsReplacing DEF Base
  <2> QED
    BY <2>1 DEF QuietStep, Register!Noted
<1> QED
  BY <1>3, <1>4, <1>5, <1>6 DEF Handled, Base

(* A row changed in place with nobody's decision, whatever the requests do. *)
LEMMA QuietWriteHandled ==
  ASSUME Base, NEW i \in Items, Exists(i), NEW row \in Item, Write(i, row),
         row.owner = items[i].owner, row.home = items[i].home, row.by = items[i].by,
         row.status \in {items[i].status, "NOT_REQUIRED"},
         UNCHANGED <<joined, locker, monthLock>>,
         RowsGo => RequestsGo /\ Shared' \subseteq Shared
  PROVE  Handled
BY WriteGoes, WriteIsQuiet DEF Base, Handled

LEMMA Stopping ==
  ASSUME NEW row \in Item
  PROVE  /\ [row EXCEPT !.running = FALSE].owner = row.owner
         /\ [row EXCEPT !.running = FALSE].home = row.home
         /\ [row EXCEPT !.running = FALSE].by = row.by
         /\ [row EXCEPT !.running = FALSE].status = row.status
         /\ Discard(row).owner = row.owner /\ Discard(row).home = row.home
         /\ Discard(row).by = row.by /\ Discard(row).status = "NOT_REQUIRED"
BY DEF Item, Discard

LEMMA StoppedHandled ==
  ASSUME Base, NEW i \in Items, Exists(i), NEW short \in BOOLEAN, Stopped(i, short),
         UNCHANGED <<joined, locker, monthLock>>,
         RowsGo => RequestsGo /\ Shared' \subseteq Shared
  PROVE  Handled
<1>1. items[i] \in Item
  BY DEF Base, TypeOK
<1>2. CASE short
  BY <1>1, <1>2, Changes, Stopping, QuietWriteHandled DEF Stopped
<1>3. CASE ~short
  BY <1>1, <1>3, Changes, Stopping, QuietWriteHandled DEF Stopped
<1> QED
  BY <1>2, <1>3

LEMMA StatementHandled ==
  ASSUME Base, NEW i \in Items, DropSkip(i) \/ EndBreak(i) \/ Heal(i)
  PROVE  Handled
<1>1. Exists(i) /\ UNCHANGED <<joined, requests, locker, monthLock>>
  BY DEF DropSkip, EndBreak, Heal
<1>2. RowsGo => RequestsGo /\ Shared' = Shared
  BY <1>1, SameRemember DEF Base, RowsGo
<1>3. CASE DropSkip(i)
  BY <1>1, <1>2, <1>3, DeleteGoes, DeleteIsGone DEF DropSkip, Handled, Base
<1>4. CASE EndBreak(i)
  BY <1>1, <1>2, <1>4, StoppedHandled DEF EndBreak, Stopped
<1>5. CASE Heal(i)
  BY <1>1, <1>2, <1>5, StoppedHandled DEF Heal
<1> QED
  BY <1>3, <1>4, <1>5

(* A handler that only remembers what it read. *)
LEMMA OnlyRemembers ==
  ASSUME Base, RequestsGo, Shared' = Shared, UNCHANGED <<joined, items, locker, monthLock>>
  PROVE  Handled
BY SameGo, SameRows DEF Handled, Base, QuietStep

LEMMA ArriveHandled ==
  ASSUME Base, NEW r \in Slots, NEW i \in Items, Arrive(r, i)
  PROVE  Handled
<1>1. ASSUME NEW k \in Kinds, NEW p \in People, Ask(r, i, k, p)
      PROVE  Handled
  <2> DEFINE row == NewItem(k, p, "PENDING")
  <2>1. /\ row \in Item /\ row.status = "PENDING" /\ row.by = None
        /\ row.owner \in Members => row.home
    BY NewItemType DEF Base, Statuses
  <2> HIDE DEF row
  <2>2. Receive(r, "create", i, row, "APPROVED", None) /\ UNCHANGED <<joined, items, locker, monthLock>>
    BY <1>1 DEF Ask, row
  <2>3. RowsGo
    BY <2>2, SameGo DEF Base
  <2>4. RequestsGo /\ Shared' = Shared
    BY <2>1, <2>2, <2>3, ReceiveGoes DEF Base, RowsGo, Decided
  <2> QED
    BY <2>2, <2>4, OnlyRemembers
<1>2. Exists(i) => /\ items[i] \in Item
                   /\ items[i].owner \in Members => items[i].home
  BY DEF Base, TypeOK, AtHome
<1>3. UNCHANGED items => RowsGo
  BY SameGo DEF Base
<1>4. ASSUME NEW a \in Approvers, Reopen(r, a, i)
      PROVE  Handled
  <2>1. /\ Exists(i) /\ Receive(r, "reopen", i, items[i], "APPROVED", a)
        /\ UNCHANGED <<joined, items, locker, monthLock>>
    BY <1>4 DEF Reopen
  <2>2. RequestsGo /\ Shared' = Shared
    BY <1>2, <1>3, <2>1, ReceiveGoes DEF Base, RowsGo, Decided
  <2> QED
    BY <2>1, <2>2, OnlyRemembers
<1>5. ASSUME NEW a \in Approvers, NEW verdict \in Decided, Decide(r, a, i, verdict)
      PROVE  Handled
  <2>1. /\ Exists(i) /\ Receive(r, "decide", i, items[i], verdict, a)
        /\ UNCHANGED <<joined, items, locker, monthLock>>
    BY <1>5 DEF Decide
  <2>2. RequestsGo /\ Shared' = Shared
    BY <1>2, <1>3, <2>1, ReceiveGoes DEF Base, RowsGo
  <2> QED
    BY <2>1, <2>2, OnlyRemembers
<1>6. ASSUME EndMeeting(r, i)
      PROVE  Handled
  <2>1. /\ Exists(i) /\ Receive(r, "end", i, items[i], "APPROVED", None)
        /\ UNCHANGED <<joined, items, locker, monthLock>>
    BY <1>6 DEF EndMeeting
  <2>2. RequestsGo /\ Shared' = Shared
    BY <1>2, <1>3, <2>1, ReceiveGoes DEF Base, RowsGo, Decided
  <2> QED
    BY <2>1, <2>2, OnlyRemembers
<1>7. ASSUME EndBreakAsking(r, i)
      PROVE  Handled
  <2>1. /\ Exists(i) /\ Receive(r, "finish", i, items[i], "APPROVED", None)
        /\ Stopped(i, FALSE) /\ UNCHANGED <<joined, locker, monthLock>>
    BY <1>7 DEF EndBreakAsking, Stopped
  <2>2. RowsGo => RequestsGo /\ Shared' = Shared
    BY <1>2, <2>1, ReceiveGoes DEF Base, RowsGo, Decided
  <2> QED
    BY <2>1, <2>2, StoppedHandled
<1>8. ASSUME HealShort(r, i)
      PROVE  Handled
  <2>1. /\ Exists(i) /\ Receive(r, "heal", i, items[i], "APPROVED", None)
        /\ Stopped(i, FALSE) /\ UNCHANGED <<joined, locker, monthLock>>
    BY <1>8 DEF HealShort
  <2>2. RowsGo => RequestsGo /\ Shared' = Shared
    BY <1>2, <2>1, ReceiveGoes DEF Base, RowsGo, Decided
  <2> QED
    BY <2>1, <2>2, StoppedHandled
<1> QED
  BY <1>1, <1>4, <1>5, <1>6, <1>7, <1>8 DEF Arrive

-----------------------------------------------------------------------------
(* The transactions commit. *)

(* A transaction about a member holds the month's shared lock, except the    *)
(* end of a meeting.                                                         *)
LEMMA LockHeld ==
  ASSUME Base, NEW r \in Slots, requests[r] # None
  PROVE  /\ requests[r] \in Request /\ requests[r].item \in Items
         /\ requests[r].row \in Item
         /\ Remembers(requests[r])
         /\ (/\ requests[r].pc = "commit" /\ requests[r].op # "end"
             /\ requests[r].row.owner \in Members)
              => ~Exclusive /\ (~MonthIsLocked(r) => monthLock = None)
<1>1. requests[r] \in Request /\ Remembers(requests[r])
  BY DEF Base, TypeOK, RequestsRemember
<1>2. requests[r].item \in Items /\ requests[r].row \in Item
  BY <1>1 DEF Request
<1>3. ASSUME requests[r].pc = "commit", requests[r].op # "end",
             requests[r].row.owner \in Members
      PROVE  ~Exclusive /\ (~MonthIsLocked(r) => monthLock = None)
  <2>1. requests[r].locks
    BY <1>1, <1>3 DEF Remembers
  <2>2. r \in Shared
    BY <1>3, <2>1 DEF Shared
  <2> QED
    BY <2>1, <2>2 DEF Base, MonthIsLocked
<1> QED
  BY <1>1, <1>2, <1>3

LEMMA RefusedHandled ==
  ASSUME Base, NEW r \in Slots, Done(r), UNCHANGED items,
         UNCHANGED <<joined, locker, monthLock>>
  PROVE  Handled
<1>1. RowsGo
  BY SameGo DEF Base
<1>2. RequestsGo /\ Shared' \subseteq Shared
  BY <1>1, DoneGoes DEF Base, RowsGo
<1> QED
  BY <1>1, <1>2, SameRows DEF Handled, Base, QuietStep

LEMMA CommitCreateHandled ==
  ASSUME Base, NEW r \in Slots, CommitCreate(r)
  PROVE  Handled
<1> DEFINE q == requests[r]
<1>1. /\ q # None /\ q.op = "create" /\ q.pc = "commit"
      /\ UNCHANGED <<joined, locker, monthLock>>
  BY DEF CommitCreate, Committing
<1>2. /\ q.item \in Items /\ q.row \in Item /\ q.row.status = "PENDING" /\ q.row.by = None
      /\ q.row.owner \in Members => q.row.home
  BY <1>1, LockHeld DEF Remembers
<1>3. CASE Refused(r)
  BY <1>1, <1>3, RefusedHandled DEF Refused
<1>4. ASSUME ~MonthIsLocked(r), items[q.item] = None, Done(r),
             NEW gone \in GiveWay(q.row), Insert(q.item, q.row, gone)
      PROVE  Handled
  <2>1. RowsGo
    BY <1>2, <1>4, InsertGoes DEF Base
  <2>2. RequestsGo /\ Shared' \subseteq Shared
    BY <1>4, <2>1, DoneGoes DEF Base, RowsGo
  <2>3. /\ gone \in SUBSET Items /\ Decisions[q.item] = None
        /\ IF q.row.owner \in Members THEN Register!Replacing(q.item, "PENDING", gone)
                                      ELSE UNCHANGED Decisions
    BY <1>1, <1>2, <1>4, InsertIsReplacing DEF Base
  <2>4. CASE q.row.owner \notin Members
    BY <1>1, <2>1, <2>2, <2>3, <2>4 DEF Handled, Base, QuietStep
  <2>5. CASE q.row.owner \in Members
    <3>1. ~Exclusive /\ monthLock = None
      BY <1>1, <1>4, <2>5, LockHeld
    <3>2. Register!Asked(q.item, gone)
      BY <2>3, <2>5, <3>1 DEF Register!Asked, Register!Waits
    <3> QED
      BY <1>1, <1>2, <2>1, <2>2, <2>3, <3>1, <3>2 DEF Handled, Base, BusyStep
  <2> QED
    BY <2>4, <2>5
<1> QED
  BY <1>3, <1>4 DEF CommitCreate

(* A conditional update under the month lock: it decides what waits, or puts *)
(* back to waiting what does not.                                            *)
LEMMA UpdateHandled ==
  ASSUME Base, NEW r \in Slots, requests[r] # None, requests[r].pc = "commit",
         requests[r].op \in {"decide", "reopen", "finish"},
         ~MonthIsLocked(r), Exists(requests[r].item), Done(r),
         NEW row \in Item, Write(requests[r].item, row),
         row.owner = items[requests[r].item].owner,
         row.home = items[requests[r].item].home,
         \/ /\ Waits(requests[r].item)
            /\ row.status \in Decided /\ row.by \in Approvers
         \/ /\ ~Waits(requests[r].item)
            /\ row.status = "PENDING" /\ row.by = None,
         UNCHANGED <<joined, locker, monthLock>>
  PROVE  Handled
<1> DEFINE i == requests[r].item
<1>1. i \in Items /\ items[i].owner = requests[r].row.owner
  BY LockHeld DEF Remembers
<1>2. RowsGo
  BY <1>1, WriteGoes DEF Base
<1>3. RequestsGo /\ Shared' \subseteq Shared
  BY <1>2, DoneGoes DEF Base, RowsGo
<1>4. CASE items[i].owner \notin Members
  <2>1. UNCHANGED Decisions
    BY <1>1, <1>4, WriteRow DEF Base
  <2> QED
    BY <1>2, <1>3, <2>1 DEF Handled, Base, QuietStep
<1>5. CASE items[i].owner \in Members
  <2>1. ~Exclusive /\ monthLock = None
    BY <1>1, <1>5, LockHeld
  <2>2. Decisions' = [Decisions EXCEPT ![i] = [status |-> row.status, by |-> row.by]]
    BY <1>1, <1>5, WriteRow DEF Base
  <2>3. Register!Waits(i) <=> Waits(i)
    BY <1>1, <1>5, RowInRegister DEF Base
  <2>4. CASE Waits(i) /\ row.status \in Decided /\ row.by \in Approvers
    <3>1. Register!DecidedBy(i, row.by, row.status)
      BY <2>1, <2>2, <2>3, <2>4 DEF Register!DecidedBy, Register!Set
    <3> QED
      BY <1>1, <1>2, <1>3, <2>1, <2>4, <3>1 DEF Handled, Base, BusyStep
  <2>5. CASE ~Waits(i) /\ row.status = "PENDING" /\ row.by = None
    <3>1. \A j \in Items : Decisions'[j] =
            IF j = i THEN [status |-> "PENDING", by |-> None] ELSE Decisions[j]
      BY <1>1, <2>2, <2>5, DecisionsOf
    <3>2. Decisions' = [j \in Items |->
            IF j = i THEN [status |-> "PENDING", by |-> None]
            ELSE IF j \in {} THEN None ELSE Decisions[j]]
      BY <3>1, DecisionsOf
    <3>3. Register!Asked(i, {})
      BY <2>1, <2>3, <2>5, <3>2 DEF Register!Asked, Register!Replacing
    <3> QED
      BY <1>1, <1>2, <1>3, <2>1, <3>3 DEF Handled, Base, BusyStep
  <2> QED
    BY <2>4, <2>5
<1> QED
  BY <1>4, <1>5

LEMMA CommitDecideHandled ==
  ASSUME Base, NEW r \in Slots, CommitDecide(r)
  PROVE  Handled
<1> DEFINE q == requests[r]
           row == [items[q.item] EXCEPT !.status = q.verdict, !.by = q.me]
<1>1. /\ q # None /\ q.op = "decide" /\ q.pc = "commit"
      /\ Done(r) /\ UNCHANGED <<joined, locker, monthLock>>
  BY DEF CommitDecide, Committing, Refused
<1>2. CASE Refused(r)
  BY <1>1, <1>2, RefusedHandled DEF Refused
<1>3. CASE ~MonthIsLocked(r) /\ Waits(q.item) /\ Write(q.item, row)
  <2>1. q.item \in Items /\ q.verdict \in Decided /\ q.me \in Approvers
    BY <1>1, LockHeld DEF Remembers, Request
  <2>2. items[q.item] \in Item
    BY <1>3, <2>1 DEF Base, TypeOK
  <2>3. row \in Item
    BY <2>1, <2>2, Changes
  <2>4. /\ row.status = q.verdict /\ row.by = q.me
        /\ row.owner = items[q.item].owner /\ row.home = items[q.item].home
    BY <2>2 DEF Item
  <2> HIDE DEF row
  <2> QED
    BY <1>1, <1>3, <2>1, <2>3, <2>4, UpdateHandled
<1> QED
  BY <1>2, <1>3 DEF CommitDecide

LEMMA CommitReopenHandled ==
  ASSUME Base, NEW r \in Slots, CommitReopen(r)
  PROVE  Handled
<1> DEFINE q == requests[r]
           row == [items[q.item] EXCEPT !.status = "PENDING", !.by = None]
<1>1. /\ q # None /\ q.op = "reopen" /\ q.pc = "commit"
      /\ Done(r) /\ UNCHANGED <<joined, locker, monthLock>>
  BY DEF CommitReopen, Committing, Refused
<1>2. CASE Refused(r)
  BY <1>1, <1>2, RefusedHandled DEF Refused
<1>3. CASE ~MonthIsLocked(r) /\ IsDecided(q.item) /\ Write(q.item, row)
  <2>1. items[q.item] \in Item /\ ~Waits(q.item)
    BY <1>1, <1>3, LockHeld DEF Base, TypeOK, Decided
  <2>2. row \in Item
    BY <2>1, Changes
  <2>3. /\ row.status = "PENDING" /\ row.by = None
        /\ row.owner = items[q.item].owner /\ row.home = items[q.item].home
    BY <2>1 DEF Item
  <2> HIDE DEF row
  <2> QED
    BY <1>1, <1>3, <2>1, <2>2, <2>3, UpdateHandled
<1> QED
  BY <1>2, <1>3 DEF CommitReopen

(* An overrun asked on a waiting record is one ask; on a decided one it puts *)
(* it back to waiting.                                                       *)
LEMMA CommitFinishHandled ==
  ASSUME Base, NEW r \in Slots, CommitFinish(r)
  PROVE  Handled
<1> DEFINE q == requests[r]
           by == IF Waits(q.item) THEN items[q.item].by ELSE None
           row == [items[q.item] EXCEPT !.asked = TRUE, !.status = "PENDING", !.by = by]
<1>1. /\ q # None /\ q.op = "finish" /\ q.pc = "commit"
      /\ Done(r) /\ UNCHANGED <<joined, locker, monthLock>>
  BY DEF CommitFinish, Committing, Refused
<1>2. CASE Refused(r)
  BY <1>1, <1>2, RefusedHandled DEF Refused
<1>3. CASE ~MonthIsLocked(r) /\ Exists(q.item) /\ Write(q.item, row)
  <2>1. q.item \in Items /\ items[q.item] \in Item
    BY <1>1, <1>3, LockHeld DEF Base, TypeOK
  <2>2. by \in Approvers \cup {None}
    BY <2>1 DEF Item
  <2>3. row \in Item
    BY <2>1, <2>2, Changes
  <2>4. /\ row.status = "PENDING" /\ row.by = by
        /\ row.owner = items[q.item].owner /\ row.home = items[q.item].home
    BY <2>1 DEF Item
  <2>5. Waits(q.item) => by = items[q.item].by /\ items[q.item].status = "PENDING"
    OBVIOUS
  <2>6. ~Waits(q.item) => by = None
    OBVIOUS
  <2> HIDE DEF row, by
  <2>7. CASE Waits(q.item)
    <3>1. RowsGo => RequestsGo /\ Shared' \subseteq Shared
      BY <1>1, DoneGoes DEF Base, RowsGo
    <3> QED
      BY <1>1, <1>3, <2>1, <2>3, <2>4, <2>5, <2>7, <3>1, QuietWriteHandled
  <2>8. CASE ~Waits(q.item)
    BY <1>1, <1>3, <2>3, <2>4, <2>6, <2>8, UpdateHandled
  <2> QED
    BY <2>7, <2>8
<1> QED
  BY <1>2, <1>3 DEF CommitFinish

LEMMA CommitEndHandled ==
  ASSUME Base, NEW r \in Slots, CommitEnd(r)
  PROVE  Handled
<1> DEFINE q == requests[r]
<1>1. q # None /\ Done(r) /\ UNCHANGED <<joined, locker, monthLock>>
  BY DEF CommitEnd, Committing, Refused
<1>2. CASE Refused(r)
  BY <1>1, <1>2, RefusedHandled DEF Refused
<1>3. ASSUME Exists(q.item), NEW short \in BOOLEAN, Stopped(q.item, short)
      PROVE  Handled
  <2>1. RowsGo => RequestsGo /\ Shared' \subseteq Shared
    BY <1>1, DoneGoes DEF Base, RowsGo
  <2> QED
    BY <1>1, <1>3, <2>1, LockHeld, StoppedHandled
<1> QED
  BY <1>2, <1>3 DEF CommitEnd

LEMMA HealDiscardHandled ==
  ASSUME Base, NEW r \in Slots, HealDiscard(r)
  PROVE  Handled
<1> DEFINE q == requests[r]
<1>1. q # None /\ Done(r) /\ UNCHANGED <<joined, locker, monthLock>>
  BY DEF HealDiscard
<1>2. CASE UNCHANGED items
  BY <1>1, <1>2, RefusedHandled
<1>3. CASE Exists(q.item) /\ Write(q.item, Discard(items[q.item]))
  <2>1. RowsGo => RequestsGo /\ Shared' \subseteq Shared
    BY <1>1, DoneGoes DEF Base, RowsGo
  <2>2. Stopped(q.item, TRUE)
    BY <1>3 DEF Stopped
  <2> QED
    BY <1>1, <1>3, <2>1, <2>2, LockHeld, StoppedHandled
<1> QED
  BY <1>2, <1>3 DEF HealDiscard

(* Every step of a request or of a row. *)
RowStep ==
  \/ \E i \in Items :
       \/ \E k \in Kinds, p \in People : Note(i, k, p)
       \/ DropSkip(i) \/ EndBreak(i) \/ Heal(i)
       \/ \E r \in Slots : Arrive(r, i)
  \/ \E r \in Slots : Begin(r) \/ Commit(r) \/ Fail(r)

LEMMA RowStepHandled == ASSUME Base, RowStep PROVE Handled
<1>1. ASSUME NEW r \in Slots, Begin(r)
      PROVE  Handled
  <2>1. UNCHANGED <<joined, items, locker, monthLock>>
    BY <1>1 DEF Begin
  <2>2. RowsGo
    BY <2>1, SameGo DEF Base
  <2>3. RequestsGo /\ (Exclusive => Shared' = {})
    BY <1>1, <2>2, BeginGoes DEF Base, RowsGo
  <2> QED
    BY <2>1, <2>2, <2>3, SameRows DEF Handled, QuietStep
<1>2. ASSUME NEW r \in Slots, Fail(r)
      PROVE  Handled
  BY <1>2, RefusedHandled DEF Fail
<1>3. ASSUME NEW r \in Slots, Commit(r)
      PROVE  Handled
  BY <1>3, CommitCreateHandled, CommitDecideHandled, CommitReopenHandled,
     CommitFinishHandled, CommitEndHandled, HealDiscardHandled DEF Commit
<1> QED
  BY <1>1, <1>2, <1>3, NoteHandled, StatementHandled, ArriveHandled DEF RowStep

-----------------------------------------------------------------------------
(* The invariant *)

LEMMA InvInit == ASSUME Init PROVE ApprovalsInv
<1>1. TypeOK
  BY PeopleAssumption DEF Init, TypeOK
<1>2. AtHome /\ RequestsRemember /\ OpenWhileLocking /\ ~Exclusive
  BY DEF Init, AtHome, RequestsRemember, OpenWhileLocking
<1> QED
  BY <1>1, <1>2 DEF Init, ApprovalsInv, Base, LockerIsAlone

(* A quiet step makes nothing wait and decides nothing anew. *)
LEMMA QuietIsQuiet ==
  ASSUME QuietStep, NEW i \in Items
  PROVE  /\ Register!Waits(i)' => Register!Waits(i)
         /\ Register!IsDecided(i)' => /\ Register!IsDecided(i)
                                      /\ Decisions'[i] = Decisions[i]
<1>1. Decisions = [j \in Items |-> Decisions[j]]
  BY DecisionsOf
<1>2. \/ Decisions'[i] = Decisions[i] \/ Decisions'[i] = None
      \/ Decisions'[i].status = "NOT_REQUIRED"
  BY <1>1 DEF QuietStep, Register!Noted, Register!Replacing, Register!Discarded,
     Register!Gone, Register!Set
<1> QED
  BY <1>2 DEF Register!Waits, Register!IsDecided, Register!Decided

LEMMA RowStepInv == ASSUME ApprovalsInv, RowStep PROVE ApprovalsInv'
<1>1. Handled /\ Base
  BY RowStepHandled DEF ApprovalsInv
<1>2. Base'
  BY <1>1 DEF Handled, RowsGo, RequestsGo, Base, TypeOK, OpenWhileLocking
<1>3. LockerIsAlone'
  <2> SUFFICES ASSUME Exclusive'
               PROVE  (/\ Shared = {}
                       /\ locker.pc \in {"build", "commit"} => \A i \in Items : ~Register!Waits(i)
                       /\ locker.pc = "commit" => Register!Tells(locker.shot))'
    BY DEF LockerIsAlone
  <2>1. Exclusive /\ Shared' = {} /\ locker' = locker /\ QuietStep
    BY <1>1 DEF Handled, BusyStep
  <2>2. /\ locker.pc \in {"build", "commit"} => \A i \in Items : ~Register!Waits(i)
        /\ locker.pc = "commit" => Register!Tells(locker.shot)
    BY <2>1 DEF ApprovalsInv, LockerIsAlone
  <2>3. Register!Tells(locker.shot) => Register!Tells(locker.shot)'
    BY <2>1, QuietIsQuiet DEF Register!Tells
  <2> QED
    BY <2>1, <2>2, <2>3, QuietIsQuiet
<1> QED
  BY <1>2, <1>3 DEF ApprovalsInv

(* The snapshot holds the status of every item of the members. *)
LEMMA BuildTells ==
  ASSUME Base
  PROVE  LET shot == [i \in Items |-> Shot(i)]
         IN  shot \in Snapshots /\ Register!Tells(shot)
<1> DEFINE shot == [i \in Items |-> Shot(i)]
<1>1. \A i \in Items : Shot(i) \in Statuses \cup {None}
  BY DEF Base, TypeOK, Shot, Item
<1>2. shot \in Snapshots
  BY <1>1 DEF Snapshots
<1>3. ASSUME NEW i \in Items, Register!IsDecided(i)
      PROVE  shot[i] = Decisions[i].status
  <2>1. Exists(i) /\ items[i].owner \in Members
    BY <1>3, RowInRegister DEF Base, Register!IsDecided
  <2>2. Shot(i) = items[i].status
    BY <2>1 DEF Shot, Base
  <2>3. Decisions[i] = [status |-> items[i].status, by |-> items[i].by]
    BY <2>1, RowInRegister DEF Base
  <2> QED
    BY <2>2, <2>3
<1>4. Register!Tells(shot)
  BY <1>2, <1>3 DEF Register!Tells, Snapshots, Statuses, Decided,
     Register!Statuses, Register!Decided
<1> QED
  BY <1>2, <1>4

LockerStep == LockBegin \/ LockCount \/ LockBuild \/ LockCommit \/ LockGivesUp \/ Unlock
JoinStep == \E p \in People : Join(p)

LEMMA LockerStepInv == ASSUME ApprovalsInv, LockerStep PROVE ApprovalsInv'
<1>1. UNCHANGED <<joined, items, requests>>
  BY DEF LockerStep, LockBegin, LockCount, LockBuild, LockCommit, LockGivesUp, Unlock
<1>2. AtHome' /\ RequestsRemember' /\ Shared' = Shared /\ Decisions' = Decisions
  BY <1>1, SameRows DEF ApprovalsInv, Base, AtHome, RequestsRemember, Remembers, Shared
<1>3. \A i \in Items : Register!Waits(i)' <=> Register!Waits(i)
  BY <1>2 DEF Register!Waits
<1>4. ASSUME NEW s PROVE Register!Tells(s)' <=> Register!Tells(s)
  BY <1>2 DEF Register!Tells, Register!IsDecided
<1>5. SUFFICES /\ TypeOK' /\ OpenWhileLocking'
               /\ (Exclusive' => Shared' = {})
               /\ locker'.pc \in {"build", "commit"} => \A i \in Items : ~Register!Waits(i)
               /\ locker'.pc = "commit" => Register!Tells(locker'.shot)
  BY <1>1, <1>2, <1>3, <1>4 DEF ApprovalsInv, Base, LockerIsAlone, Register!Tells
<1>6. CASE LockBegin
  BY <1>1, <1>2, <1>6 DEF LockBegin, ApprovalsInv, Base, TypeOK, OpenWhileLocking
<1>7. CASE LockCount
  <2>1. ASSUME NEW i \in Items, Register!Waits(i)
        PROVE  FALSE
    <3>1. Waits(i) /\ items[i].owner \in Members
      BY <2>1, RowInRegister DEF Register!Waits, ApprovalsInv, Base
    <3>2. Counted(i)
      BY <3>1 DEF Counted, ApprovalsInv, Base, AtHome
    <3> QED
      BY <1>7, <3>1, <3>2 DEF LockCount
  <2> QED
    BY <1>1, <1>2, <1>7, <2>1
       DEF LockCount, ApprovalsInv, Base, TypeOK, OpenWhileLocking, LockerIsAlone
<1>8. CASE LockBuild
  BY <1>1, <1>2, <1>8, BuildTells
     DEF LockBuild, ApprovalsInv, Base, TypeOK, OpenWhileLocking, LockerIsAlone
<1>9. CASE LockCommit
  BY <1>1, <1>9, NoneIsNoRow DEF LockCommit, ApprovalsInv, Base, TypeOK, OpenWhileLocking,
     LockerIsAlone, Register!Tells, Snapshots, Statuses, Decided,
     Register!Statuses, Register!Decided
<1>10. CASE LockGivesUp
  BY <1>1, <1>10 DEF LockGivesUp, ApprovalsInv, Base, TypeOK, OpenWhileLocking
<1>11. CASE Unlock
  BY <1>1, <1>11 DEF Unlock, ApprovalsInv, Base, TypeOK, OpenWhileLocking
<1> QED
  BY <1>6, <1>7, <1>8, <1>9, <1>10, <1>11 DEF LockerStep

LEMMA JoinInv == ASSUME ApprovalsInv, JoinStep PROVE ApprovalsInv'
<1>1. /\ UNCHANGED <<items, requests, locker, monthLock>>
      /\ joined' \subseteq People /\ joined \subseteq joined'
  BY DEF JoinStep, Join, ApprovalsInv, Base, TypeOK
<1>2. Base'
  BY <1>1 DEF ApprovalsInv, Base, TypeOK, AtHome, RequestsRemember, Remembers, Shared,
     OpenWhileLocking
<1>3. LockerIsAlone'
  BY <1>1, SameRows DEF ApprovalsInv, LockerIsAlone, Shared, Register!Waits,
     Register!Tells, Register!IsDecided
<1> QED
  BY <1>2, <1>3 DEF ApprovalsInv

LEMMA InvStep == ASSUME ApprovalsInv, [Next]_vars PROVE ApprovalsInv'
<1>1. CASE UNCHANGED vars
  <2>1. UNCHANGED <<joined, items, requests, locker, monthLock>>
    BY <1>1 DEF vars
  <2>2. Base'
    BY <2>1 DEF ApprovalsInv, Base, TypeOK, AtHome, RequestsRemember, Remembers, Shared,
       OpenWhileLocking
  <2>3. LockerIsAlone'
    BY <2>1, SameRows DEF ApprovalsInv, LockerIsAlone, Shared, Register!Waits,
       Register!Tells, Register!IsDecided
  <2> QED
    BY <2>2, <2>3 DEF ApprovalsInv
<1>2. Next => RowStep \/ LockerStep \/ JoinStep
  BY DEF Next, RowStep, LockerStep, JoinStep
<1> QED
  BY <1>1, <1>2, RowStepInv, LockerStepInv, JoinInv

-----------------------------------------------------------------------------
(* Theorems *)

(* The rows, the requests and the lock of every behaviour of the handlers    *)
(* are well formed, and every member's row and request agree on its owner.   *)
THEOREM ApprovalsInvariant == Spec => []ApprovalsInv
BY InvInit, InvStep, PTL DEF Spec

(* Type correctness of the rows, the requests in flight and the lock.        *)
THEOREM ApprovalsTypes == Spec => []TypeOK
<1>1. ApprovalsInv => TypeOK
  BY DEF ApprovalsInv, Base
<1> QED
  BY <1>1, ApprovalsInvariant, PTL

(* A transaction that writes under the month's shared lock and a lockMonth   *)
(* never overlap, and what lockMonth counted stays so until it commits.      *)
THEOREM ApprovalsLockerIsAlone == Spec => []LockerIsAlone
<1>1. ApprovalsInv => LockerIsAlone
  BY DEF ApprovalsInv
<1> QED
  BY <1>1, ApprovalsInvariant, PTL

LEMMA RegisterStarts == ASSUME Init PROVE Register!RegisterInit
BY DEF Init, Decisions, Register!RegisterInit

LEMMA RegisterSteps ==
  ASSUME ApprovalsInv, [Next]_vars
  PROVE  [Register!RegisterNext]_(Register!registerVars)
<1>1. CASE RowStep
  <2>1. Handled
    BY <1>1, RowStepHandled DEF ApprovalsInv
  <2>2. CASE QuietStep
    BY <2>1, <2>2 DEF Handled, QuietStep, Register!RegisterNext, Register!registerVars
  <2>3. CASE BusyStep
    BY <2>3 DEF BusyStep, Register!RegisterNext, Decided, Register!Decided
  <2> QED
    BY <2>1, <2>2, <2>3 DEF Handled
<1>2. CASE LockCommit
  <2>1. UNCHANGED Decisions /\ monthLock = None /\ monthLock' = locker.shot
    BY <1>2, SameRows DEF LockCommit, ApprovalsInv, Base, OpenWhileLocking
  <2>2. Register!Tells(locker.shot) /\ \A i \in Items : ~Register!Waits(i)
    BY <1>2 DEF LockCommit, ApprovalsInv, LockerIsAlone
  <2>3. locker.shot \in [Items -> Register!Statuses \cup {None}]
    BY <2>2 DEF Register!Tells
  <2>4. Register!Locked(locker.shot)
    BY <2>1, <2>2 DEF Register!Locked
  <2> QED
    BY <2>3, <2>4 DEF Register!RegisterNext
<1>3. CASE Unlock
  BY <1>3, SameRows DEF Unlock, Register!RegisterNext, Register!Unlocked
<1>4. ASSUME UNCHANGED <<items, monthLock>>
      PROVE  UNCHANGED Register!registerVars
  BY <1>4, SameRows DEF Register!registerVars
<1>5. CASE LockBegin \/ LockCount \/ LockBuild \/ LockGivesUp \/ JoinStep \/ UNCHANGED vars
  BY <1>4, <1>5 DEF LockBegin, LockCount, LockBuild, LockGivesUp, JoinStep, Join, vars
<1> QED
  BY <1>1, <1>2, <1>3, <1>5 DEF Next, RowStep, JoinStep

(* Whatever the handlers read before their transactions, and in whatever     *)
(* order these are granted the lock of the month, decisions and payroll lock *)
(* take the steps of the month register.                                     *)
THEOREM ApprovalsImplementRegister == Spec => RegisterSpec
<1>1. Init => Register!RegisterInit
  BY RegisterStarts
<1>2. ApprovalsInv /\ [Next]_vars => [Register!RegisterNext]_(Register!registerVars)
  BY RegisterSteps
<1> QED
  BY <1>1, <1>2, ApprovalsInvariant, PTL DEF Spec, RegisterSpec, Register!RegisterSpec

(* What holds of a locked month keeps holding: no step of the register asks  *)
(* or decides in it.                                                         *)
RegisterInv == LockedIsDecided /\ SnapshotStands

LEMMA RegisterInvStep ==
  ASSUME RegisterInv, [Register!RegisterNext]_(Register!registerVars),
         Decisions = [i \in Items |-> Decisions[i]]
  PROVE  RegisterInv'
<1> USE DEF RegisterInv, LockedIsDecided, SnapshotStands, Register!LockedIsDecided,
            Register!SnapshotStands
<1>1. CASE QuietStep /\ UNCHANGED monthLock
  BY <1>1, QuietIsQuiet DEF Register!Tells
<1>2. CASE UNCHANGED Register!registerVars
  BY <1>2 DEF Register!registerVars, Register!Tells, Register!Waits, Register!IsDecided
<1>3. ASSUME monthLock' = None
      PROVE  RegisterInv'
  BY <1>3
<1>4. ASSUME NEW s, Register!Locked(s)
      PROVE  RegisterInv'
  BY <1>4 DEF Register!Locked, Register!Tells, Register!Waits, Register!IsDecided
<1>5. ASSUME NEW i \in Items, NEW gone \in SUBSET Items, Register!Noted(i, gone)
      PROVE  QuietStep /\ UNCHANGED monthLock
  BY <1>5 DEF Register!Noted, Register!Replacing, QuietStep
<1>6. ASSUME NEW i \in Items, Register!Discarded(i) \/ Register!Gone(i)
      PROVE  QuietStep /\ UNCHANGED monthLock
  BY <1>6 DEF Register!Discarded, Register!Gone, Register!Set, QuietStep
<1>7. ASSUME NEW i \in Items,
             \/ \E gone \in SUBSET Items : Register!Asked(i, gone)
             \/ \E a \in Approvers, verdict \in Register!Decided :
                  Register!DecidedBy(i, a, verdict)
      PROVE  monthLock' = None
  BY <1>7 DEF Register!Asked, Register!Replacing, Register!DecidedBy, Register!Set
<1>8. Register!Unlocked => monthLock' = None
  BY DEF Register!Unlocked
<1> QED
  BY <1>1, <1>2, <1>3, <1>4, <1>5, <1>6, <1>7, <1>8 DEF Register!RegisterNext

THEOREM ApprovalsRegisterInvariant == Spec => []RegisterInv
<1>1. Init => RegisterInv
  BY DEF Init, RegisterInv, LockedIsDecided, SnapshotStands, Register!LockedIsDecided,
     Register!SnapshotStands
<1>2. RegisterInv /\ ApprovalsInv /\ [Next]_vars => RegisterInv'
  BY RegisterSteps, RegisterInvStep, DecisionsOf
<1> QED
  BY <1>1, <1>2, ApprovalsInvariant, PTL DEF Spec

(* A month locked for payroll has no member's item that waits.               *)
THEOREM ApprovalsLockedIsDecided == Spec => []LockedIsDecided
<1>1. RegisterInv => LockedIsDecided
  BY DEF RegisterInv
<1> QED
  BY <1>1, ApprovalsRegisterInvariant, PTL

(* The payroll snapshot agrees with every member's decision as long as the   *)
(* month is locked.                                                          *)
THEOREM ApprovalsSnapshotStands == Spec => []SnapshotStands
<1>1. RegisterInv => SnapshotStands
  BY DEF RegisterInv
<1> QED
  BY <1>1, ApprovalsRegisterInvariant, PTL

(* What lockMonth promises of the members' items, together: none waits in    *)
(* the locked month, the snapshot agrees with their decisions, and nothing   *)
(* was decided between its count and its commit.                             *)
THEOREM ApprovalsLockedMonthHolds == Spec => []LockedMonthHolds
  BY ApprovalsLockedIsDecided, ApprovalsSnapshotStands, ApprovalsLockerIsAlone, PTL
  DEF LockedMonthHolds

LEMMA DecidesOnce ==
  ASSUME [Register!RegisterNext]_(Register!registerVars), NEW i \in Items,
         Register!IsDecided(i), Decisions = [j \in Items |-> Decisions[j]]
  PROVE  \/ Decisions'[i] = Decisions[i]
         \/ Decisions'[i] = None
         \/ Decisions'[i].status \in {"PENDING", "NOT_REQUIRED"}
<1>1. ASSUME NEW j \in Items, NEW a \in Approvers, NEW verdict \in Register!Decided,
             Register!DecidedBy(j, a, verdict)
      PROVE  Decisions'[i] = Decisions[i]
  BY <1>1 DEF Register!DecidedBy, Register!Set, Register!Waits, Register!IsDecided,
     Register!Decided
<1>2. ASSUME NEW j \in Items, NEW gone \in SUBSET Items,
             Register!Noted(j, gone) \/ Register!Asked(j, gone)
      PROVE  \/ Decisions'[i] = Decisions[i] \/ Decisions'[i] = None
             \/ Decisions'[i].status \in {"PENDING", "NOT_REQUIRED"}
  BY <1>2 DEF Register!Noted, Register!Asked, Register!Replacing
<1>3. ASSUME NEW j \in Items, Register!Discarded(j) \/ Register!Gone(j)
      PROVE  \/ Decisions'[i] = Decisions[i] \/ Decisions'[i] = None
             \/ Decisions'[i].status \in {"PENDING", "NOT_REQUIRED"}
  BY <1>3 DEF Register!Discarded, Register!Gone, Register!Set
<1>4. ASSUME NEW s, Register!Locked(s) \/ Register!Unlocked
      PROVE  Decisions'[i] = Decisions[i]
  BY <1>4 DEF Register!Locked, Register!Unlocked
<1>5. UNCHANGED Register!registerVars => Decisions'[i] = Decisions[i]
  BY DEF Register!registerVars
<1> QED
  BY <1>1, <1>2, <1>3, <1>4, <1>5 DEF Register!RegisterNext

(* Two approvers at once cannot both win: a member's decision keeps verdict  *)
(* and decider until the item waits again, is discarded or removed.          *)
THEOREM ApprovalsDecidedOnce == Spec => DecidedOnce
<1>1. ApprovalsInv /\ [Next]_vars =>
        [\A i \in Items : Register!IsDecided(i) =>
           \/ Decisions'[i] = Decisions[i]
           \/ Decisions'[i] = None
           \/ Decisions'[i].status \in {"PENDING", "NOT_REQUIRED"}]_(Register!registerVars)
  BY RegisterSteps, DecidesOnce, DecisionsOf
<1> QED
  BY <1>1, ApprovalsInvariant, PTL DEF Spec, DecidedOnce, Register!DecidedOnce
=============================================================================
