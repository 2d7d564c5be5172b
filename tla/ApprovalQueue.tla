--------------------------- MODULE ApprovalQueue ---------------------------
(***************************************************************************)
(* Whom the approval items of one organisation wait for, and the 48-hour   *)
(* clock of each: the requests that start a wait, the people who change    *)
(* places meanwhile, and ApprovalsSlaJob, which reminds, tells that an     *)
(* item is overdue and marks what it told.                                 *)
(*                                                                         *)
(* A run of the job reads, sends notices and marks by id in steps of its   *)
(* own; people decide, ask again and move between any two.  Time is the    *)
(* time left until due_at, so it never ends.  The month lock, the rows and *)
(* who decided them are the subject of Approvals.                          *)
(***************************************************************************)
EXTENDS Integers, FiniteSets

CONSTANTS
  Entries,         \* ids of rows (bounds how many exist)
  Owners,          \* the people the items are about
  Managers,        \* people who manage departments
  Chief,           \* the Admin of the organisation
  Depts,
  Placements,      \* [person -> where update-user may place them]
  Sla,             \* approvalSlaHours
  Soon,            \* DUE_SOON_MS
  Nobody           \* SQL null

ASSUME SlaAssumption ==
  /\ Sla \in Nat /\ Soon \in 0 .. Sla
  /\ Chief \notin Owners \cup Managers /\ Nobody \notin Int

(* What resolvePlacement gives, and the account's status: nobody is placed as *)
(* anything but Staff or Manager, so each owner's items need an approval.    *)
PostRow ==
  [role : {"USER", "MANAGER"}, dept : Depts \cup {Nobody},
   managed : SUBSET Depts, active : BOOLEAN]

ASSUME PlacementsAssumption == Placements \in [Owners \cup Managers -> SUBSET PostRow]

Overdue == -1
(* approverRole, status, due_at, remindedAt, escalatedAt of a row. *)
EntryRow ==
  [owner : Owners, role : {"MANAGER", "ADMIN"}, state : {"PENDING", "DECIDED"},
   left : (Overdue .. Sla) \cup {Nobody}, reminded : BOOLEAN, escalated : BOOLEAN]

ASSUME RowAssumption == Nobody \notin EntryRow

VARIABLES
  entries,         \* [Entries -> row or Nobody]
  posts,           \* role, department, managed departments and status of a person
  chiefHere,       \* the Admin's account is there and active
  moved,           \* people whose UserAccessChangedEvent is still to be handled
  sla,             \* the run of ApprovalsSlaJob
  heard,           \* history: who was told that an item's present wait is overdue
  crossed,         \* history: items that began to wait anew while a run held them
  astray           \* history: items that wait as of a place their owner has left, and
                   \* that no event will re-route

queueVars == <<entries, posts, chiefHere, moved, sla, heard, crossed, astray>>

Persons == Owners \cup Managers
Waiting(e) == entries[e] # Nobody /\ entries[e].state = "PENDING"

-----------------------------------------------------------------------------
(* Who decides, and whose list an item is in *)

(* BreakApprovalPolicy.route: the approver role that is stored with the item. *)
Route(p) == IF posts[p].role = "USER" /\ posts[p].dept # Nobody THEN "MANAGER" ELSE "ADMIN"

(* Manages and MayRule are canDecide as the people are now: a manager, Staff *)
(* of their departments; the Admin, Staff and managers; nobody their own.    *)
Manages(m, p) == /\ m # p
                 /\ posts[m].active /\ posts[m].role = "MANAGER"
                 /\ posts[p].role = "USER" /\ posts[p].dept # Nobody
                 /\ posts[p].dept \in posts[m].managed
MayRule(a, e) ==
  IF a = Chief THEN chiefHere /\ posts[entries[e].owner].role \in {"USER", "MANAGER"}
               ELSE Manages(a, entries[e].owner)

ActiveManagers(d) == {m \in Persons : /\ posts[m].active /\ posts[m].role = "MANAGER"
                                      /\ d \in posts[m].managed}
ManagersOf(p) == IF posts[p].dept = Nobody THEN {} ELSE ActiveManagers(posts[p].dept) \ {p}

AdminPool_Stored(e) ==                \* mutant: only what is stored for the Admin or escalated
  entries[e].role = "ADMIN" \/ entries[e].escalated
(* ADMIN_POOL: stored for the Admin, escalated, or of a department nobody    *)
(* manages just now.                                                         *)
AdminPool(e) == \/ entries[e].role = "ADMIN"
                \/ entries[e].escalated
                \/ ManagersOf(entries[e].owner) = {}

(* approverScopeOf and scopeSql: whose items the list of an approver holds,  *)
(* and the items "mine" lists.                                               *)
Scope(a) == IF a = Chief THEN IF chiefHere THEN Owners ELSE {}
            ELSE {p \in Owners : Manages(a, p)}
Mine(a) == {e \in Entries : /\ Waiting(e) /\ entries[e].owner \in Scope(a)
                            /\ a = Chief => AdminPool(e)}

(* slaState: the two chips of a row never show together. *)
SlaState(row) == [dueSoon |-> row.state = "PENDING" /\ row.left \in 0 .. Soon,
                  overdue |-> row.state = "PENDING" /\ row.left = Overdue]
(* build: what a reader of the list gets of an item, whatever its kind.      *)
View(a, e) == [escalated |-> entries[e].escalated, sla |-> SlaState(entries[e]),
               canDecide |-> MayRule(a, e)]
(* canView: a row the reader may not see is left out. *)
Shown(a) == {e \in Mine(a) : entries[e].owner \in Scope(a)}

(* ApprovalsDigestJob: an approver's count.  The rows are grouped by stored  *)
(* role and department, so who owns one is not looked at.                    *)
Digest(a) ==
  {e \in Entries : Waiting(e) /\
     LET row == entries[e]
         ms == IF row.role = "MANAGER" /\ posts[row.owner].dept # Nobody
               THEN ActiveManagers(posts[row.owner].dept) ELSE {}
     IN  IF ms # {} THEN a \in ms ELSE a = Chief /\ chiefHere}

-----------------------------------------------------------------------------
(* Waits begin and end *)

FreshWait_KeepsMarks(row) ==          \* mutant: a new wait keeps the marks of the last one
  [row EXCEPT !.state = "PENDING", !.left = Sla]
(* pendingClock: every move to PENDING restarts the clock. *)
FreshWait(row) ==
  [row EXCEPT !.state = "PENDING", !.left = Sla, !.reminded = FALSE, !.escalated = FALSE]

(* routed is the approver role that is stored with it. *)
NewWait(row, routed) == [FreshWait(row) EXCEPT !.role = routed]

Held(e) == sla.step \in {"escalate", "markEscalated"}
           /\ \E c \in sla.claims : c.entry = e
BeginsAnew(e, role) ==
  /\ entries[e] # Nobody /\ ~Waiting(e)
  /\ entries' = [entries EXCEPT ![e] = NewWait(@, role)]
  /\ heard' = [heard EXCEPT ![e] = {}]
  /\ crossed' = IF Held(e) THEN crossed \cup {e} ELSE crossed \ {e}
  /\ astray' = IF role # Route(entries[e].owner) THEN astray \cup {e} ELSE astray \ {e}

(* startScheduled, createSkip, endLive, createPast, away.create; due is      *)
(* Nobody in a row a 3.x process wrote during the deploy.                    *)
Enter(e, p, due) ==
  /\ entries[e] = Nobody /\ posts[p].active
  /\ entries' = [entries EXCEPT ![e] = [owner |-> p, role |-> Route(p), state |-> "PENDING",
                                        left |-> due, reminded |-> FALSE, escalated |-> FALSE]]
  /\ UNCHANGED <<posts, chiefHere, moved, sla, heard, crossed, astray>>

(* approve, reject and bulkApprove. *)
Rule(a, e) ==
  /\ Waiting(e) /\ MayRule(a, e)
  /\ entries' = [entries EXCEPT ![e].state = "DECIDED"]
  /\ UNCHANGED <<posts, chiefHere, moved, sla, heard, crossed, astray>>

(* reopen by an approver: the stored role stays. *)
Reconsider(a, e) ==
  /\ BeginsAnew(e, entries[e].role)
  /\ MayRule(a, e)
  /\ UNCHANGED <<posts, chiefHere, moved, sla>>
(* finishBreak: the owner of a decided break asks for its overrun, which is  *)
(* routed as they are now.                                                   *)
AskAgain(e) ==
  /\ BeginsAnew(e, Route(entries[e].owner))
  /\ UNCHANGED <<posts, chiefHere, moved, sla>>

(* Time passes; due_at < now is overdue. *)
Elapse ==
  /\ entries' = [e \in Entries |->
       IF Waiting(e) /\ entries[e].left \in 0 .. Sla
       THEN [entries[e] EXCEPT !.left = @ - 1] ELSE entries[e]]
  /\ entries' # entries
  /\ UNCHANGED <<posts, chiefHere, moved, sla, heard, crossed, astray>>

-----------------------------------------------------------------------------
(* People move *)

(* updateUser, and setManagers of a department: the event follows the save.  *)
(* The event of a block names no new place.                                  *)
Place(p, post) ==
  /\ post \in Placements[p] /\ posts[p] # post
  /\ posts' = [posts EXCEPT ![p] = post]
  /\ moved' = IF post = [posts[p] EXCEPT !.active = post.active] THEN moved ELSE moved \cup {p}
  /\ UNCHANGED <<entries, chiefHere, sla, heard, crossed, astray>>
(* The Admin's account is blocked or deleted, and there is one again. *)
ChiefChanges ==
  /\ chiefHere' = ~chiefHere
  /\ UNCHANGED <<entries, posts, moved, sla, heard, crossed, astray>>

(* ApprovalRerouteSubscriber and MeetingRerouteSubscriber: only what still   *)
(* waits takes the person's route as it is now.                              *)
HandleMove(p) ==
  /\ p \in moved
  /\ entries' = [e \in Entries |->
       IF Waiting(e) /\ entries[e].owner = p THEN [entries[e] EXCEPT !.role = Route(p)]
                                             ELSE entries[e]]
  /\ moved' = moved \ {p}
  /\ astray' = {e \in astray : ~(Waiting(e) /\ entries[e].owner = p)}
  /\ UNCHANGED <<posts, chiefHere, sla, heard, crossed>>

-----------------------------------------------------------------------------
(* ApprovalsSlaJob.tick *)

NoRun == [step |-> "idle", claims |-> {}, known |-> [k \in Depts \cup {Chief} |-> Nobody],
          done |-> {}]

(* slaCandidates, with the place of the subject at that moment. *)
ReminderDue(row) == ~row.reminded /\ row.left \in 0 .. Soon
EscalationDue(row) == ~row.escalated /\ row.left = Overdue
Claims(rows, column) ==
  LET due(row) == IF column = "reminded" THEN ReminderDue(row) ELSE EscalationDue(row)
  IN  {[entry |-> e, role |-> rows[e].role, owner |-> rows[e].owner,
        dept |-> posts[rows[e].owner].dept] : e \in {x \in Entries : Waiting(x) /\ due(rows[x])}}

(* Recipients: a department's managers and the Admin are looked up once a    *)
(* run, when first needed.                                                   *)
Known(k) == IF sla.known[k] # Nobody THEN sla.known[k]
            ELSE IF k = Chief THEN IF chiefHere THEN {Chief} ELSE {}
            ELSE ActiveManagers(k)
DeptManagers(c) == IF c.role = "MANAGER" /\ c.dept # Nobody THEN Known(c.dept) ELSE {}
WaitsFor(c) == (IF DeptManagers(c) # {} THEN DeptManagers(c) ELSE Known(Chief)) \ {c.owner}
LookedUp(cs, chief) ==
  [k \in Depts \cup {Chief} |->
     IF \/ k # Chief /\ \E c \in cs : c.role = "MANAGER" /\ c.dept = k
        \/ k = Chief /\ (chief \/ \E c \in cs : DeptManagers(c) = {})
     THEN Known(k) ELSE sla.known[k]]
Active(a) == IF a = Chief THEN chiefHere ELSE posts[a].active

(* The run begins: rows without a clock get one, then remindersDue. *)
BeginRun(fill) ==
  LET filled == [e \in Entries |->
        IF Waiting(e) /\ entries[e].left = Nobody THEN [entries[e] EXCEPT !.left = fill]
                                                  ELSE entries[e]]
  IN  /\ sla.step = "idle"
      /\ entries' = filled
      /\ sla' = [NoRun EXCEPT !.step = "remind", !.claims = Claims(filled, "reminded")]
      /\ UNCHANGED <<posts, chiefHere, moved, heard, crossed, astray>>

(* One notice per approver; told are those it reaches. *)
Remind(told) ==
  /\ sla.step = "remind"
  /\ told \subseteq {a \in UNION {WaitsFor(c) : c \in sla.claims} : Active(a)}
  /\ sla' = [sla EXCEPT !.step = "markReminded",
       !.known = LookedUp(sla.claims, FALSE),
       !.done = {c.entry : c \in {x \in sla.claims : WaitsFor(x) \cap told # {}}}]
  /\ UNCHANGED <<entries, posts, chiefHere, moved, heard, crossed, astray>>

(* markReminded, then escalationsDue. *)
MarkReminded ==
  /\ sla.step = "markReminded"
  /\ entries' = [e \in Entries |->
       IF e \in sla.done THEN [entries[e] EXCEPT !.reminded = TRUE] ELSE entries[e]]
  /\ sla' = [sla EXCEPT !.step = "escalate", !.claims = Claims(entries, "escalated"), !.done = {}]
  /\ UNCHANGED <<posts, chiefHere, moved, heard, crossed, astray>>

(* The managers hear of their items, the Admin of all; without an Admin the  *)
(* managers' notice is all there is.                                         *)
ToldManagers(told) == {c.entry : c \in {x \in sla.claims :
                         x.role = "MANAGER" /\ WaitsFor(x) \cap told # {}}}
Marked_Managers(told) ==              \* mutant: only what the managers were told of is marked
  ToldManagers(told)
Marked(told) == IF Chief \in told THEN {c.entry : c \in sla.claims}
                ELSE IF Known(Chief) = {} THEN ToldManagers(told) ELSE {}
Escalate(told) ==
  /\ sla.step = "escalate"
  /\ told \subseteq {a \in Known(Chief) \cup UNION {WaitsFor(c) : c \in sla.claims} : Active(a)}
  /\ sla.claims = {} => told = {}
  /\ sla' = [sla EXCEPT !.step = "markEscalated", !.known = LookedUp(sla.claims, sla.claims # {}),
                        !.done = Marked(told)]
  /\ heard' = [e \in Entries |->
       IF e \in crossed \/ ~\E c \in sla.claims : c.entry = e THEN heard[e]
       ELSE heard[e] \cup (told \cap {Chief})
                     \cup (IF e \in ToldManagers(told) THEN told \ {Chief} ELSE {})]
  /\ UNCHANGED <<entries, posts, chiefHere, moved, crossed, astray>>
(* markEscalated: by id, whatever the row has become. *)
MarkEscalated ==
  /\ sla.step = "markEscalated"
  /\ entries' = [e \in Entries |->
       IF e \in sla.done THEN [entries[e] EXCEPT !.escalated = TRUE] ELSE entries[e]]
  /\ sla' = NoRun
  /\ UNCHANGED <<posts, chiefHere, moved, heard, crossed, astray>>

(* A statement fails: GuardedJob logs it and the next run starts over.  A    *)
(* restart also loses the events that were not handled.                      *)
RunFails ==
  /\ sla.step # "idle"
  /\ sla' = NoRun
  /\ UNCHANGED <<entries, posts, chiefHere, moved, heard, crossed, astray>>
Restart ==
  /\ moved # {}
  /\ moved' = {}
  /\ sla' = NoRun
  /\ astray' = astray \cup {e \in Entries : Waiting(e) /\ entries[e].owner \in moved}
  /\ UNCHANGED <<entries, posts, chiefHere, heard, crossed>>

-----------------------------------------------------------------------------
QueueInit ==
  /\ entries = [e \in Entries |-> Nobody]
  /\ posts \in {f \in [Persons -> UNION {Placements[p] : p \in Persons}] :
                  \A p \in Persons : f[p] \in Placements[p]}
  /\ chiefHere = TRUE
  /\ moved = {}
  /\ sla = NoRun
  /\ heard = [e \in Entries |-> {}]
  /\ crossed = {}
  /\ astray = {}

QueueNext ==
  \/ \E e \in Entries :
       \/ \E p \in Owners, due \in {Sla, Nobody} : Enter(e, p, due)
       \/ \E a \in Persons \cup {Chief} : Rule(a, e) \/ Reconsider(a, e)
       \/ AskAgain(e)
  \/ \E p \in Persons : HandleMove(p) \/ \E post \in Placements[p] : Place(p, post)
  \/ \E fill \in Overdue .. Sla : BeginRun(fill)
  \/ \E told \in SUBSET (Persons \cup {Chief}) : Remind(told) \/ Escalate(told)
  \/ Elapse \/ ChiefChanges \/ MarkReminded \/ MarkEscalated \/ RunFails \/ Restart

QueueSpec == QueueInit /\ [][QueueNext]_queueVars

(* The job runs every 15 minutes; a run that always fails, or whose notice   *)
(* to the Admin always fails, is not what the job promises to survive.       *)
JobFairness ==
  /\ SF_queueVars(\E fill \in Overdue .. Sla : BeginRun(fill))
  /\ SF_queueVars(\E told \in SUBSET (Persons \cup {Chief}) : Remind(told))
  /\ SF_queueVars(MarkReminded)
  /\ SF_queueVars(\E told \in SUBSET (Persons \cup {Chief}) : Escalate(told))
  /\ SF_queueVars(\E told \in SUBSET (Persons \cup {Chief}) : Chief \in told /\ Escalate(told))
  /\ SF_queueVars(MarkEscalated)
  /\ SF_queueVars(sla.done # {} /\ MarkEscalated)

-----------------------------------------------------------------------------
(* Properties *)

(* worktime.jobs, tick: an item is marked escalated only when its present    *)
(* wait is overdue and somebody who can act was told so; the exception is an *)
(* item that began to wait anew while a run held its old one.                *)
EscalationIsTrue ==
  \A e \in Entries \ crossed :
    Waiting(e) /\ View(Chief, e).escalated => View(Chief, e).sla.overdue /\ heard[e] # {}

(* approverScopeOf, scopeSql, canDecide and the digest together: no list     *)
(* offers what its reader may not decide; and once the owner's moves are     *)
(* handled, each item that waits is counted for and shown to somebody who    *)
(* may decide it, and no digest counts what its reader is not shown.  Apart  *)
(* are the items whose re-routing a restart lost, or that were reopened with *)
(* the route of a place their owner had left: the Admin's list has those     *)
(* once they are escalated.                                                  *)
SomebodySeesIt ==
  \A e \in Entries : Waiting(e) =>
    /\ \A a \in Persons \cup {Chief} : e \in Shown(a) => View(a, e).canDecide
    /\ chiefHere /\ entries[e].escalated => e \in Shown(Chief)
    /\ entries[e].owner \notin moved /\ e \notin astray =>
         /\ chiefHere => \E a \in Persons \cup {Chief} : e \in Digest(a)
         /\ \A a \in Persons \cup {Chief} : e \in Digest(a) => e \in Shown(a)

(* worktime.jobs: an overdue item does not stay unescalated while there is   *)
(* an Admin to tell.                                                         *)
OverdueIsEscalated ==
  \A e \in Entries :
    []<>~(chiefHere /\ Waiting(e) /\ entries[e].left = Overdue /\ ~entries[e].escalated)
=============================================================================
