---------------------------- MODULE Organisation ----------------------------
(***************************************************************************)
(* Organisations, their departments and their people: adding, placing,     *)
(* blocking, deleting, and deleting an organisation (organisations/,       *)
(* departments/, users/); the cached "this organisation exists" of the     *)
(* roles that pick one (auth/infrastructure/prisma-auth-user-reader.ts);   *)
(* and the live sockets that follow what a person may see                  *)
(* (shared/websocket/).                                                    *)
(*                                                                         *)
(* A request reads, then writes in a transaction of its own, then          *)
(* announces; each of these is a step.  What adds to an organisation and   *)
(* what deletes it lock its row (shared/database/org-lock.ts).  Saving a   *)
(* person writes the whole row that was read, and locks nothing.           *)
(***************************************************************************)
EXTENDS Naturals, FiniteSets

CONSTANTS Orgs, Depts, People,
          OrgRequests,       \* requests handled at a time
          MaxOrgRequests,    \* bound: requests that are started
          Absent

VARIABLES org,        \* per organisation: "unused", "live" or "deleted"
          dept,       \* per department: its organisation (Absent: unused) and whether it is live
          person,     \* per person: the row, or Absent
          lock,       \* per organisation: the request that holds its row
          cache,      \* per organisation: what was read of it for X-Org-Id, or Absent
          generation, \* bumped when an organisation changes
          request,    \* per slot: the request being handled, or Absent
          socket,     \* per person: their live socket
          started,    \* how many requests were started
          overwritten \* history: people whose row a save wrote back to what it had read

\* Rows of users, with the departments they manage, and of departments.
Roles == {"SUPER_MANAGER", "ADMIN", "MANAGER", "USER"}
PersonRow == [org : Orgs \cup {Absent}, dept : Depts \cup {Absent}, role : Roles,
              active : BOOLEAN, gone : BOOLEAN, managed : SUBSET Depts, grant : BOOLEAN]
DeptRow == [org : Orgs \cup {Absent}, live : BOOLEAN]

Namespaces == {"team", "members"}

\* What a request announces once it has written: the people whose access changed,
\* and whether the organisation itself did.
Announcement == [kind : {"announce"}, stage : {"announce"}, org : Orgs \cup {Absent},
                 people : SUBSET People, isOrg : BOOLEAN]

ASSUME OrgAssumption ==
    /\ Orgs \cap Depts = {}
    /\ Absent \notin Orgs \cup Depts \cup People \cup OrgRequests \cup BOOLEAN
    /\ Absent \notin PersonRow \cup Announcement

orgVars == <<org, dept, person, lock, cache, generation, request, socket, started, overwritten>>

Exists(p) == person[p] # Absent /\ ~person[p].gone

OrgLive(o) == org[o] = "live"

DeptsOf(o) == {d \in Depts : dept[d].org = o /\ dept[d].live}

\* The organisation a row counts for: none when it was deleted.
OrgOf(row) == IF row.org # Absent /\ OrgLive(row.org) THEN row.org ELSE Absent

PeopleOf(o) == {p \in People : Exists(p) /\ person[p].org = o}

AdminsOf(o) == {p \in PeopleOf(o) : person[p].role = "ADMIN"}

ActiveIn(o) == {p \in PeopleOf(o) : person[p].active}

-----------------------------------------------------------------------------
(* Who may do what (shared/tenancy/scope.ts). *)

\* An Admin acts in their own organisation; a Super Admin or the Super Manager in
\* the one they picked, if it exists as far as this process knows.
ActsIn(role, o) ==
    IF role = "ADMIN"
    THEN OrgLive(o) /\ \E p \in AdminsOf(o) : person[p].active
    ELSE IF cache[o] # Absent THEN cache[o] ELSE OrgLive(o)

\* A Super Manager belongs to no organisation: a Super Admin changes them from
\* anywhere, and nobody else does.
MayEdit(role, o, row) ==
    IF row.role = "SUPER_MANAGER" THEN role = "SUPER_ADMIN"
    ELSE /\ ActsIn(role, o) /\ row.org = o
         /\ row.role \in CASE role = "SUPER_ADMIN" -> {"ADMIN", "MANAGER", "USER"}
                           [] role = "ADMIN" -> {"MANAGER", "USER"}
                           [] role = "SUPER_MANAGER" -> {"USER"}

\* Whose role and departments are edited: neither an Admin's nor a Super Manager's.
HasPlacement(row) == row.role \in {"MANAGER", "USER"}

MayGive(role, given) == role = "SUPER_MANAGER" => given = "USER"

\* The rooms a person may hear on a namespace: the team's, of an organisation or of
\* departments; on /notifications the members' room of an organisation.
Rooms(p, namespace) ==
    IF ~Exists(p) \/ ~person[p].active THEN {}
    ELSE CASE person[p].role = "SUPER_MANAGER" -> {o \in Orgs : OrgLive(o)}
           [] person[p].role = "ADMIN" \/ namespace = "members" -> {person[p].org} \ {Absent}
           [] person[p].role = "MANAGER" ->
                IF person[p].grant THEN {d \in person[p].managed : dept[d].live} ELSE {}
           [] OTHER -> {}

\* Of these, the ones a socket joins: a Super Manager's hears the organisation that
\* the handshake names.
Joined(p, namespace, named) ==
    {room \in Rooms(p, namespace) : person[p].role = "SUPER_MANAGER" => room = named}

\* Where somebody may be placed in an organisation: Staff in one department,
\* Managers over one or more, with grants.
Placements(o) ==
    {pl \in [role : {"MANAGER", "USER"}, dept : DeptsOf(o) \cup {Absent},
             managed : SUBSET DeptsOf(o), grant : BOOLEAN] :
        IF pl.role = "USER"
        THEN pl.dept # Absent /\ pl.managed = {} /\ ~pl.grant
        ELSE pl.managed # {}}

Placed(row, pl) ==
    [row EXCEPT !.role = pl.role, !.dept = pl.dept, !.managed = pl.managed, !.grant = pl.grant]

-----------------------------------------------------------------------------
(* Requests. *)

Free(r) == request[r] = Absent /\ started < MaxOrgRequests

BeginQuery(r, q) == request' = [request EXCEPT ![r] = q] /\ started' = started + 1

Continue(r, q) == request' = [request EXCEPT ![r] = q] /\ UNCHANGED started

Finish(r) == Continue(r, Absent)

AtStage(r, kind, stage) ==
    request[r] # Absent /\ request[r].kind = kind /\ request[r].stage = stage

Query(kind, stage, o) == [kind |-> kind, stage |-> stage, org |-> o]

\* mutant: the lock is taken, but the organisation is not read again under it
MayAdd_Locked(o) == lock[o] = Absent

\* lockOrganisation: waits for who holds the row, and refuses a deleted one.
MayAdd(o) == lock[o] = Absent /\ OrgLive(o)

\* After the write the change is announced.
Announcing(o, people, isOrg) ==
    [kind |-> "announce", stage |-> "announce", org |-> o, people |-> people, isOrg |-> isOrg]

Closed == [stage |-> "closed", namespace |-> "team", rooms |-> {}]

\* mutant: a change of role or departments leaves the open sockets alone
Evicted_StatusOnly(p) ==
    IF Exists(p) /\ person[p].active THEN socket[p] ELSE Closed

\* Sockets that already joined the account's room are dropped.
Evicted(p) ==
    IF socket[p].stage \in {"joined", "read", "open"} THEN Closed ELSE socket[p]

Announce(r) ==
    /\ AtStage(r, "announce", "announce")
    /\ LET q == request[r] IN
         /\ socket' = [p \in People |-> IF p \in q.people THEN Evicted(p) ELSE socket[p]]
         /\ generation' = IF q.isOrg THEN generation + 1 ELSE generation
         /\ cache' = IF q.isOrg THEN [cache EXCEPT ![q.org] = Absent] ELSE cache
    /\ Finish(r)
    /\ UNCHANGED <<org, dept, person, lock, overwritten>>

-----------------------------------------------------------------------------
(* Organisations. *)

CreateOrg(r) ==
    /\ Free(r)
    /\ \E o \in Orgs :
         /\ org[o] = "unused"
         /\ org' = [org EXCEPT ![o] = "live"]
         /\ BeginQuery(r, Announcing(o, {}, TRUE))
    /\ UNCHANGED <<dept, person, lock, cache, generation, socket, overwritten>>

\* Names are left out: a rename is its announcement.
RenameOrg(r) ==
    /\ Free(r)
    /\ \E o \in Orgs : OrgLive(o) /\ BeginQuery(r, Announcing(o, {}, TRUE))
    /\ UNCHANGED <<org, dept, person, lock, cache, generation, socket, overwritten>>

\* A cheap refusal first: it counts again under the lock.
AskDeleteOrg(r) ==
    /\ Free(r)
    /\ \E o \in Orgs : OrgLive(o) /\ ActiveIn(o) = {} /\ BeginQuery(r, Query("deleteOrg", "ask", o))
    /\ UNCHANGED <<org, dept, person, lock, cache, generation, socket, overwritten>>

CountDeleteOrg(r) ==
    /\ AtStage(r, "deleteOrg", "ask")
    /\ lock[request[r].org] = Absent
    /\ LET o == request[r].org IN
       IF OrgLive(o) /\ ActiveIn(o) = {}
       THEN /\ lock' = [lock EXCEPT ![o] = r]
            /\ Continue(r, Query("deleteOrg", "counted", o))
       ELSE Finish(r) /\ UNCHANGED lock
    /\ UNCHANGED <<org, dept, person, cache, generation, socket, overwritten>>

DeleteOrg(r) ==
    /\ AtStage(r, "deleteOrg", "counted")
    /\ LET o == request[r].org IN
       /\ person' = [p \in People |->
            IF p \in PeopleOf(o) THEN [person[p] EXCEPT !.gone = TRUE] ELSE person[p]]
       /\ dept' = [d \in Depts |-> IF dept[d].org = o THEN [dept[d] EXCEPT !.live = FALSE]
                                   ELSE dept[d]]
       /\ org' = [org EXCEPT ![o] = "deleted"]
       /\ lock' = [lock EXCEPT ![o] = Absent]
       /\ Continue(r, Announcing(o, {}, TRUE))
    /\ UNCHANGED <<cache, generation, socket, overwritten>>

HasAdmin(o, p) == AdminsOf(o) \ {p} # {}

AskCreateAdmin(r) ==
    /\ Free(r)
    /\ \E o \in Orgs : OrgLive(o) /\ AdminsOf(o) = {} /\ BeginQuery(r, Query("createAdmin", "ask", o))
    /\ UNCHANGED <<org, dept, person, lock, cache, generation, socket, overwritten>>

NewRow(o, pl) ==
    [org |-> o, dept |-> pl.dept, role |-> pl.role, active |-> TRUE, gone |-> FALSE,
     managed |-> pl.managed, grant |-> pl.grant]

AsAdmin == [role |-> "ADMIN", dept |-> Absent, managed |-> {}, grant |-> FALSE]

CreateAdmin(r) ==
    /\ AtStage(r, "createAdmin", "ask")
    /\ LET o == request[r].org IN
       /\ lock[o] = Absent
       /\ IF OrgLive(o) /\ ~HasAdmin(o, Absent)
          THEN \E p \in People :
                 /\ person[p] = Absent
                 /\ person' = [person EXCEPT ![p] = NewRow(o, AsAdmin)]
          ELSE UNCHANGED person
    /\ Finish(r)
    /\ UNCHANGED <<org, dept, lock, cache, generation, socket, overwritten>>

\* Somebody who belongs to no organisation is put into one.
AskAssign(r) ==
    /\ Free(r)
    /\ \E o \in Orgs, p \in People :
         /\ OrgLive(o) /\ Exists(p) /\ OrgOf(person[p]) = Absent
         /\ person[p].role # "SUPER_MANAGER"
         /\ person[p].role = "ADMIN" => ~HasAdmin(o, p)
         /\ BeginQuery(r, [kind |-> "assign", stage |-> "ask", org |-> o, person |-> p])
    /\ UNCHANGED <<org, dept, person, lock, cache, generation, socket, overwritten>>

ReadAssign(r) ==
    /\ AtStage(r, "assign", "ask")
    /\ LET q == request[r] IN
       /\ lock[q.org] = Absent
       /\ IF /\ MayAdd(q.org) /\ Exists(q.person) /\ OrgOf(person[q.person]) = Absent
             /\ person[q.person].role = "ADMIN" => ~HasAdmin(q.org, q.person)
          THEN /\ lock' = [lock EXCEPT ![q.org] = r]
               /\ Continue(r, [q EXCEPT !.stage = "read"])
          ELSE Finish(r) /\ UNCHANGED lock
    /\ UNCHANGED <<org, dept, person, cache, generation, socket, overwritten>>

Assign(r) ==
    /\ AtStage(r, "assign", "read")
    /\ LET q == request[r] IN
       /\ person' = [person EXCEPT
            ![q.person] = [@ EXCEPT !.org = q.org, !.dept = Absent, !.managed = {}, !.grant = FALSE]]
       /\ lock' = [lock EXCEPT ![q.org] = Absent]
       /\ Continue(r, Announcing(q.org, {q.person}, FALSE))
    /\ UNCHANGED <<org, dept, cache, generation, socket, overwritten>>

-----------------------------------------------------------------------------
(* Departments. *)

Deciders == {"ADMIN", "SUPER_ADMIN"}

CreateDept(r) ==
    /\ Free(r)
    /\ \E o \in Orgs, role \in Deciders, d \in Depts :
         /\ ActsIn(role, o) /\ MayAdd(o) /\ dept[d].org = Absent
         /\ dept' = [dept EXCEPT ![d] = [org |-> o, live |-> TRUE]]
    /\ started' = started + 1
    /\ UNCHANGED <<org, person, lock, cache, generation, request, socket, overwritten>>

\* The staff are counted before the transaction.
AskRemoveDept(r) ==
    /\ Free(r)
    /\ \E o \in Orgs, role \in Deciders : \E d \in DeptsOf(o) :
         /\ ActsIn(role, o)
         /\ ~\E p \in ActiveIn(o) : person[p].dept = d /\ person[p].role = "USER"
         /\ BeginQuery(r, [kind |-> "removeDept", stage |-> "ask", org |-> o, dept |-> d])
    /\ UNCHANGED <<org, dept, person, lock, cache, generation, socket, overwritten>>

RemoveDept(r) ==
    /\ AtStage(r, "removeDept", "ask")
    /\ LET q == request[r]
           managers == {p \in People : person[p] # Absent /\ q.dept \in person[p].managed}
       IN /\ person' = [p \in People |->
               IF person[p] = Absent THEN Absent
               ELSE [person[p] EXCEPT !.managed = @ \ {q.dept},
                                      !.dept = IF @ = q.dept THEN Absent ELSE @]]
          /\ dept' = [dept EXCEPT ![q.dept].live = FALSE]
          /\ Continue(r, Announcing(q.org, managers, FALSE))
    /\ UNCHANGED <<org, lock, cache, generation, socket, overwritten>>

-----------------------------------------------------------------------------
(* People. *)

Editors == {"ADMIN", "SUPER_ADMIN", "SUPER_MANAGER"}

\* The placement is resolved from the departments as they are now.
AskCreateUser(r) ==
    /\ Free(r)
    /\ \E o \in Orgs, role \in Editors : \E pl \in Placements(o) :
         /\ ActsIn(role, o) /\ MayGive(role, pl.role)
         /\ BeginQuery(r, [kind |-> "createUser", stage |-> "ask", org |-> o, placement |-> pl])
    /\ UNCHANGED <<org, dept, person, lock, cache, generation, socket, overwritten>>

CreateUser(r) ==
    /\ AtStage(r, "createUser", "ask")
    /\ LET q == request[r] IN
       /\ lock[q.org] = Absent
       /\ IF MayAdd(q.org)
          THEN \E p \in People :
                 /\ person[p] = Absent
                 /\ person' = [person EXCEPT ![p] = NewRow(q.org, q.placement)]
          ELSE UNCHANGED person
    /\ Finish(r)
    /\ UNCHANGED <<org, dept, lock, cache, generation, socket, overwritten>>

\* What an edit makes of the row it has read, whether it writes the departments a
\* manager oversees, and whether it is announced.
Edit(p, row, links, announced) ==
    [kind |-> "edit", stage |-> "read", org |-> Absent, person |-> p, read |-> person[p],
     row |-> row, links |-> links, announced |-> announced]

\* Their own name, password or tracking: nothing the rest of the model sees.
EditSelf(r) ==
    /\ Free(r)
    /\ \E p \in People :
         Exists(p) /\ person[p].active /\ BeginQuery(r, Edit(p, person[p], FALSE, FALSE))
    /\ UNCHANGED <<org, dept, person, lock, cache, generation, socket, overwritten>>

EditPlacement(r) ==
    /\ Free(r)
    /\ \E o \in Orgs, role \in Editors, p \in People : \E pl \in Placements(o) :
         /\ Exists(p) /\ MayEdit(role, o, person[p]) /\ HasPlacement(person[p])
         /\ pl.role # person[p].role => MayGive(role, pl.role)
         /\ BeginQuery(r, Edit(p, Placed(person[p], pl), TRUE, Placed(person[p], pl) # person[p]))
    /\ UNCHANGED <<org, dept, person, lock, cache, generation, socket, overwritten>>

EditGrants(r) ==
    /\ Free(r)
    /\ \E o \in Orgs, role \in Deciders, p \in People, grant \in BOOLEAN :
         /\ Exists(p) /\ MayEdit(role, o, person[p])
         /\ person[p].role = "MANAGER" /\ person[p].grant # grant
         /\ BeginQuery(r, Edit(p, [person[p] EXCEPT !.grant = grant], FALSE, TRUE))
    /\ UNCHANGED <<org, dept, person, lock, cache, generation, socket, overwritten>>

\* Blocks or unblocks; unblocking leaves the sockets alone, blocking drops them.
EditStatus(r) ==
    /\ Free(r)
    /\ \E o \in Orgs, role \in Editors, p \in People, active \in BOOLEAN :
         /\ Exists(p) /\ MayEdit(role, o, person[p])
         /\ BeginQuery(r, Edit(p, [person[p] EXCEPT !.active = active], FALSE,
                          person[p].active /\ ~active))
    /\ UNCHANGED <<org, dept, person, lock, cache, generation, socket, overwritten>>

\* Adding the address of a blocked account again takes the account back.
Reactivate(r) ==
    /\ Free(r)
    /\ \E o \in Orgs, role \in Editors, p \in People : \E pl \in Placements(o) :
         /\ MayGive(role, pl.role) /\ Exists(p) /\ ~person[p].active
         /\ HasPlacement(person[p]) /\ MayEdit(role, o, person[p])
         /\ BeginQuery(r, Edit(p, [Placed(person[p], pl) EXCEPT !.active = TRUE], TRUE, TRUE))
    /\ UNCHANGED <<org, dept, person, lock, cache, generation, socket, overwritten>>

\* The whole row, but not whether the person is deleted; the departments a manager
\* oversees only when the edit was about them.
SaveUser(r) ==
    /\ AtStage(r, "edit", "read")
    /\ LET q == request[r]
           now == person[q.person]
       IN /\ person' = [person EXCEPT ![q.person] =
               [q.row EXCEPT !.gone = now.gone,
                             !.managed = IF q.links THEN @ ELSE now.managed]]
          /\ overwritten' = IF [now EXCEPT !.gone = FALSE] # q.read
                            THEN overwritten \cup {q.person} ELSE overwritten
          /\ IF q.announced THEN Continue(r, Announcing(Absent, {q.person}, FALSE)) ELSE Finish(r)
    /\ UNCHANGED <<org, dept, lock, cache, generation, socket>>

DeleteUser(r) ==
    /\ Free(r)
    /\ \E o \in Orgs, role \in Editors, p \in People :
         /\ Exists(p) /\ MayEdit(role, o, person[p])
         /\ person' = [person EXCEPT ![p].gone = TRUE]
         /\ BeginQuery(r, Announcing(Absent, {p}, FALSE))
    /\ UNCHANGED <<org, dept, lock, cache, generation, socket, overwritten>>

-----------------------------------------------------------------------------
(* The organisation picked with X-Org-Id. *)

\* mutant: what was read is kept whatever happened since
MayKeep_Always(read) == TRUE

\* A read that began before an organisation changed is not kept.
MayKeep(read) == read = generation

ReadOrg(r) ==
    /\ Free(r)
    /\ \E o \in Orgs :
         /\ cache[o] = Absent
         /\ BeginQuery(r, [kind |-> "look", stage |-> "read", org |-> o,
                      found |-> OrgLive(o), generation |-> generation])
    /\ UNCHANGED <<org, dept, person, lock, cache, generation, socket, overwritten>>

KeepOrg(r) ==
    /\ AtStage(r, "look", "read")
    /\ LET q == request[r] IN
       cache' = IF MayKeep(q.generation) THEN [cache EXCEPT ![q.org] = q.found] ELSE cache
    /\ Finish(r)
    /\ UNCHANGED <<org, dept, person, lock, generation, socket, overwritten>>

\* 30 seconds have passed.
ForgetOrg ==
    /\ \E o \in Orgs : cache[o] # Absent /\ cache' = [cache EXCEPT ![o] = Absent]
    /\ UNCHANGED <<org, dept, person, lock, generation, request, socket, started, overwritten>>

-----------------------------------------------------------------------------
(* Live sockets, one a person at a time, of either namespace: the account is       *)
(* checked, the socket joins the account's room, the rooms are read, and joined.    *)

SocketStep(p, from, to, namespace, rooms) ==
    /\ socket[p].stage = from
    /\ socket' = [socket EXCEPT ![p] = [stage |-> to, namespace |-> namespace, rooms |-> rooms]]
    /\ UNCHANGED <<org, dept, person, lock, cache, generation, request, started, overwritten>>

Connect(p) ==
    /\ Exists(p) /\ person[p].active
    /\ \E namespace \in Namespaces : SocketStep(p, "closed", "checked", namespace, {})
JoinAccount(p) == SocketStep(p, "checked", "joined", socket[p].namespace, {})
ReadRooms(p) ==
    \E named \in Orgs :
        SocketStep(p, "joined", "read", socket[p].namespace, Joined(p, socket[p].namespace, named))
JoinRooms(p) == SocketStep(p, "read", "open", socket[p].namespace, socket[p].rooms)
Disconnect(p) == SocketStep(p, "open", "closed", "team", {})

-----------------------------------------------------------------------------

CONSTANTS InitialOrgs, InitialDepts, InitialPeople

\* The database the process starts with: whoever and whatever lives belongs to a
\* live organisation or to none, a Super Manager to none, each organisation has one
\* Admin at most, and Managers oversee departments of their own organisation.
ASSUME DatabaseAssumption ==
    LET rows == {p \in People : InitialPeople[p] # Absent}
        admins(o) == {p \in rows : /\ InitialPeople[p].org = o /\ ~InitialPeople[p].gone
                                   /\ InitialPeople[p].role = "ADMIN"}
    IN  /\ InitialOrgs \in [Orgs -> {"unused", "live", "deleted"}]
        /\ InitialDepts \in [Depts -> DeptRow]
        /\ InitialPeople \in [People -> PersonRow \cup {Absent}]
        /\ \A o \in Orgs : InitialOrgs[o] = "deleted" =>
             /\ \A p \in rows : InitialPeople[p].org = o => InitialPeople[p].gone
             /\ \A d \in Depts : InitialDepts[d].org = o => ~InitialDepts[d].live
        /\ \A p \in rows, o \in Orgs : InitialPeople[p].org = o => InitialOrgs[o] # "unused"
        /\ \A p \in rows : InitialPeople[p].role = "SUPER_MANAGER" => InitialPeople[p].org = Absent
        /\ \A p \in rows : \A d \in InitialPeople[p].managed :
             InitialPeople[p].org \in Orgs /\ InitialDepts[d].org = InitialPeople[p].org
        /\ \A o \in Orgs : \A p1, p2 \in admins(o) : p1 = p2

OrgInit ==
    /\ org = InitialOrgs
    /\ dept = InitialDepts
    /\ person = InitialPeople
    /\ lock = [o \in Orgs |-> Absent]
    /\ cache = [o \in Orgs |-> Absent]
    /\ generation = 0
    /\ request = [r \in OrgRequests |-> Absent]
    /\ socket = [p \in People |-> Closed]
    /\ started = 0
    /\ overwritten = {}

Handle(r) ==
    \/ Announce(r)
    \/ CreateOrg(r) \/ RenameOrg(r) \/ AskDeleteOrg(r) \/ CountDeleteOrg(r) \/ DeleteOrg(r)
    \/ AskCreateAdmin(r) \/ CreateAdmin(r) \/ AskAssign(r) \/ ReadAssign(r) \/ Assign(r)
    \/ CreateDept(r) \/ AskRemoveDept(r) \/ RemoveDept(r)
    \/ AskCreateUser(r) \/ CreateUser(r)
    \/ EditSelf(r) \/ EditPlacement(r) \/ EditGrants(r) \/ EditStatus(r) \/ Reactivate(r)
    \/ SaveUser(r) \/ DeleteUser(r)
    \/ ReadOrg(r) \/ KeepOrg(r)

SocketNext(p) == Connect(p) \/ JoinAccount(p) \/ ReadRooms(p) \/ JoinRooms(p) \/ Disconnect(p)

OrgNext == (\E r \in OrgRequests : Handle(r)) \/ ForgetOrg \/ (\E p \in People : SocketNext(p))

OrgSpec == OrgInit /\ [][OrgNext]_orgVars

-----------------------------------------------------------------------------
(* Properties. *)

\* A deleted organisation keeps no department and nobody: who is added at the same
\* moment is counted or refused (organisations.service.ts "never left in a deleted
\* organisation", org-lock.ts).  People whose assignment a save of their row wrote
\* over are apart.
NobodyLeftBehind ==
    \A o \in Orgs : org[o] = "deleted" => PeopleOf(o) \subseteq overwritten /\ DeptsOf(o) = {}

\* At most one Admin per organisation, whatever creations and assignments race
\* (prisma-organisation.store.ts: "one Admin per organisation" holds under races).
OneAdmin == \A o \in Orgs : Cardinality(AdminsOf(o) \ overwritten) <= 1

\* Both, which the lock of the organisation's row (org-lock.ts) is there for.
PlacesHold == NobodyLeftBehind /\ OneAdmin

Announced(o) == \A r \in OrgRequests : ~(AtStage(r, "announce", "announce") /\ request[r].isOrg
                                        /\ request[r].org = o)

\* Once its deletion is announced, nobody acts in a deleted organisation any more:
\* no earlier read of it is kept (prisma-auth-user-reader.ts orgExists, generation).
DeletionIsNoticed ==
    \A o \in Orgs : org[o] = "deleted" /\ Announced(o) => cache[o] # TRUE

IsUnannounced(p) == \E r \in OrgRequests : AtStage(r, "announce", "announce") /\ p \in request[r].people

IsLiveRoom(room) == IF room \in Orgs THEN OrgLive(room) ELSE dept[room].live

\* Once a change of somebody's access is announced, their open socket hears no live
\* organisation or department they may not see, nor its members' room: a socket that
\* read its rooms before the change is dropped, one that reads them later gets the new
\* ones
\* (socket-access.service.ts, authenticated.gateway.ts).
LiveRoomsFollowAccess ==
    \A p \in People \ overwritten :
        socket[p].stage = "open" /\ ~IsUnannounced(p) =>
            \A room \in socket[p].rooms :
                IsLiveRoom(room) => room \in Rooms(p, socket[p].namespace)
=============================================================================
