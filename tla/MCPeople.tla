------------------------------ MODULE MCPeople ------------------------------
(* People and their access: in each behaviour the requests go to one part.         *)
(* Sign-in: one person, two requests at a time.  Organisations: one with a manager *)
(* of its one department, another and a second department still to be created, a   *)
(* person of neither, a Super Manager and an unused account, with the sockets of    *)
(* one of them.                                                                    *)
EXTENDS SignIn, Organisation, TLC

CONSTANTS r1, r2, oldOrg, newOrg, deptA, deptB, manager, loose, fresh, chief

VARIABLE part  \* "sign-in", or the organisations with the sockets of this person

MCMoves ==
    (r1 :> {"refresh", "login", "enroll", "agentLogin", "edit", "signOut", "quit", "setPassword"})
 @@ (r2 :> {"refresh", "logout", "status", "changePassword", "delete", "keys", "enroll"})

TheOrgs == [o \in Orgs |-> IF o = oldOrg THEN "live" ELSE "unused"]

TheDepts ==
    [d \in Depts |-> IF d = deptA THEN [org |-> oldOrg, live |-> TRUE]
                     ELSE [org |-> Absent, live |-> FALSE]]

ThePeople ==
    [p \in People |->
       CASE p = manager -> [org |-> oldOrg, dept |-> deptA, role |-> "MANAGER", active |-> TRUE,
                            gone |-> FALSE, managed |-> {deptA}, grant |-> TRUE]
         [] p = loose -> [org |-> Absent, dept |-> Absent, role |-> "ADMIN", active |-> TRUE,
                          gone |-> FALSE, managed |-> {}, grant |-> FALSE]
         [] p = chief -> [org |-> Absent, dept |-> Absent, role |-> "SUPER_MANAGER", active |-> TRUE,
                          gone |-> FALSE, managed |-> {}, grant |-> FALSE]
         [] OTHER -> Absent]

MCInit == Init /\ OrgInit /\ part \in {"sign-in"} \cup People

\* Whose sockets are followed: what one hears does not depend on another's.
Follows == \A p \in People \ {part} : socket'[p] = socket[p]

MCNext ==
    \/ part = "sign-in" /\ Next /\ UNCHANGED <<orgVars, part>>
    \/ part \in People /\ OrgNext /\ Follows /\ UNCHANGED <<vars, part>>

MCSpec == MCInit /\ [][MCNext]_<<vars, orgVars, part>>

Slots == Permutations(OrgRequests)
=============================================================================
