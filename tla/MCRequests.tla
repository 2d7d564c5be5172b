----------------------------- MODULE MCRequests -----------------------------
(* Requests: in each behaviour the agent's journal is replayed, or one caller of *)
(* the API asks about one person; the two share no state.  Two organisations in  *)
(* use and one deleted, a department each and a second one in the first; every   *)
(* role as caller, a manager with every kind of grant.                           *)
EXTENDS MCReplay, Access

CONSTANTS acme, beta, goneOrg, sales, lab, betaDept

VARIABLE part  \* the part that is at work

Person(id, role, org, dept, status, managed, grants) ==
  [id |-> id, role |-> role, org |-> org, dept |-> dept, status |-> status,
   managed |-> managed, grants |-> grants]

Caller(role, org, dept, managed, grants) ==
  Person("caller", role, org, dept, "ACTIVE", managed, grants)

Employees ==
  {Caller("SUPER_ADMIN", NoOrg, NoDept, {}, {}), Caller("SUPER_MANAGER", NoOrg, NoDept, {}, {}),
   Caller("ADMIN", acme, NoDept, {}, {}), Caller("ADMIN", goneOrg, NoDept, {}, {}),
   Caller("MANAGER", acme, NoDept, {}, Sections), Caller("MANAGER", goneOrg, NoDept, {}, Sections),
   Caller("USER", acme, sales, {}, {}), Caller("USER", acme, NoDept, {}, {}),
   Person("caller", "ADMIN", acme, NoDept, "DISABLED", {}, {})}
  \cup {Caller("MANAGER", acme, NoDept, {sales}, g) :
          g \in {{}, {"timeline"}, {"activity"}, {"screenshots"}, Sections}}

Other(role, org, dept, status, managed) == Person("other", role, org, dept, status, managed, {})

MCSubjects ==
  {Other("SUPER_ADMIN", NoOrg, NoDept, "ACTIVE", {}),
   Other("SUPER_MANAGER", NoOrg, NoDept, "ACTIVE", {}),
   Other("ADMIN", acme, NoDept, "ACTIVE", {}), Other("ADMIN", beta, NoDept, "ACTIVE", {}),
   Other("MANAGER", acme, NoDept, "ACTIVE", {sales}),
   Other("MANAGER", acme, NoDept, "DISABLED", {lab}),
   Other("USER", acme, lab, "ACTIVE", {}), Other("USER", acme, NoDept, "ACTIVE", {}),
   Other("USER", beta, betaDept, "ACTIVE", {}), Other("USER", goneOrg, NoDept, "ACTIVE", {})}
  \cup {Other("USER", acme, sales, status, {}) : status \in {"ACTIVE", "DISABLED", "DELETED"}}

RequestsInit ==
  /\ Init /\ AccessInit /\ part \in {"agent", "portal"}
  /\ part = "agent" =>
        self = Caller("USER", acme, sales, {}, {}) /\ who = self /\ header = NoOrg
RequestsNext ==
  \/ part = "agent" /\ Next /\ UNCHANGED <<accessVars, part>>
  \/ part = "portal" /\ AccessNext /\ UNCHANGED <<vars, part>>
RequestsSpec == RequestsInit /\ [][RequestsNext]_<<vars, accessVars, part>>
=============================================================================
