------------------------------- MODULE Scope -------------------------------
(* Who may read and change whom: the tenancy rules every service of the program *)
(* asks, as operators on a caller and a person.  A refusal is the code of the    *)
(* error thrown, "OK" that none is.                                              *)
EXTENDS Naturals, Sequences

CONSTANTS
    Orgs,      \* organisations
    LiveOrgs,  \* those not deleted
    NoOrg,     \* no organisation
    NoDept     \* no department

ASSUME OrgsAssumption == LiveOrgs \subseteq Orgs /\ NoOrg \notin Orgs

Sections == {"screenshots", "timeline", "activity"}
Overseers == {"SUPER_ADMIN", "SUPER_MANAGER", "ADMIN", "MANAGER"}
OrgAdmins == {"SUPER_ADMIN", "ADMIN"}
Roles == Overseers \cup {"USER"}

SeesEveryOrg(role) == role \in {"SUPER_ADMIN", "SUPER_MANAGER"}

AssignableRoles(role) ==
  CASE role = "SUPER_ADMIN" -> {"SUPER_MANAGER", "MANAGER", "USER"}
    [] role = "ADMIN" -> {"MANAGER", "USER"}
    [] role = "SUPER_MANAGER" -> {"USER"}
    [] OTHER -> {}

-----------------------------------------------------------------------------
(* The caller of a request: a stored person and the X-Org-Id header. *)

LoadById(p, header) ==
  LET every == SeesEveryOrg(p.role)
      gone == ~every /\ p.org \in Orgs \ LiveOrgs
      manages == p.role = "MANAGER"
  IN [id |-> p.id, role |-> p.role, org |-> p.org, dept |-> p.dept, orgDeleted |-> gone,
      orgId |-> IF every THEN IF header \in LiveOrgs THEN header ELSE NoOrg
                ELSE IF gone THEN NoOrg ELSE p.org,
      headerInvalid |-> every /\ header # NoOrg /\ header \notin LiveOrgs,
      managed |-> IF manages THEN p.managed ELSE {},
      grants |-> IF manages THEN p.grants ELSE {}]

\* getAllAndOverride: the roles of the method replace those of its class.
Admitted(roles, me) == me.role \in roles

-----------------------------------------------------------------------------
(* The organisation a request acts in. *)

OrgOf(me) ==
  IF me.orgDeleted THEN NoOrg
  ELSE IF SeesEveryOrg(me.role) \/ me.orgId # NoOrg THEN me.orgId ELSE me.org

RequireOrg(me) ==
  IF me.headerInvalid \/ me.orgDeleted THEN "ORG_NOT_FOUND"
  ELSE IF OrgOf(me) # NoOrg THEN "OK"
  ELSE IF SeesEveryOrg(me.role) THEN "ORG_REQUIRED" ELSE "NO_ORGANISATION"

OrgInView(me) == IF SeesEveryOrg(me.role) THEN me.orgId ELSE OrgOf(me)

RequireView(me) ==
  IF me.headerInvalid THEN "ORG_NOT_FOUND"
  ELSE IF SeesEveryOrg(me.role) THEN "OK" ELSE RequireOrg(me)

AllOrgsInView(me) == SeesEveryOrg(me.role) /\ ~me.headerInvalid /\ me.orgId = NoOrg

ActingIn(me, org) ==
  IF SeesEveryOrg(me.role)
  THEN [me EXCEPT !.orgId = org, !.headerInvalid = FALSE, !.orgDeleted = FALSE]
  ELSE me

-----------------------------------------------------------------------------
(* What the caller's role and grants open. *)

IsAdminLike(me) == me.role \in OrgAdmins
IsSuperManager(me) == me.role = "SUPER_MANAGER"
SeesWholeOrg(me) == IsAdminLike(me) \/ IsSuperManager(me)
IsManager(me) == me.role = "MANAGER"

GrantsOf(me) == IF SeesWholeOrg(me) THEN Sections ELSE IF IsManager(me) THEN me.grants ELSE {}
HasAnyGrant(me) == GrantsOf(me) # {}
AssertAnyGrant(me) == IF HasAnyGrant(me) THEN "OK" ELSE "GRANT_REQUIRED"
ManagedDeptIds(me) == IF IsManager(me) THEN me.managed ELSE {}
VisibleDeptIds(me, all) == IF SeesWholeOrg(me) THEN all ELSE ManagedDeptIds(me)

-----------------------------------------------------------------------------
(* One person. *)

InMyOrg(me, t) == OrgOf(me) # NoOrg /\ t.org = OrgOf(me)
InMyDepts(me, t) == t.role = "USER" /\ t.dept \in ManagedDeptIds(me)

\* mutant: an organisation in view is not asked for
CanSeePerson_Anywhere(me, t) ==
  \/ t.id = me.id
  \/ t.role # "SUPER_ADMIN" /\ (SeesWholeOrg(me) \/ (InMyOrg(me, t) /\ InMyDepts(me, t)))

CanSeePerson(me, t) ==
  \/ t.id = me.id
  \/ t.role # "SUPER_ADMIN" /\ InMyOrg(me, t) /\ (SeesWholeOrg(me) \/ InMyDepts(me, t))

CanEditPerson(me, t) ==
  /\ t.id # me.id /\ t.role # "SUPER_ADMIN"
  /\ \/ t.role = "SUPER_MANAGER" /\ me.role = "SUPER_ADMIN"
     \/ /\ t.role # "SUPER_MANAGER" /\ InMyOrg(me, t)
        /\ \/ me.role = "SUPER_ADMIN"
           \/ me.role = "ADMIN" /\ t.role \in {"MANAGER", "USER"}
           \/ me.role = "SUPER_MANAGER" /\ t.role = "USER"

CanViewSection(me, t, section) ==
  t.id = me.id \/ (CanSeePerson(me, t) /\ section \in GrantsOf(me))

\* A row that a lookup of people who are not deleted, or of anyone ever, finds.
Found(t) == t.status \in {"ACTIVE", "DISABLED"}
Stored(t) == t.status # "MISSING"

AssertCanSee(me, t) == IF Found(t) /\ CanSeePerson(me, t) THEN "OK" ELSE "NOT_FOUND"

AssertCanEdit(me, t) ==
  IF ~Found(t) \/ ~(CanSeePerson(me, t) \/ CanEditPerson(me, t)) THEN "NOT_FOUND"
  ELSE IF CanEditPerson(me, t) THEN "OK" ELSE "FORBIDDEN"

AssertCanViewSection(me, t, section) ==
  IF ~Found(t) \/ ~CanSeePerson(me, t) THEN "NOT_FOUND"
  ELSE IF CanViewSection(me, t, section) THEN "OK" ELSE "GRANT_REQUIRED"

-----------------------------------------------------------------------------
(* Lists: whether t is among the people a query selects. *)

PeopleWhere(me, t) ==
  /\ t.org = OrgOf(me) /\ t.role # "SUPER_ADMIN" /\ Found(t)
  /\ SeesWholeOrg(me) \/ InMyDepts(me, t)

PeopleWhereAnyOrg(me, t) ==
  IF ~SeesEveryOrg(me.role) \/ OrgInView(me) # NoOrg THEN PeopleWhere(me, t)
  ELSE t.org \in LiveOrgs /\ t.role # "SUPER_ADMIN" /\ Found(t)

-----------------------------------------------------------------------------
(* Combined views: the callers a list is built for, one organisation at a time. *)

Plan(me) ==
  IF AllOrgsInView(me) THEN {ActingIn(me, o) : o \in LiveOrgs} ELSE {me}

RequirePlan(me) == IF AllOrgsInView(me) THEN "OK" ELSE RequireOrg(me)

\* The caller a one-person report is read as; a person of no live organisation is unknown.
ActingForPerson(me, t) ==
  IF AllOrgsInView(me) /\ Stored(t) /\ t.org \in LiveOrgs THEN ActingIn(me, t.org) ELSE me

RequireActing(me, t) ==
  IF AllOrgsInView(me) /\ ~(Stored(t) /\ t.org \in LiveOrgs) THEN "NOT_FOUND" ELSE "OK"

-----------------------------------------------------------------------------
(* The first refusal of a handler's checks, in their order. *)

Refusal(checks) ==
  LET refusing == {i \in DOMAIN checks : checks[i] # "OK"}
  IN IF refusing = {} THEN "OK"
     ELSE checks[CHOOSE i \in refusing : \A j \in refusing : i <= j]
=============================================================================
