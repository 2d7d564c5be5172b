------------------------------- MODULE Access -------------------------------
(* The doors of the API: which caller is answered, about which person, with what. *)
(* A request passes its controller's guards and then the checks of its service;   *)
(* one person asks about another, themselves or nobody, while either may change.  *)
EXTENDS Scope

CONSTANTS
    Staffed,   \* the people who ask (their ids are "caller")
    Headers,   \* the values of X-Org-Id, NoOrg for none
    Subjects,  \* what the other person may be (their ids are "other")
    Nothing,   \* no request asked, no ticket taken
    MaxUses    \* times a ticket is presented

\* An id no row has.
Unknown == [id |-> "nobody", role |-> "USER", org |-> NoOrg, dept |-> NoDept,
            status |-> "MISSING", managed |-> {}, grants |-> {}]

VARIABLES
    self,      \* the stored caller
    header,    \* X-Org-Id of the requests
    who,       \* the person asked about
    asked,     \* a request and its answer, or Nothing
    ticket     \* a download ticket, or Nothing

accessVars == <<self, header, who, asked, ticket>>

Me == LoadById(self, header)

Reply(checks, shows) ==
  LET code == Refusal(checks) IN [code |-> code, shows |-> IF code = "OK" THEN shows ELSE {}]

Must(holds, code) == IF holds THEN "OK" ELSE code
Mine(me, t) == t.id = me.id

\* What a reader with these grants is shown of a person's parts.
Granted(me, t) == IF Mine(me, t) THEN Sections ELSE GrantsOf(me)

-----------------------------------------------------------------------------
(* People. *)

ListScopeFor(me, t) ==
  IF SeesEveryOrg(me.role) /\ OrgInView(me) = NoOrg
  THEN t.org \in LiveOrgs /\ t.role # "SUPER_ADMIN"
  ELSE IF OrgOf(me) = NoOrg THEN Mine(me, t)
  ELSE IF SeesWholeOrg(me) THEN t.org = OrgOf(me) /\ t.role # "SUPER_ADMIN"
  ELSE IF IsManager(me) THEN t.org = OrgOf(me) /\ InMyDepts(me, t)
  ELSE Mine(me, t)

ListUsers(me, t) ==
  Reply(<<Must(~me.headerInvalid, "ORG_NOT_FOUND")>>,
         IF Found(t) /\ ListScopeFor(me, t)
         THEN IF SeesWholeOrg(me) THEN {"listed", "profile"} ELSE {"listed", "name"}
         ELSE {})

GetProfile(me, t) ==
  Reply(<<AssertCanSee(me, t)>>,
         IF Mine(me, t) \/ SeesWholeOrg(me) THEN {"profile"} ELSE {"name"})

AssertCanAssignRole(me, role) ==
  Must(role \in {"SUPER_MANAGER", "MANAGER", "USER"} => role \in AssignableRoles(me.role),
       "ROLE_NOT_ALLOWED")

\* Only Managers and Staff are placed: everything else is made elsewhere.
ResolvePlacement(role) == Must(role \in {"MANAGER", "USER"}, "ROLE_NOT_ALLOWED")

\* The address may be that of t: only a blocked account the caller may change is reused.
Reusable(me, t) ==
  /\ t.status = "DISABLED" /\ t.role \notin {"SUPER_ADMIN", "SUPER_MANAGER", "ADMIN"}
  /\ CanEditPerson(me, t)

CreateUser(me, t, role) ==
  Reply(<<Must(SeesWholeOrg(me), "FORBIDDEN"), RequireOrg(me), AssertCanAssignRole(me, role),
           ResolvePlacement(role), Must(~Found(t) \/ Reusable(me, t), "EMAIL_IN_USE")>>,
         {"edited"})

\* A change of role and departments, of oneself a change of name.
UpdateUser(me, t, role) ==
  IF Mine(me, t) THEN Reply(<<"FORBIDDEN">>, {})
  ELSE Reply(<<AssertCanEdit(me, t), Must(t.role # "SUPER_MANAGER", "FORBIDDEN"),
                IF role = t.role THEN "OK" ELSE AssertCanAssignRole(me, role), RequireOrg(me),
                Must(t.role # "ADMIN", "FORBIDDEN"), ResolvePlacement(role)>>,
              {"edited"})

SetGrants(me, t) ==
  Reply(<<Must(~IsSuperManager(me), "FORBIDDEN"), AssertCanEdit(me, t),
           Must(t.role = "MANAGER", "BAD_REQUEST")>>, {"edited"})

SetIdle(me, t) ==
  Reply(<<Must(~IsSuperManager(me), "FORBIDDEN"), AssertCanEdit(me, t),
           Must(t.role # "SUPER_MANAGER", "BAD_REQUEST"), RequireOrg(me)>>, {"edited"})

SetStatus(me, t) ==
  Reply(<<Must(me.role # "USER", "FORBIDDEN"), Must(~Mine(me, t), "BAD_REQUEST"),
           AssertCanEdit(me, t)>>, {"edited"})

SetPassword(me, t) ==
  Reply(<<Must(~Mine(me, t), "BAD_REQUEST"), AssertCanEdit(me, t)>>, {"edited"})

SetScreenshots(me, t) ==
  Reply(<<Must(me.role # "USER", "FORBIDDEN"), AssertCanEdit(me, t)>>, {"edited"})

DeleteUser(me, t) == SetStatus(me, t)

SuperManagers(me, t) ==
  Reply(<<Must(me.role = "SUPER_ADMIN", "FORBIDDEN")>>,
         IF t.role = "SUPER_MANAGER" /\ Found(t) THEN {"listed"} ELSE {})

-----------------------------------------------------------------------------
(* Activity, presence and screenshots of a person. *)

CurrentActivity(me, t) ==
  Reply(<<IF Mine(me, t) THEN "OK" ELSE AssertCanViewSection(me, t, "timeline")>>,
         {"status"} \cup IF me.role = "USER" THEN {} ELSE {"timeline"})

DailyActivity(me, t) ==
  Reply(IF Mine(me, t) THEN <<>>
         ELSE <<AssertCanSee(me, t),
                Must(GrantsOf(me) \cap {"timeline", "activity"} # {}, "GRANT_REQUIRED")>>,
         {"status"} \cup IF me.role = "USER" THEN {}
                         ELSE Granted(me, t) \cap {"timeline", "activity"})

\* findReports: the active people the caller oversees.
Reports(me, t) == PeopleWhere(me, t) /\ t.status = "ACTIVE"

ActivityLive(me, t) ==
  Reply(<<Must("timeline" \in GrantsOf(me), "GRANT_REQUIRED"), RequireOrg(me)>>,
         IF Reports(me, t) THEN {"listed", "timeline"} ELSE {})

\* PeopleScopeService: who is in reach of reports and views of days.
AssertManagerOrAdmin(me) ==
  Refusal(<<Must(SeesWholeOrg(me) \/ IsManager(me), "FORBIDDEN"), RequireOrg(me)>>)

ScopePerson(me, t) ==
  Refusal(<<AssertManagerOrAdmin(me), Must(Stored(t) /\ CanSeePerson(me, t), "NOT_FOUND")>>)

PersonSection(me, t, section) ==
  Refusal(<<ScopePerson(me, t), Must(CanViewSection(me, t, section), "GRANT_REQUIRED")>>)

FilterFor(me, t) ==
  IF SeesWholeOrg(me) THEN t.org = OrgOf(me) /\ t.role # "SUPER_ADMIN"
  ELSE t.org = OrgOf(me) /\ InMyDepts(me, t)

HourlyActivity(me, t) ==
  Reply(<<Must(me.role # "USER", "FORBIDDEN"), PersonSection(me, t, "activity")>>, {"activity"})

GetAnalytics(me, t) ==
  Reply(IF Mine(me, t) THEN <<>>
         ELSE <<AssertCanSee(me, t),
                Must(GrantsOf(me) \cap {"timeline", "activity"} # {}, "GRANT_REQUIRED")>>,
         {"day"} \cup (Granted(me, t) \cap {"timeline", "activity"}))

GetProductivity(me, t) ==
  Reply(IF Mine(me, t) THEN <<>>
         ELSE <<RequireOrg(me), Must(Reports(me, t), "NOT_FOUND"), AssertAnyGrant(me)>>,
         {"day"} \cup (Granted(me, t) \cap {"activity"}))

PresenceScope(me, t) ==
  Refusal(<<RequireOrg(me), Must(Reports(me, t), "NOT_FOUND"),
            IF Mine(me, t) THEN "OK" ELSE AssertAnyGrant(me)>>)

GetUserHistory(me, t) ==
  Reply(<<PresenceScope(me, t)>>, {"day"} \cup (Granted(me, t) \cap {"activity"}))

GetUserTimeline(me, t) ==
  Reply(<<PresenceScope(me, t), Must("timeline" \in Granted(me, t), "GRANT_REQUIRED")>>,
         {"timeline"} \cup (Granted(me, t) \cap {"activity"}))

CurrentPresence(me, t) == Reply(<<PresenceScope(me, t)>>, {"status"})

PresenceLive(me, t) ==
  Reply(<<AssertAnyGrant(me), RequireOrg(me)>>,
         IF Reports(me, t) THEN {"listed", "status"} ELSE {})

PresenceSummary(me, t) ==
  Reply(<<AssertAnyGrant(me), RequireOrg(me)>>,
         IF Reports(me, t) THEN {"listed", "day"} \cup (GrantsOf(me) \cap {"activity"}) ELSE {})

ScreenshotAccess(me, t, change) ==
  IF Mine(me, t) /\ ~change THEN "OK"
  ELSE Refusal(<<AssertCanViewSection(me, t, "screenshots"),
                 Must(change => IsAdminLike(me), "FORBIDDEN")>>)

ListScreenshots(me, t) == Reply(<<ScreenshotAccess(me, t, FALSE)>>, {"screenshots"})
ExportScreenshots(me, t) == Reply(<<ScreenshotAccess(me, t, FALSE)>>, {"screenshots"})
RequestCapture(me, t) == Reply(<<ScreenshotAccess(me, t, TRUE)>>, {"captured"})

ArchiveScreenshots(me, t) ==
  Reply(<<Must(~Mine(me, t), "FORBIDDEN"), ScreenshotAccess(me, t, TRUE)>>, {"edited"})

-----------------------------------------------------------------------------
(* Reports.  Someone no longer active is taken to have worked in the period asked. *)

InScope(me, t) == Stored(t) /\ FilterFor(me, t)
InPlan(me, t) == \E m \in Plan(me) : InScope(m, t)

AssertPlan(me) ==
  Refusal(<<RequirePlan(me), Must(SeesWholeOrg(me) \/ IsManager(me), "FORBIDDEN")>>)

ReportPeople(me, t) ==
  Reply(<<AssertPlan(me)>>, IF InPlan(me, t) THEN {"listed"} ELSE {})

\* One person's report, read as the caller acting in their organisation.
PersonReport(me, t, parts) ==
  Reply(<<RequireActing(me, t), ScopePerson(ActingForPerson(me, t), t)>>,
        {"day"} \cup (GrantsOf(me) \cap parts))

PersonDay(me, t) == PersonReport(me, t, {"timeline", "activity"})
PersonMonth(me, t) == PersonReport(me, t, {"activity"})
Timesheet(me, t) == PersonReport(me, t, {})

TeamReport(me, t) ==
  Reply(<<AssertPlan(me)>>,
        IF InPlan(me, t) THEN {"listed", "day"} \cup (GrantsOf(me) \cap {"activity"}) ELSE {})

\* The same with userIds: anybody out of scope is unknown.
TeamReportOf(me, t) ==
  Reply(<<AssertPlan(me), RequireActing(me, t),
          Must(InScope(ActingForPerson(me, t), t), "NOT_FOUND")>>,
        {"day"} \cup (GrantsOf(me) \cap {"activity"}))

ListRuns(me, t) == Reply(<<RequireOrg(me)>>, {})

LockStatus(me, t) ==
  Reply(<<RequireOrg(me), IF IsAdminLike(me) THEN "OK" ELSE AssertManagerOrAdmin(me)>>, {})

LockMonth(me, t) == Reply(<<Must(IsAdminLike(me), "FORBIDDEN"), RequireOrg(me)>>, {"configured"})

-----------------------------------------------------------------------------
(* The team now. *)

TeamNow(me, t) ==
  Reply(<<Must(SeesWholeOrg(me) \/ HasAnyGrant(me), "GRANT_REQUIRED"), RequireOrg(me)>>,
        IF InScope(me, t) /\ t.status = "ACTIVE" THEN {"listed", "status"} ELSE {})

TeamToday(me, t) ==
  Reply(<<RequirePlan(me), AssertAnyGrant(me), AssertPlan(me)>>,
        IF InPlan(me, t) THEN {"listed", "day"} \cup (GrantsOf(me) \cap {"activity"}) ELSE {})

Overview(me, t) ==
  Reply(<<Must(SeesWholeOrg(me) \/ IsManager(me), "FORBIDDEN"), RequireOrg(me)>>,
        IF InScope(me, t) /\ t.status = "ACTIVE" THEN {"listed"} ELSE {})

OrganisationsOverview(me, t) ==
  Reply(<<Must(SeesEveryOrg(me.role), "FORBIDDEN"), RequirePlan(me)>>, {})

AssertCanSeeAgentHealth(me) ==
  Refusal(<<IF SeesWholeOrg(me) THEN "OK"
            ELSE IF IsManager(me) THEN AssertAnyGrant(me) ELSE "FORBIDDEN",
            RequireView(me)>>)

AgentHealthPeopleWhere(me, t) ==
  /\ PeopleWhereAnyOrg(me, t) /\ t.status = "ACTIVE"
  /\ t.role \notin {"SUPER_ADMIN", "SUPER_MANAGER"}

AgentHealth(me, t) ==
  Reply(<<AssertCanSeeAgentHealth(me)>>,
        IF AgentHealthPeopleWhere(me, t) THEN {"listed", "status"} ELSE {})

-----------------------------------------------------------------------------
(* Messages. *)

ContactsWhere(me, t) ==
  LET inOrg == OrgOf(me) # NoOrg /\ t.org = OrgOf(me)
      admin == inOrg /\ t.role = "ADMIN"
  IN CASE me.role = "SUPER_ADMIN" -> admin
       [] me.role = "SUPER_MANAGER" -> inOrg /\ t.role # "SUPER_ADMIN"
       [] me.role = "ADMIN" -> OrgOf(me) # NoOrg /\ (inOrg \/ t.role = "SUPER_ADMIN")
       [] me.role = "MANAGER" -> admin \/ (inOrg /\ InMyDepts(me, t))
       [] OTHER -> \/ admin
                   \/ inOrg /\ t.role = "MANAGER" /\ me.dept # NoDept /\ me.dept \in t.managed

\* mutant: the contacts keep people who were blocked
Contacts_Blocked(me, t) ==
  Reply(<<>>, IF ContactsWhere(me, t) /\ ~Mine(me, t) /\ Found(t) THEN {"contact"} ELSE {})

Contacts(me, t) ==
  Reply(<<>>, IF ContactsWhere(me, t) /\ ~Mine(me, t) /\ t.status = "ACTIVE"
              THEN {"contact"} ELSE {})

CanMessage(me, t) == ~Mine(me, t) /\ ContactsWhere(me, t) /\ t.status = "ACTIVE"
SendMessage(me, t) == Reply(<<Must(CanMessage(me, t), "FORBIDDEN")>>, {"message"})

-----------------------------------------------------------------------------
(* Approvals: an item of t. *)

IsApprover(me) == SeesWholeOrg(me) \/ IsManager(me)

AssertApprover(me) ==
  Refusal(<<Must(IsApprover(me), "FORBIDDEN"), IF AllOrgsInView(me) THEN "OK" ELSE RequireOrg(me)>>)

\* The scope "all" of a list: never the caller's own items.
ApproverScope(me, t) ==
  /\ ~Mine(me, t) /\ Stored(t)
  /\ IF AllOrgsInView(me) THEN t.org \in LiveOrgs
     ELSE t.org = OrgOf(me) /\ (IsManager(me) => InMyDepts(me, t))

ActorFor(me, t) == IF AllOrgsInView(me) THEN ActingIn(me, t.org) ELSE me
Judged(me, t) == AllOrgsInView(me) => t.org \in LiveOrgs

CanView(me, t) ==
  Mine(me, t) \/ (Stored(t) /\ Judged(me, t) /\ CanSeePerson(ActorFor(me, t), t))

CanDecide(me, t) ==
  /\ ~Mine(me, t) /\ Stored(t) /\ Judged(me, t) /\ CanSeePerson(ActorFor(me, t), t)
  /\ IF SeesWholeOrg(me) THEN t.role \in {"USER", "MANAGER"}
     ELSE IsManager(me) /\ InMyDepts(me, t)

ListApprovals(me, t) ==
  Reply(<<AssertApprover(me)>>,
        IF ApproverScope(me, t) /\ CanView(me, t) THEN {"listed"} ELSE {})

ApprovalsSummary(me, t) == Reply(<<AssertApprover(me)>>, {})
MyApprovals(me, t) == Reply(<<>>, IF Mine(me, t) THEN {"listed"} ELSE {})

\* Approve, reject and reopen a break, a skip, a meeting or time away.
Decide(me, t) ==
  Reply(<<AssertApprover(me), Must(CanView(me, t), "NOT_FOUND"),
          Must(CanDecide(me, t), "FORBIDDEN")>>, {"decided"})

TeamBreaks(me, t) ==
  Reply(<<RequirePlan(me), Must(IsApprover(me), "FORBIDDEN")>>,
        IF /\ \E m \in Plan(me) : t.org = OrgOf(m) /\ (IsManager(me) => InMyDepts(me, t))
           /\ t.status = "ACTIVE" /\ ~Mine(me, t)
        THEN {"listed", "status"} ELSE {})

-----------------------------------------------------------------------------
(* Shifts. *)

ReadShifts(me, t) == Reply(<<RequireOrg(me), Must(IsApprover(me), "FORBIDDEN")>>, {})

WriteShifts(me, t) ==
  Reply(<<RequireOrg(me), Must(IsAdminLike(me), "FORBIDDEN")>>, {"configured"})

ShiftPeople(me, t) ==
  Reply(<<RequireOrg(me), Must(IsApprover(me), "FORBIDDEN")>>,
        IF t.status = "ACTIVE" /\ t.org = OrgOf(me) /\ (IsManager(me) => InMyDepts(me, t))
        THEN {"listed"} ELSE {})

\* Somebody of another organisation is passed over without a word.
AssignPeople(me, t) ==
  Reply(<<RequireOrg(me), Must(SeesWholeOrg(me), "FORBIDDEN")>>,
        IF t.status = "ACTIVE" /\ t.org = OrgOf(me) THEN {"assigned"} ELSE {})

AssignDepartment(me, t) ==
  Reply(<<RequireOrg(me), Must(SeesWholeOrg(me), "FORBIDDEN")>>, {"assigned"})

-----------------------------------------------------------------------------
(* Focus adjustments of t. *)

AdjustFocus(me, t) ==
  Reply(<<Must(IsSuperManager(me), "FORBIDDEN"), Must(~Mine(me, t), "FORBIDDEN"),
          RequireView(me),
          Must(/\ Found(t) /\ t.org # NoOrg /\ t.role # "SUPER_ADMIN"
               /\ OrgInView(me) # NoOrg => CanSeePerson(me, t), "NOT_FOUND")>>,
        {"adjusted"})

ListAdjustments(me, t) ==
  IF SeesEveryOrg(me.role)
  THEN Reply(<<RequireView(me)>>,
             IF Stored(t) /\ (OrgInView(me) # NoOrg => t.org = OrgInView(me))
             THEN {"adjustments"} ELSE {})
  ELSE Reply(<<AssertManagerOrAdmin(me)>>,
             IF /\ Stored(t)
                /\ IF SeesWholeOrg(me) THEN t.org = OrgOf(me) ELSE InScope(me, t)
             THEN {"adjustments"} ELSE {})

-----------------------------------------------------------------------------
(* What is asked of an organisation, not of a person. *)

ReadConfig(me, t) == Reply(<<RequireOrg(me)>>, {})
WriteConfig(me, t) == Reply(<<RequireOrg(me)>>, {"configured"})
ReadDepartments(me, t) ==
  Reply(<<RequireOrg(me), Must(IsAdminLike(me) \/ IsManager(me), "FORBIDDEN")>>, {})
WriteDepartments(me, t) ==
  Reply(<<RequireOrg(me), Must(IsAdminLike(me), "FORBIDDEN")>>, {"configured"})
SignOutKeys(me, t) ==
  Reply(<<RequireOrg(me), Must(IsAdminLike(me), "FORBIDDEN")>>, {"configured"})
ManageOrganisations(me, t) == Reply(<<>>, {"configured"})
ListRoles(me, t) == Reply(<<>>, {})

\* The installer and the setup code of t hold a token that signs in as t.
BuildConfig(me, t) == Reply(<<AssertCanEdit(me, t)>>, {"installer"})

-----------------------------------------------------------------------------
(* The menus GET /me offers. *)

PermissionsOf(me) ==
  LET org == OrgOf(me) # NoOrg
      admin == IsAdminLike(me) /\ org /\ ~me.headerInvalid
      manager == IsManager(me) /\ org
      overseer == admin \/ (IsSuperManager(me) /\ org /\ ~me.headerInvalid)
  IN [organisations |-> me.role = "SUPER_ADMIN", org |-> admin, people |-> overseer,
      team |-> overseer \/ (manager /\ HasAnyGrant(me)),
      sections |-> IF overseer \/ manager THEN GrantsOf(me) ELSE {},
      approve |-> overseer \/ manager,
      focus |-> IsSuperManager(me),
      health |-> overseer \/ (manager /\ HasAnyGrant(me)) \/ SeesEveryOrg(me.role)]

-----------------------------------------------------------------------------
(* The controllers: the roles of each route, then its handler. *)

Refused(code) == [code |-> code, shows |-> {}]

\* JwtStrategy takes active people only; RolesGuard the roles of the method, else of the class.
Validates(person) == person.status = "ACTIVE"
Response(roles, Door(_, _), t) ==
  IF ~Validates(self) THEN Refused("UNAUTHORIZED")
  ELSE IF ~Admitted(roles, Me) THEN Refused("FORBIDDEN")
  ELSE Door(Me, t)

\* The answer about who, beside what the same request about an id of nobody is told.
Ask(roles, Door(_, _)) ==
  /\ asked = Nothing /\ ticket = Nothing
  /\ asked' = [told |-> Response(roles, Door, who), unknown |-> Response(roles, Door, Unknown)]
  /\ UNCHANGED <<self, header, who, ticket>>

UsersController ==
  \/ Ask(Roles, ListUsers) \/ Ask(Roles, GetProfile)
  \/ \E role \in Roles \ {"SUPER_ADMIN"} :
        Ask(Roles, LAMBDA me, t : CreateUser(me, t, role))
  \/ \E role \in {"MANAGER", "USER"} : Ask(Roles, LAMBDA me, t : UpdateUser(me, t, role))
  \/ Ask(Roles, SetGrants) \/ Ask(Roles, SetIdle) \/ Ask(Roles, SetStatus)
  \/ Ask(Roles, SetPassword) \/ Ask(Roles, SetScreenshots) \/ Ask(Roles, DeleteUser)

SuperManagersController == Ask({"SUPER_ADMIN"}, SuperManagers)

ActivityController ==
  \/ Ask(Roles, CurrentActivity) \/ Ask(Roles, DailyActivity)
  \/ Ask(Overseers, ActivityLive) \/ Ask(Overseers, HourlyActivity)

AnalyticsController == Ask(Overseers, GetAnalytics)
ProductivityController == Ask(Overseers, GetProductivity)

PresenceController ==
  \/ Ask(Overseers, PresenceLive) \/ Ask(Overseers, PresenceSummary)
  \/ Ask(Overseers, CurrentPresence) \/ Ask(Overseers, GetUserHistory)
  \/ Ask(Overseers, GetUserTimeline)

ScreenshotsController ==
  \/ Ask(Roles, ListScreenshots) \/ Ask(Roles, ExportScreenshots)
  \/ Ask(Roles, RequestCapture) \/ Ask(Roles, ArchiveScreenshots)

ReportsController ==
  \/ Ask(Overseers, ReportPeople) \/ Ask(Overseers, PersonDay) \/ Ask(Overseers, PersonMonth)
  \/ Ask(Overseers, Timesheet) \/ Ask(Overseers, TeamReport) \/ Ask(Overseers, TeamReportOf)
  \/ Ask(Overseers, ListRuns) \/ Ask(Overseers, LockStatus) \/ Ask(OrgAdmins, LockMonth)

TeamController == Ask(Overseers, TeamNow) \/ Ask(Overseers, TeamToday)
OverviewController == Ask(Overseers, Overview)
OrganisationsOverviewController == Ask({"SUPER_MANAGER", "SUPER_ADMIN"}, OrganisationsOverview)
AgentHealthController == Ask(Overseers, AgentHealth)
ChatController == Ask(Roles, Contacts) \/ Ask(Roles, SendMessage)

ApprovalsController ==
  \/ Ask(Overseers, ListApprovals) \/ Ask(Overseers, ApprovalsSummary)
  \/ Ask(Roles, MyApprovals) \/ Ask(Overseers, Decide)

BreaksController ==
  \/ Ask(Overseers, ListApprovals) \/ Ask(Overseers, Decide) \/ Ask(Overseers, TeamBreaks)

ShiftsController == Ask(Overseers, ReadShifts) \/ Ask(OrgAdmins, WriteShifts)

ShiftAssignmentsController ==
  \/ Ask(Overseers, ReadShifts) \/ Ask(Overseers, ShiftPeople)
  \/ Ask(Overseers \ {"MANAGER"}, AssignPeople) \/ Ask(Overseers \ {"MANAGER"}, AssignDepartment)

FocusAdjustmentsController ==
  Ask({"SUPER_MANAGER"}, AdjustFocus) \/ Ask(Overseers, ListAdjustments)

SettingsController ==
  \/ Ask(Roles, ReadConfig) \/ Ask(OrgAdmins, WriteConfig)

IdleSettingsController == Ask(OrgAdmins, WriteConfig)
CalendarController == Ask(Roles, ReadConfig) \/ Ask(OrgAdmins, WriteConfig)
DepartmentsController == Ask(Overseers, ReadDepartments) \/ Ask(OrgAdmins, WriteDepartments)
SignOutKeysController == Ask(OrgAdmins, SignOutKeys)
OrganisationsController == Ask({"SUPER_ADMIN"}, ManageOrganisations)
CompaniesController == Ask({"SUPER_ADMIN"}, ManageOrganisations)
RolesController == Ask({"SUPER_ADMIN"}, ListRoles)
SetupCode == Ask(Roles, BuildConfig)

Delivered == asked # Nothing /\ asked' = Nothing /\ UNCHANGED <<self, header, who, ticket>>

-----------------------------------------------------------------------------
(* A download ticket: a link the browser opens without the session's cookie. *)

DownloadTicket(about) ==
  /\ asked = Nothing /\ ticket = Nothing /\ self.status = "ACTIVE"
  /\ about => BuildConfig(Me, who).code = "OK"
  /\ ticket' = [me |-> Me, about |-> about, kept |-> TRUE, late |-> FALSE, served |-> 0, uses |-> 0]
  /\ UNCHANGED <<self, header, who, asked>>

Serves(t) == t.kept /\ ~t.late /\ (t.about => BuildConfig(t.me, who).code = "OK")

\* mutant: the ticket is kept until it is swept
DownloadDirect_Kept ==
  /\ ticket # Nothing /\ ticket.uses < MaxUses
  /\ ticket' = [ticket EXCEPT !.uses = @ + 1,
                              !.served = IF Serves(ticket) THEN @ + 1 ELSE @]
  /\ UNCHANGED <<self, header, who, asked>>

\* The ticket is gone once presented, served or not; the caller is the one it was taken by.
DownloadDirect ==
  /\ ticket # Nothing /\ ticket.uses < MaxUses
  /\ ticket' = [ticket EXCEPT !.uses = @ + 1, !.kept = FALSE,
                              !.served = IF Serves(ticket) THEN @ + 1 ELSE @]
  /\ UNCHANGED <<self, header, who, asked>>

TicketExpires ==
  /\ ticket # Nothing /\ ~ticket.late
  /\ ticket' = [ticket EXCEPT !.late = TRUE]
  /\ UNCHANGED <<self, header, who, asked>>

\* Meanwhile the caller may be blocked, or the person deleted.
PeopleChange ==
  /\ ticket # Nothing
  /\ \/ self' = [self EXCEPT !.status = "DISABLED"] /\ UNCHANGED who
     \/ who.id = "other" /\ who' = [who EXCEPT !.status = "DELETED"] /\ UNCHANGED self
  /\ UNCHANGED <<header, asked, ticket>>

-----------------------------------------------------------------------------

AccessInit ==
  /\ self \in Staffed /\ header \in Headers
  /\ who \in Subjects \cup {self, Unknown}
  /\ asked = Nothing /\ ticket = Nothing

AccessNext ==
  \/ UsersController \/ SuperManagersController \/ ActivityController
  \/ AnalyticsController \/ ProductivityController \/ PresenceController
  \/ ScreenshotsController \/ ReportsController \/ TeamController \/ OverviewController
  \/ OrganisationsOverviewController \/ AgentHealthController \/ ChatController
  \/ ApprovalsController \/ BreaksController \/ ShiftsController
  \/ ShiftAssignmentsController \/ FocusAdjustmentsController \/ SettingsController
  \/ IdleSettingsController \/ CalendarController \/ DepartmentsController
  \/ SignOutKeysController \/ OrganisationsController \/ CompaniesController
  \/ RolesController \/ SetupCode \/ Delivered
  \/ \E about \in BOOLEAN : DownloadTicket(about)
  \/ DownloadDirect \/ TicketExpires \/ PeopleChange

AccessSpec == AccessInit /\ [][AccessNext]_accessVars

-----------------------------------------------------------------------------
(* Properties. *)

Whole == {"SUPER_ADMIN", "SUPER_MANAGER", "ADMIN"}

\* The organisations the caller p has in view.
InViewOf(p, h) ==
  IF ~SeesEveryOrg(p.role) THEN {p.org} \cap LiveOrgs
  ELSE IF h = NoOrg THEN LiveOrgs ELSE {h} \cap LiveOrgs

\* The people a caller may know of, and those they may write to besides.
InReach(p, h, t) ==
  \/ t.id = p.id
  \/ p.role = "SUPER_ADMIN" /\ t.role = "SUPER_MANAGER"
  \/ /\ t.role # "SUPER_ADMIN" /\ t.org \in InViewOf(p, h)
     /\ p.role \in Whole \/ (p.role = "MANAGER" /\ t.role = "USER" /\ t.dept \in p.managed)

InContact(p, t) ==
  \/ p.role = "ADMIN" /\ t.role = "SUPER_ADMIN"
  \/ p.role \in {"MANAGER", "USER"} /\ p.org \in LiveOrgs /\ t.org = p.org
     /\ (t.role = "ADMIN" \/ (p.role = "USER" /\ t.role = "MANAGER" /\ p.dept \in t.managed))

\* An answer about somebody out of the caller's reach is the answer about an id of
\* nobody, on every route (src/shared/tenancy/scope.ts:18: never their existence).
\* Two exceptions: contacts, which are meant so (list-contacts.use-case.ts), and somebody of a
\* deleted organisation, whom a Super Manager adjusts although
\* focus-adjustments.service.ts:54 says "anyone in a live organisation": subject()
\* asks for an organisation only. A deleted organisation has nobody as long as PlacesHold of
\* Organisation stands; the people of this model are any, those included.
StrangersAreUnknown ==
  (asked # Nothing /\ asked.told # asked.unknown) =>
    \/ InReach(self, header, who)
    \/ asked.told.shows \subseteq {"contact", "message"} /\ InContact(self, who)
    \/ /\ asked.told.shows \subseteq {"adjusted", "adjustments"}
       /\ SeesEveryOrg(self.role) /\ header = NoOrg
    \/ asked.told.code = "EMAIL_IN_USE"

\* What is shown of someone else needs the section's grant.
SectionsNeedTheirGrant ==
  (asked # Nothing /\ who.id # self.id) =>
    asked.told.shows \cap Sections \subseteq
      IF self.role \in Whole THEN Sections
      ELSE IF self.role = "MANAGER" THEN self.grants ELSE {}

\* What each role may change (roles.enum.ts:8: a Super Manager never the
\* organisation's configuration).
RolesKeepTheirLines ==
  asked # Nothing =>
    LET did == asked.told.shows \cap
                 {"edited", "installer", "configured", "decided", "assigned", "adjusted"}
    IN /\ self.role = "USER" => did = {}
       /\ self.role = "MANAGER" => did \subseteq {"decided"}
       /\ self.role = "SUPER_MANAGER" => "configured" \notin did
       /\ self.role # "SUPER_MANAGER" => "adjusted" \notin did
       /\ who.id = self.id => did \cap {"decided", "adjusted", "edited", "installer"} = {}
       /\ ("installer" \in did /\ self.role = "SUPER_MANAGER") => who.role = "USER"

\* A ticket opens one download (agent.controller.ts:208: gone the moment it is presented).
TicketsOpenOnce == ticket # Nothing => ticket.served <= 1

Opens(Door(_, _)) == Door(Me, who).code = "OK"
Shows(Door(_, _), part) == part \in Door(Me, who).shows

\* Whoever a list shows can be opened, decided or written to from it; GET /users on
\* "All organisations" is the one list whose rows are another view's.
ListsOpenWhatTheyShow ==
  /\ (Shows(ListUsers, "listed") /\ ~AllOrgsInView(Me)) => Opens(GetProfile)
  /\ Shows(PresenceLive, "listed") => Opens(CurrentPresence)
  /\ Shows(PresenceSummary, "listed") => Opens(GetUserHistory) /\ Opens(GetProductivity)
  /\ Shows(ActivityLive, "listed") => Opens(CurrentActivity) /\ Opens(DailyActivity)
  /\ Shows(ReportPeople, "listed") =>
        Opens(PersonDay) /\ Opens(PersonMonth) /\ Opens(Timesheet) /\ Opens(TeamReportOf)
  /\ (Shows(ListApprovals, "listed") /\ who.role \in {"USER", "MANAGER"}) => Opens(Decide)
  /\ Shows(Contacts, "contact") <=> Opens(SendMessage)
  /\ (Shows(ShiftPeople, "listed") /\ SeesWholeOrg(Me)) => Shows(AssignPeople, "assigned")

\* A menu GET /me offers leads to pages that answer.
MenusOpenDoors ==
  LET may == PermissionsOf(Me) IN
  /\ may.organisations => Opens(ManageOrganisations)
  /\ may.org => /\ Opens(WriteConfig) /\ Opens(WriteDepartments) /\ Opens(WriteShifts)
                /\ Opens(SignOutKeys) /\ Opens(LockMonth)
  /\ may.people => Opens(ListUsers)
  /\ may.team => /\ Opens(TeamNow) /\ Opens(TeamToday) /\ Opens(PresenceLive)
  /\ "timeline" \in may.sections => Opens(ActivityLive)
  /\ may.approve => /\ Opens(ListApprovals) /\ Opens(ReportPeople) /\ Opens(TeamBreaks)
                    /\ Opens(Overview)
  /\ (may.health /\ ~Me.headerInvalid) => Opens(AgentHealth)

\* The portal is told of nobody and offered nothing it is then refused
\* (get-me.use-case.ts:9 and the lists of each controller).
PortalOpensWhatItShows ==
  (self.status = "ACTIVE" /\ asked = Nothing) => ListsOpenWhatTheyShow /\ MenusOpenDoors

\* A caller gets what their role and grants give them on every route, no more
\* and, where the portal showed it to them, no less.
RightsHold ==
  SectionsNeedTheirGrant /\ RolesKeepTheirLines /\ TicketsOpenOnce /\ PortalOpensWhatItShows
=============================================================================
