------------------------------ MODULE TeamViews ------------------------------
(***************************************************************************)
(* Team, Overview and the organisation's today (team-overview.service.ts):  *)
(* who a caller sees (people-scope.service.ts, shared/tenancy/scope.ts),    *)
(* what status a person is shown with, and the answers that callers share   *)
(* for CACHE_MS when their key is the same.  An answer is built in several   *)
(* reads while people are moved, sessions and presence change and requests  *)
(* with the same key join it.                                              *)
(*                                                                         *)
(* One organisation, in one process.  A caller is what the request knows of *)
(* them (AuthenticatedUser).  Numbers, names and search words are left out. *)
(***************************************************************************)
EXTENDS Integers, FiniteSets

CONSTANTS
  Absent,
  Staff,           \* the people shown
  Placements,      \* [role, dept, active] of a person; dept may be Elsewhere
  Elsewhere,       \* in another organisation
  Callers,         \* [role, depts, grants] of those who ask
  Builds,          \* answers being built, or kept
  CacheTime,       \* CACHE_MS
  MaxChanges,      \* bound: moves and steps of the day
  MaxClock         \* bound

ASSUME ViewsAssumption ==
  /\ CacheTime \in Nat \ {0} /\ {MaxChanges, MaxClock} \subseteq Nat

Doings == {"none", "working", "break", "meeting", "ended"}

ASSUME AbsentAssumption == Absent \notin Doings

VARIABLES
  clock,
  changes,         \* how many so far
  place,           \* [Staff -> Placements]
  doing,           \* [Staff -> Doings], the day as its rows say
  builds,          \* [Builds -> answer, or Absent]
  cached,          \* the answers in the cache, one of a key
  wasAt, wasDoing  \* when each fact last ceased to hold (history)

viewVars == <<clock, changes, place, doing, builds, cached, wasAt, wasDoing>>

Never == -CacheTime

ViewsInit ==
  /\ clock = 0 /\ changes = 0
  /\ place \in [Staff -> Placements] /\ doing = [p \in Staff |-> "none"]
  /\ builds = [b \in Builds |-> Absent] /\ cached = {}
  /\ wasAt = [p \in Staff |-> [x \in Placements |-> Never]]
  /\ wasDoing = [p \in Staff |-> [x \in Doings |-> Never]]

-----------------------------------------------------------------------------
(* Who sees whom, in two places of the code *)

SeesWholeOrg(me) == me.role # "MANAGER"

(* canSeePerson: one person, asked for by id.                                *)
CanSeePerson(me, t) ==
  /\ t.role # "SUPER_ADMIN" /\ t.dept # Elsewhere
  /\ SeesWholeOrg(me) \/ (t.role = "USER" /\ t.dept \in me.depts)

(* filterFor and listPeople: everyone, with one query.                       *)
FilterFor(me, at) ==
  {p \in Staff :
    /\ at[p].dept # Elsewhere
    /\ IF SeesWholeOrg(me) THEN at[p].role # "SUPER_ADMIN"
       ELSE at[p].role = "USER" /\ at[p].dept \in me.depts}

(* orgToday is the overview's today, of a caller who sees the organisation.  *)
Views == {"team", "overview"}

MayAsk(me, view) ==
  view = "team" => SeesWholeOrg(me) \/ me.grants # {}

ScopeKey(me, view) == <<view, me.role, me.depts, me.grants>>

-----------------------------------------------------------------------------
(* The people and their day, by the other parts of the program *)

Move(p, x) ==
  /\ changes < MaxChanges /\ changes' = changes + 1
  /\ x # place[p]
  /\ place' = [place EXCEPT ![p] = x]
  /\ wasAt' = [wasAt EXCEPT ![p][place[p]] = clock]
  /\ UNCHANGED <<clock, doing, builds, cached, wasDoing>>

Follows(x) ==
  IF x \in {"none", "ended"} THEN {"working"}
  ELSE {"working", "break", "meeting", "ended"} \ {x}

Goes(p, x) ==
  /\ changes < MaxChanges /\ changes' = changes + 1
  /\ x \in Follows(doing[p])
  /\ doing' = [doing EXCEPT ![p] = x]
  /\ wasDoing' = [wasDoing EXCEPT ![p][doing[p]] = clock]
  /\ UNCHANGED <<clock, place, builds, cached, wasAt>>

-----------------------------------------------------------------------------
(* An answer *)

Joinable(b) == clock - builds[b].at < CacheTime

Under(k) == {b \in cached : builds[b].key = k}

(* A request finds no answer under its key, or an old one, and builds one,   *)
(* which is kept before it is there.  Any other request joins the answer.    *)
Ask(b, me, view) ==
  /\ MayAsk(me, view) /\ builds[b] = Absent
  /\ LET k == ScopeKey(me, view) IN
       /\ \A c \in Under(k) : ~Joinable(c)
       /\ cached' = (cached \ Under(k)) \cup {b}
       /\ builds' = [builds EXCEPT ![b] =
            [pc |-> "people", key |-> k, me |-> me, view |-> view, at |-> clock,
             people |-> {}, presence |-> <<>>, shown |-> <<>>, hourly |-> FALSE]]
  /\ UNCHANGED <<clock, changes, place, doing, wasAt, wasDoing>>

ReadPeople(b) ==
  /\ builds[b] # Absent /\ builds[b].pc = "people"
  /\ builds' = [builds EXCEPT ![b].pc = "presence",
       ![b].people = {p \in FilterFor(builds[b].me, place) : place[p].active}]
  /\ UNCHANGED <<clock, changes, place, doing, cached, wasAt, wasDoing>>

OnPresence(x) == x \in {"break", "meeting"}

ReadPresence(b) ==
  /\ builds[b] # Absent /\ builds[b].pc = "presence"
  /\ builds' = [builds EXCEPT ![b].pc = "days",
       ![b].presence = [p \in builds[b].people |->
                          IF OnPresence(doing[p]) THEN doing[p] ELSE Absent]]
  /\ UNCHANGED <<clock, changes, place, doing, cached, wasAt, wasDoing>>

Sessions(x) ==
  IF x = "none" THEN "none" ELSE IF x = "ended" THEN "closed" ELSE "open"

\* mutant: any session of the day counts as an open one
StatusOf_AnySession(presence, sessions) ==
  IF sessions = "none" THEN "none"
  ELSE IF presence # Absent THEN presence ELSE "working"

(* live: the status, from presence read first and sessions read later.  AWAY *)
(* is a person who works and whose last sample was idle.                     *)
StatusOf(presence, sessions) ==
  IF sessions = "open" THEN IF presence # Absent THEN presence ELSE "working"
  ELSE IF sessions = "closed" THEN "ended" ELSE "none"

(* The numbers, the list and the hours (a Manager's only with the grant).    *)
ReadDays(b) ==
  /\ builds[b] # Absent /\ builds[b].pc = "days"
  /\ builds' = [builds EXCEPT ![b].pc = "done",
       ![b].shown = [p \in builds[b].people |->
                       StatusOf(builds[b].presence[p], Sessions(doing[p]))],
       ![b].hourly = /\ builds[b].view = "overview"
                     /\ SeesWholeOrg(builds[b].me) \/ "activity" \in builds[b].me.grants]
  /\ UNCHANGED <<clock, changes, place, doing, cached, wasAt, wasDoing>>

(* A read fails: everyone who waits gets the error, and what the cache holds *)
(* under the key by then is dropped.                                         *)
BuildFails(b) ==
  /\ builds[b] # Absent /\ builds[b].pc # "done"
  /\ cached' = cached \ Under(builds[b].key)
  /\ builds' = [builds EXCEPT ![b] = Absent]
  /\ UNCHANGED <<clock, changes, place, doing, wasAt, wasDoing>>

(* An answer that was given and that nobody can join any more.               *)
Collect(b) ==
  /\ builds[b] # Absent /\ builds[b].pc = "done"
  /\ b \in cached => ~Joinable(b)
  /\ cached' = cached \ {b}
  /\ builds' = [builds EXCEPT ![b] = Absent]
  /\ UNCHANGED <<clock, changes, place, doing, wasAt, wasDoing>>

Elapse ==
  /\ clock < MaxClock /\ clock' = clock + 1
  /\ UNCHANGED <<changes, place, doing, builds, cached, wasAt, wasDoing>>

ViewsNext ==
  \/ \E p \in Staff :
       \/ \E x \in Placements : Move(p, x)
       \/ \E x \in Doings : Goes(p, x)
  \/ \E b \in Builds :
       \/ \E me \in Callers, view \in Views : Ask(b, me, view)
       \/ ReadPeople(b) \/ ReadPresence(b) \/ ReadDays(b) \/ BuildFails(b) \/ Collect(b)
  \/ Elapse

ViewsSpec == ViewsInit /\ [][ViewsNext]_viewVars

-----------------------------------------------------------------------------
(* Properties *)

Done == {b \in Builds : builds[b] # Absent /\ builds[b].pc = "done"}

(* Who is given an answer, and since when they asked: whoever could join it. *)
Given(b) ==
  {g \in Callers \X (builds[b].at .. clock) :
    /\ MayAsk(g[1], builds[b].view) /\ ScopeKey(g[1], builds[b].view) = builds[b].key
    /\ \/ g[2] < builds[b].at + CacheTime
       \/ g[2] = clock /\ b \in cached /\ Joinable(b)}

(* Does the fact hold, or did it within CACHE_MS before the request?         *)
Lately(holds, ceased, since) == holds \/ ceased > since - CacheTime

(* Whoever gets an answer, built for them or for another caller, sees in it  *)
(* only people they could open by id (canSeePerson) at some moment since     *)
(* CACHE_MS before they asked, and hours of activity only if they hold the   *)
(* grant (scopeKey, filterFor; "cached briefly per scope").                  *)
AnswersFitTheCaller ==
  \A b \in Done : \A g \in Given(b) :
    /\ \A p \in DOMAIN builds[b].shown : \E x \in Placements :
         /\ x.active /\ CanSeePerson(g[1], x)
         /\ Lately(place[p] = x, wasAt[p][x], g[2])
    /\ builds[b].hourly => SeesWholeOrg(g[1]) \/ "activity" \in g[1].grants

(* The status somebody is shown with was theirs at some moment since         *)
(* CACHE_MS before the request, though presence and sessions are read one    *)
(* after the other (live, cached).                                           *)
StatusWasTheirs ==
  \A b \in Done : \A g \in Given(b) : \A p \in DOMAIN builds[b].shown :
    LET status == builds[b].shown[p] IN
      Lately(doing[p] = status, wasDoing[p][status], g[2])

(* An answer of the cache is one the caller could have been given: of people *)
(* of theirs, as they were (team, live, cached).                             *)
AnswersAreTrue == AnswersFitTheCaller /\ StatusWasTheirs
=============================================================================
