---------------------------- MODULE ViewsProofs ----------------------------
(***************************************************************************)
(* Proofs about what is shown from memory: the answers TeamViews shares,    *)
(* the daily runs of MonthReports and the hours DayCache keeps.             *)
(***************************************************************************)
EXTENDS TeamViews, MonthReports, DayCache, SessionLedgerProofs, WellFoundedInduction

-----------------------------------------------------------------------------
(* Team and Overview: the shared answers *)

(* A fact about a person that holds, or held since the answer was asked for.  *)
Was(p, x, at) == doing[p] = x \/ wasDoing[p][x] >= at
SeenSince(me, p, at) ==
  \E x \in Placements : /\ x.active /\ CanSeePerson(me, x)
                        /\ place[p] = x \/ wasAt[p][x] >= at

(* Nobody goes on a break but from work: who was not on one when presence was *)
(* read and is on one now has worked in between.                             *)
PresenceHolds(p, x, at) ==
  /\ x # Absent => OnPresence(x) /\ Was(p, x, at)
  /\ x = Absent => (OnPresence(doing[p]) => wasDoing[p]["working"] >= at)

Fields == {"pc", "key", "me", "view", "at", "people", "presence", "shown", "hourly"}

AnswerHolds(a) ==
  /\ DOMAIN a = Fields /\ a.pc \in {"people", "presence", "days", "done"}
  /\ a.at \in Nat /\ a.at <= clock
  /\ a.key = ScopeKey(a.me, a.view)
  /\ a.people \subseteq Staff
  /\ \A p \in a.people : SeenSince(a.me, p, a.at)
  /\ a.pc = "days" => \A p \in a.people : PresenceHolds(p, a.presence[p], a.at)
  /\ a.pc = "done" =>
       /\ DOMAIN a.shown = a.people
       /\ \A p \in a.people : a.shown[p] \in Doings /\ Was(p, a.shown[p], a.at)
       /\ a.hourly => SeesWholeOrg(a.me) \/ "activity" \in a.me.grants

ViewTypes ==
  /\ clock \in Nat
  /\ place \in [Staff -> Placements] /\ doing \in [Staff -> Doings]
  /\ wasAt \in [Staff -> [Placements -> Int]] /\ wasDoing \in [Staff -> [Doings -> Int]]
  /\ DOMAIN builds = Builds

ViewInv == ViewTypes /\ \A b \in Builds : builds[b] # Absent => AnswerHolds(builds[b])

(* What was so since an answer was asked for stays so, as somebody moves or   *)
(* their day goes on.                                                        *)
LEMMA StillSo ==
  ASSUME ViewTypes, NEW p \in Staff, NEW at \in Nat, at <= clock,
         \/ \E q \in Staff, x \in Placements : Move(q, x)
         \/ \E q \in Staff, x \in Doings : Goes(q, x)
         \/ Elapse
  PROVE  /\ \A x \in Doings : Was(p, x, at) => Was(p, x, at)'
         /\ \A me : SeenSince(me, p, at) => SeenSince(me, p, at)'
         /\ \A x : PresenceHolds(p, x, at) => PresenceHolds(p, x, at)'
         /\ ViewTypes' /\ clock <= clock' /\ builds' = builds
<1>1. CASE Elapse BY <1>1 DEF Elapse, ViewTypes, Was, SeenSince, PresenceHolds
<1>2. ASSUME NEW q \in Staff, NEW y \in Placements, Move(q, y)
      PROVE  /\ \A me : SeenSince(me, p, at) => SeenSince(me, p, at)'
             /\ ViewTypes' /\ UNCHANGED <<clock, builds, doing, wasDoing>>
  <2>1. /\ place' = [place EXCEPT ![q] = y]
        /\ wasAt' = [wasAt EXCEPT ![q][place[q]] = clock]
        /\ UNCHANGED <<clock, doing, builds, cached, wasDoing>>
    BY <1>2 DEF Move
  <2>2. ViewTypes' BY <2>1 DEF ViewTypes
  <2>3. ASSUME NEW x \in Placements, place[p] = x \/ wasAt[p][x] >= at
        PROVE  place'[p] = x \/ wasAt'[p][x] >= at
    <3>1. wasAt[p][x] \in Int /\ clock \in Nat BY DEF ViewTypes
    <3>2. CASE p = q /\ x = place[q]
      <4>1. wasAt'[p][x] = clock BY <2>1, <3>2 DEF ViewTypes
      <4> QED BY <4>1, <3>1
    <3>3. CASE p = q /\ x # place[q]
      <4>1. wasAt'[p][x] = wasAt[p][x] BY <2>1, <3>3 DEF ViewTypes
      <4> QED BY <4>1, <2>3, <3>3
    <3>4. CASE p # q
      <4>1. wasAt'[p] = wasAt[p] /\ place'[p] = place[p] BY <2>1, <3>4 DEF ViewTypes
      <4> QED BY <4>1, <2>3
    <3> QED BY <3>2, <3>3, <3>4
  <2> QED BY <2>1, <2>2, <2>3 DEF SeenSince, CanSeePerson, SeesWholeOrg
<1>3. ASSUME NEW q \in Staff, NEW y \in Doings, Goes(q, y)
      PROVE  /\ \A x \in Doings : Was(p, x, at) => Was(p, x, at)'
             /\ \A x : PresenceHolds(p, x, at) => PresenceHolds(p, x, at)'
             /\ ViewTypes' /\ UNCHANGED <<clock, builds, place, wasAt>>
  <2>1. /\ doing' = [doing EXCEPT ![q] = y] /\ y \in Follows(doing[q])
        /\ wasDoing' = [wasDoing EXCEPT ![q][doing[q]] = clock]
        /\ UNCHANGED <<clock, place, builds, cached, wasAt>>
    BY <1>3 DEF Goes
  <2>2. ViewTypes' BY <2>1 DEF ViewTypes
  <2>3. ASSUME NEW x \in Doings
        PROVE  /\ wasDoing[p][x] >= at => wasDoing'[p][x] >= at
               /\ Was(p, x, at) => Was(p, x, at)'
    <3>1. wasDoing[p][x] \in Int /\ clock \in Nat BY DEF ViewTypes
    <3>2. CASE p = q /\ x = doing[q]
      <4>1. wasDoing'[p][x] = clock BY <2>1, <3>2 DEF ViewTypes
      <4> QED BY <4>1, <3>1 DEF Was
    <3>3. CASE p = q /\ x # doing[q]
      <4>1. wasDoing'[p][x] = wasDoing[p][x] BY <2>1, <3>3 DEF ViewTypes
      <4> QED BY <4>1, <3>3 DEF Was
    <3>4. CASE p # q
      <4>1. wasDoing'[p] = wasDoing[p] /\ doing'[p] = doing[p] BY <2>1, <3>4 DEF ViewTypes
      <4> QED BY <4>1 DEF Was
    <3> QED BY <3>2, <3>3, <3>4
  <2>4. OnPresence(doing'[p]) /\ ~OnPresence(doing[p]) => wasDoing'[p]["working"] >= at
    <3>1. SUFFICES ASSUME OnPresence(doing'[p]), ~OnPresence(doing[p])
                   PROVE  wasDoing'[p]["working"] >= at
      OBVIOUS
    <3>2. p = q BY <2>1, <3>1 DEF ViewTypes
    <3>3. doing[q] = "working"
      BY <2>1, <3>1, <3>2 DEF ViewTypes, Follows, Doings, OnPresence
    <3>4. wasDoing'[p]["working"] = clock BY <2>1, <3>2, <3>3 DEF ViewTypes, Doings
    <3> QED BY <3>4 DEF ViewTypes
  <2>5. ASSUME NEW x, PresenceHolds(p, x, at) PROVE PresenceHolds(p, x, at)'
    <3>1. CASE x = Absent BY <3>1, <2>3, <2>4, <2>5 DEF PresenceHolds, Doings
    <3>2. CASE x # Absent
      <4>1. x \in Doings /\ OnPresence(x) BY <3>2, <2>5 DEF PresenceHolds, OnPresence, Doings
      <4> QED BY <3>2, <4>1, <2>3, <2>5 DEF PresenceHolds
    <3> QED BY <3>1, <3>2
  <2> QED BY <2>1, <2>2, <2>3, <2>5
<1>4. (\E q \in Staff, x \in Placements : Move(q, x)) =>
        \A x : (Was(p, x, at) => Was(p, x, at)') /\ (PresenceHolds(p, x, at) => PresenceHolds(p, x, at)')
  BY <1>2 DEF Was, PresenceHolds
<1>5. (\E q \in Staff, x \in Doings : Goes(q, x)) =>
        \A me : SeenSince(me, p, at) => SeenSince(me, p, at)'
  BY <1>3 DEF SeenSince
<1> QED BY <1>1, <1>2, <1>3, <1>4, <1>5 DEF ViewTypes

(* So an answer that holds goes on holding while people move and work.       *)
LEMMA AnswerStands ==
  ASSUME ViewTypes, NEW a, AnswerHolds(a),
         \/ \E q \in Staff, x \in Placements : Move(q, x)
         \/ \E q \in Staff, x \in Doings : Goes(q, x)
         \/ Elapse
  PROVE  AnswerHolds(a)'
<1>1. a.at \in Nat /\ a.at <= clock /\ a.people \subseteq Staff BY DEF AnswerHolds
<1>2. clock <= clock' /\ clock \in Nat /\ clock' \in Nat
  BY DEF Move, Goes, Elapse, ViewTypes
<1>3. \A p \in a.people :
        /\ \A x \in Doings : Was(p, x, a.at) => Was(p, x, a.at)'
        /\ \A me : SeenSince(me, p, a.at) => SeenSince(me, p, a.at)'
        /\ \A x : PresenceHolds(p, x, a.at) => PresenceHolds(p, x, a.at)'
  BY <1>1, StillSo
<1> QED BY <1>1, <1>2, <1>3 DEF AnswerHolds, ScopeKey, SeesWholeOrg

(* Where nobody moves or works, only the answer at hand changes.             *)
LEMMA OnlyThisAnswer ==
  ASSUME ViewInv, NEW b \in Builds, UNCHANGED <<clock, place, doing, wasAt, wasDoing>>,
         DOMAIN builds' = Builds, \A c \in Builds \ {b} : builds'[c] = builds[c],
         NEW a, builds'[b] = a, a # Absent => AnswerHolds(a)
  PROVE  ViewInv'
<1>1. ViewTypes' BY DEF ViewInv, ViewTypes
<1>2. ASSUME NEW c \in Builds, builds'[c] # Absent PROVE AnswerHolds(builds[c])'
  <2>1. PICK x : x = builds'[c] OBVIOUS
  <2>2. AnswerHolds(x) BY <1>2, <2>1 DEF ViewInv
  <2>3. AnswerHolds(x)'
    BY <2>2 DEF AnswerHolds, ScopeKey, SeesWholeOrg, Was, SeenSince, CanSeePerson, PresenceHolds
  <2> QED BY <2>1, <2>3 DEF AnswerHolds
<1> QED BY <1>1, <1>2 DEF ViewInv

(* A person's place in the query is one they can be opened at by id.         *)
LEMMA FilterIsSeen ==
  ASSUME ViewTypes, NEW me, NEW p \in FilterFor(me, place), place[p].active, NEW at
  PROVE  p \in Staff /\ SeenSince(me, p, at)
<1>1. p \in Staff /\ place[p] \in Placements BY DEF FilterFor, ViewTypes
<1>2. CanSeePerson(me, place[p]) BY DEF FilterFor, CanSeePerson
<1> QED BY <1>1, <1>2 DEF SeenSince

(* The status made of the presence that was read and the sessions as they are. *)
LEMMA StatusSince ==
  ASSUME ViewTypes, NEW p \in Staff, NEW x, NEW at, PresenceHolds(p, x, at)
  PROVE  /\ StatusOf(x, Sessions(doing[p])) \in Doings
         /\ Was(p, StatusOf(x, Sessions(doing[p])), at)
<1>1. doing[p] \in Doings BY DEF ViewTypes
<1>2. CASE doing[p] \in {"none", "ended"}
  BY <1>2 DEF StatusOf, Sessions, Doings, Was
<1>3. CASE doing[p] \in {"working", "break", "meeting"}
  <2>1. Sessions(doing[p]) = "open" BY <1>3 DEF Sessions
  <2>2. CASE x # Absent
    <3>1. StatusOf(x, Sessions(doing[p])) = x BY <2>1, <2>2 DEF StatusOf
    <3> QED BY <2>2, <3>1 DEF PresenceHolds, OnPresence, Doings
  <2>3. CASE x = Absent
    <3>1. StatusOf(x, Sessions(doing[p])) = "working" BY <2>1, <2>3 DEF StatusOf
    <3>2. doing[p] = "working" \/ wasDoing[p]["working"] >= at
      BY <1>3, <2>3 DEF PresenceHolds, OnPresence
    <3> QED BY <3>1, <3>2 DEF Was, Doings
  <2> QED BY <2>2, <2>3
<1> QED BY <1>1, <1>2, <1>3 DEF Doings

(* Asking, reading, failing and giving an answer away keep every answer.     *)
LEMMA ViewStep ==
  ASSUME ViewInv, [ViewsNext]_viewVars PROVE ViewInv'
<1>0. DOMAIN builds = Builds /\ clock \in Nat BY DEF ViewInv, ViewTypes
<1>1. ASSUME \/ \E q \in Staff, x \in Placements : Move(q, x)
             \/ \E q \in Staff, x \in Doings : Goes(q, x)
             \/ Elapse
      PROVE  ViewInv'
  <2>1. ViewTypes' /\ builds' = builds
    <3>1. ASSUME NEW q \in Staff, NEW x \in Placements, Move(q, x)
          PROVE  ViewTypes' /\ builds' = builds
      BY <3>1 DEF Move, ViewInv, ViewTypes
    <3>2. ASSUME NEW q \in Staff, NEW x \in Doings, Goes(q, x)
          PROVE  ViewTypes' /\ builds' = builds
      BY <3>2 DEF Goes, ViewInv, ViewTypes
    <3>3. CASE Elapse BY <3>3 DEF Elapse, ViewInv, ViewTypes
    <3> QED BY <1>1, <3>1, <3>2, <3>3
  <2>2. ASSUME NEW b \in Builds, builds'[b] # Absent PROVE AnswerHolds(builds[b])'
    <3>1. PICK a : a = builds[b] OBVIOUS
    <3>2. AnswerHolds(a) /\ builds'[b] = a BY <2>1, <2>2, <3>1 DEF ViewInv
    <3>3. AnswerHolds(a)' BY <1>1, <3>2, AnswerStands DEF ViewInv
    <3> QED BY <3>2, <3>3 DEF AnswerHolds
  <2> QED BY <2>1, <2>2 DEF ViewInv
<1>2. ASSUME NEW b \in Builds, NEW me \in Callers, NEW view \in Views, Ask(b, me, view)
      PROVE  ViewInv'
  <2> DEFINE a == [pc |-> "people", key |-> ScopeKey(me, view), me |-> me, view |-> view,
                   at |-> clock, people |-> {}, presence |-> <<>>, shown |-> <<>>,
                   hourly |-> FALSE]
  <2>1. builds' = [builds EXCEPT ![b] = a] /\ UNCHANGED <<clock, place, doing, wasAt, wasDoing>>
    BY <1>2 DEF Ask
  <2>2. AnswerHolds(a) BY <1>0 DEF AnswerHolds, Fields
  <2> HIDE DEF a
  <2> QED BY <1>0, <2>1, <2>2, OnlyThisAnswer
<1>3. ASSUME NEW b \in Builds, ReadPeople(b) PROVE ViewInv'
  <2>1. PICK a : a = builds[b] OBVIOUS
  <2>2. a # Absent /\ a.pc = "people" /\ AnswerHolds(a) BY <1>3, <2>1 DEF ReadPeople, ViewInv
  <2> DEFINE S == {p \in FilterFor(a.me, place) : place[p].active}
             new == [a EXCEPT !.pc = "presence", !.people = S]
  <2>3. builds' = [builds EXCEPT ![b] = new] /\ UNCHANGED <<clock, place, doing, wasAt, wasDoing>>
    BY <1>0, <1>3, <2>1 DEF ReadPeople
  <2>4. \A p \in S : p \in Staff /\ SeenSince(a.me, p, a.at)
    BY FilterIsSeen DEF ViewInv
  <2>5. AnswerHolds(new) BY <2>2, <2>4 DEF AnswerHolds, Fields
  <2> HIDE DEF new
  <2> QED BY <1>0, <2>3, <2>5, OnlyThisAnswer
<1>4. ASSUME NEW b \in Builds, ReadPresence(b) PROVE ViewInv'
  <2>1. PICK a : a = builds[b] OBVIOUS
  <2>2. a # Absent /\ a.pc = "presence" /\ AnswerHolds(a) BY <1>4, <2>1 DEF ReadPresence, ViewInv
  <2> DEFINE read == [p \in a.people |-> IF OnPresence(doing[p]) THEN doing[p] ELSE Absent]
             new == [a EXCEPT !.pc = "days", !.presence = read]
  <2>3. builds' = [builds EXCEPT ![b] = new] /\ UNCHANGED <<clock, place, doing, wasAt, wasDoing>>
    BY <1>0, <1>4, <2>1 DEF ReadPresence
  <2>4. ASSUME NEW p \in a.people PROVE PresenceHolds(p, read[p], a.at)
    <3>1. doing[p] \in Doings BY <2>2 DEF ViewInv, ViewTypes, AnswerHolds
    <3> QED BY <3>1, AbsentAssumption DEF PresenceHolds, Was
  <2> HIDE DEF read
  <2>5. AnswerHolds(new) BY <2>2, <2>4 DEF AnswerHolds, Fields
  <2> HIDE DEF new
  <2> QED BY <1>0, <2>3, <2>5, OnlyThisAnswer
<1>5. ASSUME NEW b \in Builds, ReadDays(b) PROVE ViewInv'
  <2>1. PICK a : a = builds[b] OBVIOUS
  <2>2. a # Absent /\ a.pc = "days" /\ AnswerHolds(a) BY <1>5, <2>1 DEF ReadDays, ViewInv
  <2> DEFINE status == [p \in a.people |-> StatusOf(a.presence[p], Sessions(doing[p]))]
             hours == a.view = "overview" /\ (SeesWholeOrg(a.me) \/ "activity" \in a.me.grants)
             new == [a EXCEPT !.pc = "done", !.shown = status, !.hourly = hours]
  <2>3. builds' = [builds EXCEPT ![b] = new] /\ UNCHANGED <<clock, place, doing, wasAt, wasDoing>>
    BY <1>0, <1>5, <2>1 DEF ReadDays
  <2>4. ASSUME NEW p \in a.people PROVE status[p] \in Doings /\ Was(p, status[p], a.at)
    BY <2>2, StatusSince DEF ViewInv, AnswerHolds
  <2>5. DOMAIN status = a.people OBVIOUS
  <2> HIDE DEF status
  <2>6. AnswerHolds(new) BY <2>2, <2>4, <2>5 DEF AnswerHolds, Fields
  <2> HIDE DEF new
  <2> QED BY <1>0, <2>3, <2>6, OnlyThisAnswer
<1>6. ASSUME NEW b \in Builds, BuildFails(b) \/ Collect(b) PROVE ViewInv'
  <2>1. builds' = [builds EXCEPT ![b] = Absent] /\ UNCHANGED <<clock, place, doing, wasAt, wasDoing>>
    BY <1>6 DEF BuildFails, Collect
  <2>2. builds'[b] = Absent BY <1>0, <2>1
  <2> QED BY <1>0, <2>1, <2>2, OnlyThisAnswer
<1>7. CASE UNCHANGED viewVars
  BY <1>7 DEF viewVars, ViewInv, ViewTypes, AnswerHolds, ScopeKey, SeesWholeOrg, Was, SeenSince,
              CanSeePerson, PresenceHolds
<1> QED BY <1>1, <1>2, <1>3, <1>4, <1>5, <1>6, <1>7 DEF ViewsNext

LEMMA ViewInvHolds == ViewsSpec => []ViewInv
<1>1. ViewsInit => ViewInv
  BY ViewsAssumption DEF ViewsInit, ViewInv, ViewTypes, Never, Doings
<1> QED BY <1>1, ViewStep, PTL DEF ViewsSpec

(* Whoever is given a shared answer, built for them or for another with the   *)
(* same key, sees in it people of theirs and their status, as they were at a *)
(* moment since CACHE_MS before the request (TeamOverviewService).           *)
THEOREM AnswersHold == ViewsSpec => []AnswersAreTrue
<1>1. ASSUME ViewInv, NEW b \in Done, NEW g \in Given(b), NEW p \in DOMAIN builds[b].shown
      PROVE  /\ \E x \in Placements : /\ x.active /\ CanSeePerson(g[1], x)
                                      /\ Lately(place[p] = x, wasAt[p][x], g[2])
             /\ Lately(doing[p] = builds[b].shown[p], wasDoing[p][builds[b].shown[p]], g[2])
  <2>1. PICK a : a = builds[b] OBVIOUS
  <2>2. AnswerHolds(a) /\ a.pc = "done" /\ p \in a.people /\ p \in Staff
    BY <1>1, <2>1 DEF ViewInv, Done, AnswerHolds
  <2>3. g[2] \in Int /\ g[2] < a.at + CacheTime /\ ScopeKey(g[1], a.view) = a.key
    BY <1>1, <2>1, <2>2, ViewsAssumption DEF Given, Joinable, ViewInv, ViewTypes, AnswerHolds
  <2>4. g[2] - CacheTime < a.at BY <2>2, <2>3, ViewsAssumption DEF AnswerHolds
  <2>5. g[1].role = a.me.role /\ g[1].depts = a.me.depts
    BY <2>2, <2>3 DEF AnswerHolds, ScopeKey
  <2>6. PICK x \in Placements : /\ x.active /\ CanSeePerson(a.me, x)
                                /\ place[p] = x \/ wasAt[p][x] >= a.at
    BY <2>2 DEF AnswerHolds, SeenSince
  <2>7. CanSeePerson(g[1], x) BY <2>5, <2>6 DEF CanSeePerson, SeesWholeOrg
  <2>8. wasAt[p][x] \in Int /\ a.at \in Nat BY <1>1, <2>2 DEF ViewInv, ViewTypes, AnswerHolds
  <2>9. Lately(place[p] = x, wasAt[p][x], g[2])
    BY <2>3, <2>4, <2>6, <2>8, ViewsAssumption DEF Lately
  <2>10. /\ a.shown[p] \in Doings
         /\ doing[p] = a.shown[p] \/ wasDoing[p][a.shown[p]] >= a.at
    BY <2>2 DEF AnswerHolds, Was
  <2>11. wasDoing[p][a.shown[p]] \in Int BY <1>1, <2>2, <2>10 DEF ViewInv, ViewTypes
  <2>12. Lately(doing[p] = a.shown[p], wasDoing[p][a.shown[p]], g[2])
    BY <2>3, <2>4, <2>8, <2>10, <2>11, ViewsAssumption DEF Lately
  <2> QED BY <2>1, <2>6, <2>7, <2>9, <2>12
<1>2. ASSUME ViewInv, NEW b \in Done, NEW g \in Given(b), builds[b].hourly
      PROVE  SeesWholeOrg(g[1]) \/ "activity" \in g[1].grants
  <2>1. AnswerHolds(builds[b]) /\ builds[b].pc = "done" BY <1>2 DEF ViewInv, Done
  <2>2. ScopeKey(g[1], builds[b].view) = builds[b].key BY <1>2 DEF Given
  <2> QED BY <1>2, <2>1, <2>2 DEF AnswerHolds, ScopeKey, SeesWholeOrg
<1>3. ViewInv => AnswersAreTrue
  BY <1>1, <1>2 DEF AnswersAreTrue, AnswersFitTheCaller, StatusWasTheirs
<1> QED BY <1>3, ViewInvHolds, PTL

-----------------------------------------------------------------------------
(* The runs of a month *)

RunKeys == {"TEAM", "ALL"} \X Persons

JobFields == {"pc", "onlyMissing", "all", "left", "at"}

(* What a job still has to do are the owners it read that have no run; one    *)
(* that makes up for missing runs has told nobody of those.                  *)
JobHolds(j) ==
  /\ DOMAIN j = JobFields /\ j.onlyMissing \in BOOLEAN
  /\ j.pc \in {"worth", "people", "next", "half"}
  /\ j.onlyMissing /\ j.pc # "worth" => firstBoot = 0
  /\ j.pc \in {"next", "half"} => /\ j.all \subseteq runs \cup j.left
                                  /\ j.onlyMissing => j.left \cap runs = {}
  /\ j.pc = "half" => /\ j.at \in RunKeys /\ j.at \in runs
                      /\ j.onlyMissing => told[j.at] = 0

(* Only owners of stored runs were told.                                     *)
RunsInv ==
  /\ accounted \subseteq runs
  /\ told \in [RunKeys -> {0, 1}]
  /\ \A k \in RunKeys : told[k] = 1 => k \in runs /\ firstBoot = 0
  /\ job # Nothing => JobHolds(job)

(* generateFor stores the run before it tells the owner; a crash or a failure *)
(* between the two ends the job.                                             *)
LEMMA RunsInvStep ==
  ASSUME RunsInv, [ReportsNext]_reportVars PROVE RunsInv'
<1> USE DEF RunsInv
<1>1. CASE UNCHANGED <<runs, told, accounted, job, firstBoot>>
  BY <1>1 DEF JobHolds
<1>2. ASSUME NEW only \in BOOLEAN, Begins(only), UNCHANGED <<runs, told, accounted, firstBoot>> PROVE RunsInv'
  <2>1. CASE job # Nothing BY <1>2, <2>1, <1>1 DEF Begins
  <2>2. CASE job = Nothing
    <3>1. PICK pc \in {"worth", "people"} :
            /\ only => pc = "worth"
            /\ job' = [pc |-> pc, onlyMissing |-> only, all |-> {}, left |-> {}, at |-> Nothing]
      BY <1>2, <2>2 DEF Begins
    <3> QED BY <1>2, <3>1 DEF JobHolds, JobFields
  <2> QED BY <2>1, <2>2
<1>3. ASSUME NEW kind, Cron(kind) PROVE RunsInv'
  BY <1>1, <1>2, <1>3 DEF Cron
<1>4. CASE BootCatchUp BY <1>2, <1>4 DEF BootCatchUp
<1>13. CASE WorthCatchUp
  <2>1. PICK j : j = job OBVIOUS
  <2> DEFINE begun == [j EXCEPT !.pc = "people"]
  <2>2. /\ JobHolds(j) /\ UNCHANGED <<runs, told, accounted, firstBoot>>
        /\ (job' = begun /\ firstBoot = 0) \/ job' = Nothing
    BY <1>13, <2>1 DEF WorthCatchUp
  <2>3. DOMAIN begun = JobFields /\ begun.pc = "people" /\ begun.onlyMissing = j.onlyMissing
    BY <2>2 DEF JobHolds, JobFields
  <2> HIDE DEF begun
  <2> QED BY <2>2, <2>3 DEF JobHolds
<1>5. CASE ReadOwners
  <2>1. PICK j : j = job OBVIOUS
  <2> DEFINE read == [j EXCEPT !.pc = "next", !.all = Owners,
                               !.left = {k \in Owners : ~(j.onlyMissing /\ Have(k))}]
  <2>2. JobHolds(j) /\ j.pc = "people" /\ job' = read /\ UNCHANGED <<runs, told, accounted, firstBoot>>
    BY <1>5, <2>1 DEF ReadOwners
  <2>3. /\ DOMAIN read = JobFields /\ read.pc = "next" /\ read.onlyMissing = j.onlyMissing
        /\ read.all = Owners /\ read.left = {k \in Owners : ~(j.onlyMissing /\ Have(k))}
    BY <2>2 DEF JobHolds, JobFields
  <2>4. Owners \subseteq runs \cup read.left /\ (j.onlyMissing => read.left \cap runs = {})
    BY <2>3 DEF Have
  <2> HIDE DEF read
  <2> QED BY <2>2, <2>3, <2>4 DEF JobHolds
<1>6. ASSUME NEW k \in RunKeys, FirstHalf(k) PROVE RunsInv'
  <2>1. PICK j : j = job OBVIOUS
  <2> DEFINE half == [j EXCEPT !.pc = "half", !.at = k, !.left = @ \ {k}]
  <2>2. /\ JobHolds(j) /\ j.pc = "next" /\ k \in j.left
        /\ job' = half /\ runs' = runs \cup {k} /\ UNCHANGED <<told, accounted, firstBoot>>
    BY <1>6, <2>1 DEF FirstHalf, Does, Order
  <2>3. /\ DOMAIN half = JobFields /\ half.pc = "half" /\ half.onlyMissing = j.onlyMissing
        /\ half.all = j.all /\ half.left = j.left \ {k} /\ half.at = k
    BY <2>2 DEF JobHolds, JobFields
  <2>4. j.onlyMissing => told[k] = 0 /\ firstBoot = 0
    <3>1. j.onlyMissing => firstBoot = 0 BY <2>2 DEF JobHolds
    <3>2. j.onlyMissing => k \notin runs BY <2>2 DEF JobHolds
    <3>3. told[k] \in {0, 1} OBVIOUS
    <3> QED BY <3>1, <3>2, <3>3
  <2>5. /\ half.all \subseteq runs' \cup half.left
        /\ j.onlyMissing => half.left \cap runs' = {}
    <3>1. j.all \subseteq runs \cup j.left /\ (j.onlyMissing => j.left \cap runs = {})
      BY <2>2 DEF JobHolds
    <3> HIDE DEF half
    <3> QED BY <2>2, <2>3, <3>1
  <2> HIDE DEF half
  <2>6. JobHolds(job)' BY <2>2, <2>3, <2>4, <2>5 DEF JobHolds, RunKeys
  <2> QED BY <2>2, <2>6
<1>7. CASE SecondHalf
  <2>1. PICK j : j = job OBVIOUS
  <2> DEFINE next == [j EXCEPT !.pc = "next", !.at = Nothing]
  <2>2. /\ JobHolds(j) /\ j.pc = "half" /\ job' = next
        /\ UNCHANGED <<runs, accounted, firstBoot>>
        /\ told' = [told EXCEPT ![j.at] = IF j.onlyMissing THEN @ + 1 ELSE @]
    BY <1>7, <2>1 DEF SecondHalf, Does, Order
  <2>3. /\ DOMAIN next = JobFields /\ next.pc = "next" /\ next.onlyMissing = j.onlyMissing
        /\ next.all = j.all /\ next.left = j.left
    BY <2>2 DEF JobHolds, JobFields
  <2>4. j.at \in RunKeys /\ j.at \in runs /\ (j.onlyMissing => told[j.at] = 0)
    BY <2>2 DEF JobHolds
  <2>6. j.onlyMissing => firstBoot = 0 BY <2>2 DEF JobHolds
  <2>5. /\ told' \in [RunKeys -> {0, 1}]
        /\ \A k \in RunKeys : told'[k] = 1 => k \in runs /\ firstBoot = 0
    <3>1. PICK at : at = j.at OBVIOUS
    <3>2. told' = IF j.onlyMissing THEN [told EXCEPT ![at] = told[at] + 1]
                                   ELSE [told EXCEPT ![at] = told[at]]
      BY <2>2, <3>1
    <3>3. CASE j.onlyMissing BY <2>4, <2>6, <3>1, <3>2, <3>3
    <3>4. CASE ~j.onlyMissing
      <4>1. told' = told BY <3>2, <3>4
      <4> QED BY <4>1, <2>2
    <3> QED BY <3>3, <3>4
  <2> HIDE DEF next
  <2> QED BY <2>2, <2>3, <2>5 DEF JobHolds
<1>8. CASE Finish
  <2>1. JobHolds(job) /\ job.pc = "next" /\ job.left = {} BY <1>8 DEF Finish
  <2>2. job.all \subseteq runs BY <2>1 DEF JobHolds
  <2> QED BY <1>8, <2>2 DEF Finish
<1>9. CASE JobFails \/ Crash BY <1>9 DEF JobFails, Crash
<1>10. CASE NextDay \/ \E p \in Persons, x \in Posts : Repost(p, x)
  BY <1>10, <1>1 DEF NextDay, Repost, jobVars
<1>14. CASE Boot
  <2>1. firstBoot = 0 => firstBoot' = 0 BY <1>14, ReportsAssumption DEF Boot
  <2> QED BY <1>14, <2>1 DEF Boot, JobHolds
<1>11. CASE MonthNext
  BY <1>11, <1>1 DEF MonthNext, Decide, ChangeSettings, BeginLock, CommitLock, UnlockMonth,
                     AskReport, ReadSnapshot, BuildLive, Answer, jobVars
<1>12. CASE UNCHANGED reportVars BY <1>12, <1>1 DEF reportVars, jobVars
<1> QED
  BY <1>3, <1>4, <1>5, <1>6, <1>7, <1>8, <1>9, <1>10, <1>11, <1>12,
     <1>13, <1>14
  DEF ReportsNext, Happens, RunsNext, RunKeys

(* Every owner a finished job had read has a run, and the catch-up told each  *)
(* at most once, whatever crashed or failed on the way (ReportRunsService).  *)
THEOREM RunsHold == ReportsSpec => []RunsCatchUp
<1>1. ReportsInit => RunsInv
  BY DEF ReportsInit, RunsInv, RunKeys
<1>2. RunsInv => RunsCatchUp
  BY DEF RunsInv, RunKeys, RunsCatchUp, CatchUpMakesUp, ToldOnce, NoOldMonth
<1> QED BY <1>1, <1>2, RunsInvStep, PTL DEF ReportsSpec

-----------------------------------------------------------------------------
(* The cached hours: what a request may do to the samples *)

ServiceHolds(s) ==
  /\ s.pc = "stamp" => s.wrote = {}
  /\ s.pc = "create" => ~s.ends
  /\ ~s.backfilled /\ ~s.ends => now <= s.at + Lag
  /\ ~s.backfilled => \A t \in s.wrote : now <= t + Lag

CacheTypes ==
  /\ now \in Nat /\ version \in Nat /\ LedgerTypeOK
  /\ samples \in [Times -> {"none", "open", "stamped"}]
  /\ serving \in [Requests -> Service \cup {None}]
  /\ DOMAIN reading = Readers /\ DOMAIN recent = Viewed /\ DOMAIN settled = Viewed
  /\ \A r \in Requests : serving[r] # None => ServiceHolds(serving[r])

(* Of what was stored, one sample is the latest.                             *)
LEMMA LatestStored ==
  ASSUME CacheTypes, Stored # {} PROVE Latest \in Stored /\ Latest \in Times
<1> DEFINE gaps == {MaxTime - t : t \in Stored}
<1>1. Stored \subseteq Times /\ MaxTime \in Nat BY CloseAssumption DEF Stored
<1>2. gaps \subseteq Nat /\ gaps # {}
  <2>1. \A t \in Stored : MaxTime - t \in Nat BY <1>1 DEF Times
  <2> QED BY <2>1
<1>3. PICK gap \in gaps : \A other \in gaps : ~(<<other, gap>> \in OpToRel(<, Nat))
  BY <1>2, NatLessThanWellFounded, WFMin
<1>4. PICK t \in Stored : gap = MaxTime - t OBVIOUS
<1>5. ASSUME NEW u \in Stored PROVE u <= t
  <2>1. MaxTime - u \in gaps /\ MaxTime - u \in Nat BY <1>2
  <2>2. ~(MaxTime - u < gap) BY <1>2, <1>3, <2>1 DEF OpToRel
  <2> QED BY <1>1, <1>4, <2>1, <2>2 DEF Times
<1>6. \E x \in Stored : \A u \in Stored : u <= x BY <1>5
<1> QED BY <1>1, <1>6 DEF Latest

(* Rows stay, on their day, and a closed one changes only by ending later.   *)
SessionsGrow ==
  \A i \in Rows :
    /\ i \in Rows' /\ sessions'[i].date = sessions[i].date
    /\ i \in ClosedIds => /\ i \in ClosedIds'
                          /\ sessions'[i] = sessions[i] \/ sessions'[i].end > sessions[i].end

LEMMA SessionStep ==
  ASSUME LedgerTypeOK, NEW i \in SessionIds,
         Opened(i) \/ \E t \in Times : Ended(i, t) \/ AutoClosed(i, t) \/ Extended(i, t)
  PROVE  LedgerTypeOK' /\ SessionsGrow
<1>1. CASE Opened(i)
  <2>1. PICK date \in Days, t \in Times, source \in Sources :
          sessions' = [sessions EXCEPT ![i] = NewSession(date, t, source)]
    BY <1>1 DEF Opened
  <2>2. NewSession(date, t, source) \in Session BY DEF NewSession, Session
  <2>3. PICK s : s = NewSession(date, t, source) OBVIOUS
  <2> QED BY <1>1, <2>1, <2>2, <2>3, RowWritten DEF SessionsGrow, Opened, Rows, OpenIds, ClosedIds
<1>2. ASSUME NEW t \in Times, Ended(i, t) \/ AutoClosed(i, t) \/ Extended(i, t)
      PROVE  LedgerTypeOK' /\ SessionsGrow
  <2>1. i \in Rows /\ sessions[i] \in Session
    BY <1>2 DEF LedgerTypeOK, Ended, AutoClosed, Extended, Rows, OpenIds, ClosedIds
  <2>2. PICK s \in Session : /\ sessions' = [sessions EXCEPT ![i] = s]
                             /\ s.date = sessions[i].date /\ s.end = t
    <3>1. CASE Ended(i, t)
      <4>1. [sessions[i] EXCEPT !.end = t, !.reason = "USER"] \in Session BY <2>1 DEF Session
      <4> QED BY <2>1, <3>1, <4>1 DEF Ended, Session
    <3>2. CASE AutoClosed(i, t)
      <4>1. [sessions[i] EXCEPT !.end = t, !.reason = "AUTO_CLOSED"] \in Session
        BY <2>1 DEF Session
      <4> QED BY <2>1, <3>2, <4>1 DEF AutoClosed, Session
    <3>3. CASE Extended(i, t)
      <4>1. [sessions[i] EXCEPT !.end = t, !.source = "REPLAY"] \in Session
        BY <2>1 DEF Session, Sources
      <4> QED BY <2>1, <3>3, <4>1 DEF Extended, Session
    <3> QED BY <1>2, <3>1, <3>2, <3>3
  <2>3. t # None BY NoneAssumption DEF Times
  <2>4. i \in ClosedIds => t > sessions[i].end
    <3>1. i \in ClosedIds => i \notin OpenIds BY DEF ClosedIds
    <3>2. i \in ClosedIds => sessions[i].end < t
      BY <1>2, <3>1 DEF Ended, AutoClosed, Extended
    <3>3. i \in ClosedIds => sessions[i].end \in Nat
      BY <2>1 DEF ClosedIds, OpenIds, Session, Times
    <3> QED BY <3>2, <3>3 DEF Times
  <2>5. /\ LedgerTypeOK' /\ sessions'[i] = s /\ i \in Rows'
        /\ \A j \in SessionIds \ {i} : sessions'[j] = sessions[j]
    BY <2>2, RowWritten
  <2>6. i \in ClosedIds' BY <2>2, <2>3, <2>5 DEF ClosedIds, OpenIds
  <2>7. ASSUME NEW j \in Rows
        PROVE  /\ j \in Rows' /\ sessions'[j].date = sessions[j].date
               /\ j \in ClosedIds =>
                    /\ j \in ClosedIds'
                    /\ sessions'[j] = sessions[j] \/ sessions'[j].end > sessions[j].end
    <3>1. CASE j = i BY <2>2, <2>4, <2>5, <2>6, <3>1
    <3>2. CASE j # i BY <2>5, <2>7, <3>2 DEF Rows, OpenIds, ClosedIds
    <3> QED BY <3>1, <3>2
  <2>8. SessionsGrow BY <2>7 DEF SessionsGrow
  <2> QED BY <2>5, <2>8
<1> QED BY <1>1, <1>2

-----------------------------------------------------------------------------
(* The cached hours: what is kept, and what a step may do to it *)

(* The samples whose change is being announced, or never is.                 *)
Covered == Announcing \cup unannounced

(* The day had these closed rows; since then rows were added or moved on.    *)
Grown(rows, d) ==
  \A i \in DOMAIN rows :
    /\ i \in RowsOf(d) /\ i \in ClosedIds /\ rows[i].end \in Nat
    /\ sessions[i] = rows[i] \/ sessions[i].end > rows[i].end

(* Hours read under a sample version no younger than ver: should the rows and *)
(* the version still be those, they are the samples but for covered ones.    *)
KeptFor(d, rows, ver, active) ==
  /\ Grown(rows, d) /\ ver \in Nat /\ ver <= version
  /\ rows = Stamp(d) /\ ver = version => SymDiff(active, ActiveIn(d)) \subseteq Covered

(* Hours read once the day was final.                                        *)
KeptForGood(d, active) == d \notin changedLate => Final(d, now) /\ active = ActiveIn(d)
SinceFinal(d) == d \notin changedLate => Final(d, now)

(* What every step does: a change of the samples is covered, or announced at  *)
(* once; a change of a final day is noted.                                   *)
Effect ==
  /\ SessionsGrow /\ now <= now' /\ version <= version'
  /\ version' = version => /\ Covered \subseteq Covered'
                           /\ \A t \in Times : samples'[t] # samples[t] => t \in Covered'
  /\ \A d \in Viewed : d \notin changedLate' =>
       /\ d \notin changedLate
       /\ Final(d, now) => Stamp(d)' = Stamp(d) /\ ActiveIn(d)' = ActiveIn(d)

(* The rows of a day never again are what they once were and are not any more. *)
LEMMA NeverBack ==
  ASSUME LedgerTypeOK, LedgerTypeOK', SessionsGrow, NEW d, NEW rows, Grown(rows, d)
  PROVE  /\ Grown(rows, d)'
         /\ rows = Stamp(d)' => rows = Stamp(d) /\ Stamp(d)' = Stamp(d)
<1>1. ASSUME NEW i \in DOMAIN rows
      PROVE  /\ i \in RowsOf(d)' /\ i \in ClosedIds' /\ rows[i].end \in Nat
             /\ sessions'[i] = rows[i] \/ sessions'[i].end > rows[i].end
             /\ sessions'[i] = rows[i] => sessions[i] = rows[i]
  <2>1. /\ i \in RowsOf(d) /\ i \in ClosedIds /\ rows[i].end \in Nat
        /\ sessions[i] = rows[i] \/ sessions[i].end > rows[i].end
    BY DEF Grown
  <2>2. /\ i \in Rows' /\ sessions'[i].date = sessions[i].date /\ i \in ClosedIds'
        /\ sessions'[i] = sessions[i] \/ sessions'[i].end > sessions[i].end
    BY <2>1 DEF SessionsGrow, RowsOf
  <2>3. sessions[i].end \in Nat /\ sessions'[i].end \in Nat
    <3>1. i \in SessionIds /\ sessions[i] \in Session /\ sessions[i].end # None
      BY <2>1 DEF LedgerTypeOK, ClosedIds, OpenIds, Rows
    <3>2. sessions'[i] \in Session /\ sessions'[i].end # None
      BY <2>2, <3>1 DEF LedgerTypeOK, ClosedIds, OpenIds, Rows
    <3> QED BY <3>1, <3>2 DEF Session, Times
  <2>4. i \in RowsOf(d)' BY <2>1, <2>2 DEF RowsOf
  <2> QED BY <2>1, <2>2, <2>3, <2>4
<1>2. Grown(rows, d)' BY <1>1 DEF Grown
<1>3. ASSUME rows = Stamp(d)' PROVE rows = Stamp(d) /\ Stamp(d)' = Stamp(d)
  <2>1. DOMAIN rows = RowsOf(d)' /\ \A i \in RowsOf(d)' : rows[i] = sessions'[i]
    BY <1>3 DEF Stamp
  <2>2. RowsOf(d) \subseteq RowsOf(d)' BY DEF SessionsGrow, RowsOf
  <2>3. RowsOf(d) = RowsOf(d)' BY <1>1, <2>1, <2>2 DEF Grown
  <2>4. \A i \in RowsOf(d) : sessions[i] = sessions'[i] BY <1>1, <2>1, <2>3
  <2> QED BY <1>3, <2>3, <2>4 DEF Stamp
<1> QED BY <1>2, <1>3

(* The active hours of a day follow from its rows and the samples.           *)
LEMMA SameActive ==
  ASSUME NEW d, Stamp(d)' = Stamp(d), NEW t \in Times, samples'[t] = samples[t]
  PROVE  t \in ActiveIn(d)' <=> t \in ActiveIn(d)
<1>1. RowsOf(d)' = RowsOf(d) /\ \A i \in RowsOf(d) : sessions'[i] = sessions[i]
  <2>1. DOMAIN Stamp(d)' = RowsOf(d)' /\ DOMAIN Stamp(d) = RowsOf(d) BY DEF Stamp
  <2>2. RowsOf(d)' = RowsOf(d) BY <2>1
  <2>3. \A i \in RowsOf(d) : Stamp(d)'[i] = sessions'[i] /\ Stamp(d)[i] = sessions[i]
    BY <2>2 DEF Stamp
  <2> QED BY <2>2, <2>3
<1> QED BY <1>1 DEF ActiveIn, Within, Times

LEMMA KeptStands ==
  ASSUME LedgerTypeOK, LedgerTypeOK', version \in Nat, version' \in Nat, now \in Nat, now' \in Nat,
         Effect, NEW d \in Viewed
  PROVE  /\ \A rows : Grown(rows, d) => Grown(rows, d)'
         /\ \A rows, ver, active : KeptFor(d, rows, ver, active) => KeptFor(d, rows, ver, active)'
         /\ \A active : KeptForGood(d, active) => KeptForGood(d, active)'
         /\ SinceFinal(d) => SinceFinal(d)'
<1>1. \A rows : Grown(rows, d) => Grown(rows, d)' BY NeverBack DEF Effect
<1>2. ASSUME NEW rows, NEW ver, NEW active, KeptFor(d, rows, ver, active)
      PROVE  KeptFor(d, rows, ver, active)'
  <2>1. Grown(rows, d) /\ ver \in Nat /\ ver <= version /\ version <= version'
    BY <1>2 DEF KeptFor, Effect
  <2>2. ASSUME rows = Stamp(d)', ver = version', NEW t \in SymDiff(active, ActiveIn(d)')
        PROVE  t \in Covered'
    <3>1. rows = Stamp(d) /\ Stamp(d)' = Stamp(d) BY <2>1, <2>2, NeverBack DEF Effect
    <3>2. version' = version /\ ver = version BY <2>1, <2>2
    <3>3. /\ SymDiff(active, ActiveIn(d)) \subseteq Covered' /\ Covered \subseteq Covered'
          /\ \A u \in Times : samples'[u] # samples[u] => u \in Covered'
      BY <1>2, <3>1, <3>2 DEF KeptFor, Effect
    <3>4. CASE t \in SymDiff(active, ActiveIn(d)) BY <3>3, <3>4
    <3>5. CASE t \notin SymDiff(active, ActiveIn(d))
      <4>1. ~(t \in ActiveIn(d)' <=> t \in ActiveIn(d)) BY <2>2, <3>5 DEF SymDiff
      <4>2. t \in Times BY <4>1 DEF ActiveIn, Times
      <4> QED BY <3>1, <3>3, <4>1, <4>2, SameActive
    <3> QED BY <3>4, <3>5
  <2> QED BY <1>1, <2>1, <2>2 DEF KeptFor
<1>3. ASSUME d \notin changedLate', Final(d, now)
      PROVE  Final(d, now)' /\ ActiveIn(d)' = ActiveIn(d) /\ d \notin changedLate
  <2>1. Stamp(d)' = Stamp(d) /\ ActiveIn(d)' = ActiveIn(d) /\ d \notin changedLate /\ now <= now'
    BY <1>3 DEF Effect
  <2>2. RowsOf(d)' = RowsOf(d) /\ \A i \in RowsOf(d) : sessions'[i] = sessions[i]
    <3>1. DOMAIN Stamp(d)' = RowsOf(d)' /\ DOMAIN Stamp(d) = RowsOf(d) BY DEF Stamp
    <3>2. RowsOf(d)' = RowsOf(d) BY <2>1, <3>1
    <3>3. \A i \in RowsOf(d) : Stamp(d)'[i] = sessions'[i] /\ Stamp(d)[i] = sessions[i]
      BY <3>2 DEF Stamp
    <3> QED BY <2>1, <3>2, <3>3
  <2>3. Closed(d)' BY <1>3, <2>2 DEF Final, Closed, ClosedIds, OpenIds, Rows, RowsOf
  <2>4. ASSUME NEW i \in RowsOf(d) PROVE sessions[i].end + Backlog + Margin < now'
    <3>1. sessions[i].end + Backlog + Margin < now BY <1>3 DEF Final
    <3>2. sessions[i].end \in Nat
      BY <1>3 DEF Final, Closed, ClosedIds, OpenIds, Rows, LedgerTypeOK, Session, Times
    <3> QED BY <2>1, <3>1, <3>2, CacheAssumption
  <2> QED BY <2>1, <2>2, <2>3, <2>4 DEF Final
<1>4. d \notin changedLate' => d \notin changedLate BY DEF Effect
<1> QED BY <1>1, <1>2, <1>3, <1>4 DEF KeptForGood, SinceFinal

-----------------------------------------------------------------------------
(* The cached hours: every step has such an effect *)

(* A request goes on, and what it had written stays covered.                 *)
LEMMA Served ==
  ASSUME CacheTypes, NEW r \in Requests, NEW s \in Service \cup {None},
         serving' = [serving EXCEPT ![r] = s], now' = now,
         s # None => ServiceHolds(s),
         unannounced \subseteq unannounced',
         serving[r] # None => \A t \in serving[r].wrote : t \in unannounced' \/ (s # None /\ t \in s.wrote)
  PROVE  /\ serving' \in [Requests -> Service \cup {None}]
         /\ \A o \in Requests : serving'[o] # None => ServiceHolds(serving[o])'
         /\ Covered \subseteq Covered'
         /\ s # None => s.wrote \subseteq Covered'
<1>1. /\ serving' \in [Requests -> Service \cup {None}] /\ serving'[r] = s
      /\ \A o \in Requests \ {r} : serving'[o] = serving[o]
  BY DEF CacheTypes
<1>2. ASSUME NEW o \in Requests, serving'[o] # None PROVE ServiceHolds(serving[o])'
  <2>1. PICK x : x = serving'[o] OBVIOUS
  <2>2. ServiceHolds(x) BY <1>1, <1>2, <2>1 DEF CacheTypes
  <2>3. ServiceHolds(x)' BY <2>2 DEF ServiceHolds
  <2> QED BY <2>1, <2>3 DEF ServiceHolds
<1>3. ASSUME s # None PROVE s.wrote \subseteq Covered'
  BY <1>1, <1>3 DEF Covered, Announcing
<1>4. ASSUME NEW t \in Covered PROVE t \in Covered'
  <2>1. CASE t \in unannounced BY <2>1 DEF Covered
  <2>2. CASE t \in Announcing
    <3>1. PICK o \in Requests : serving[o] # None /\ t \in serving[o].wrote
      BY <2>2 DEF Announcing
    <3>2. CASE o = r BY <1>3, <3>1, <3>2 DEF Covered
    <3>3. CASE o # r
      <4>1. serving'[o] # None /\ t \in serving'[o].wrote BY <1>1, <3>1, <3>3
      <4> QED BY <4>1 DEF Covered, Announcing
    <3> QED BY <3>2, <3>3
  <2> QED BY <1>4, <2>1, <2>2 DEF Covered
<1> QED BY <1>1, <1>2, <1>3, <1>4

Lates ==
  \/ changedLate' = changedLate /\ UNCHANGED <<sessions, samples>>
  \/ ChangesLate

(* A change of a final day is noted (ChangesLate), or there is none.          *)
LEMMA LateNoted ==
  ASSUME Lates, NEW d \in Viewed, d \notin changedLate'
  PROVE  /\ d \notin changedLate
         /\ Final(d, now) => Stamp(d)' = Stamp(d) /\ ActiveIn(d)' = ActiveIn(d)
<1>1. CASE ChangesLate BY <1>1 DEF ChangesLate
<1>2. CASE changedLate' = changedLate /\ UNCHANGED <<sessions, samples>>
  BY <1>2 DEF Stamp, ActiveIn, RowsOf, Rows, Within
<1> QED BY <1>1, <1>2 DEF Lates

UnreadVars == <<settled, recent, reading>>

(* A step of the table with nothing else changing.                           *)
LEMMA SessionsEffect ==
  ASSUME CacheTypes, Lates, LedgerTypeOK', SessionsGrow,
         UNCHANGED <<now, samples, version, unannounced>>, UNCHANGED UnreadVars,
         \/ UNCHANGED serving
         \/ \E r \in Requests, s \in Service : /\ serving[r] = None /\ ServiceHolds(s)
                                               /\ serving' = [serving EXCEPT ![r] = s]
  PROVE  CacheTypes' /\ Effect
<1>1. /\ serving' \in [Requests -> Service \cup {None}]
      /\ \A o \in Requests : serving'[o] # None => ServiceHolds(serving[o])'
      /\ Covered \subseteq Covered'
  <2>1. CASE UNCHANGED serving BY <2>1 DEF CacheTypes, ServiceHolds, Covered, Announcing
  <2>2. ASSUME NEW r \in Requests, NEW s \in Service, serving[r] = None, ServiceHolds(s),
               serving' = [serving EXCEPT ![r] = s]
        PROVE  /\ serving' \in [Requests -> Service \cup {None}]
               /\ \A o \in Requests : serving'[o] # None => ServiceHolds(serving[o])'
               /\ Covered \subseteq Covered'
    <3>1. s \in Service \cup {None} /\ now' = now /\ unannounced \subseteq unannounced' OBVIOUS
    <3> QED BY <2>2, <3>1, Served
  <2> QED BY <2>1, <2>2
<1>2. CacheTypes' BY <1>1 DEF CacheTypes, UnreadVars
<1>3. Effect BY <1>1, LateNoted DEF Effect, CacheTypes
<1> QED BY <1>2, <1>3

(* Sessions that start, end or are closed, and reports that come in.         *)
LEMMA TableEffect ==
  ASSUME CacheTypes,
         \/ \E i \in SessionIds :
              Starts(i) \/ \E t \in Times : AutoCloses(i, t) \/ \E r \in Requests : Ends(r, i, t)
         \/ \E r \in Requests, t \in Times : Report(r, t)
  PROVE  CacheTypes' /\ Effect /\ UNCHANGED UnreadVars
<1>0. LedgerTypeOK /\ now \in Nat BY DEF CacheTypes
<1>1. ASSUME NEW i \in SessionIds, Starts(i)
      PROVE  CacheTypes' /\ Effect /\ UNCHANGED UnreadVars
  <2>1. LedgerTypeOK' /\ SessionsGrow BY <1>0, <1>1, SessionStep DEF Starts
  <2> QED BY <1>1, <2>1, SessionsEffect DEF Starts, Lates, UnreadVars
<1>2. ASSUME NEW i \in SessionIds, NEW t \in Times, AutoCloses(i, t)
      PROVE  CacheTypes' /\ Effect /\ UNCHANGED UnreadVars
  <2>1. LedgerTypeOK' /\ SessionsGrow BY <1>0, <1>2, SessionStep DEF AutoCloses
  <2> QED BY <1>2, <2>1, SessionsEffect DEF AutoCloses, Lates, UnreadVars
<1>3. ASSUME NEW i \in SessionIds, NEW t \in Times, NEW r \in Requests, Ends(r, i, t)
      PROVE  CacheTypes' /\ Effect /\ UNCHANGED UnreadVars
  <2> DEFINE s == [pc |-> "stamp", ends |-> TRUE, at |-> t, backfilled |-> FALSE, wrote |-> {}]
  <2>1. LedgerTypeOK' /\ SessionsGrow BY <1>0, <1>3, SessionStep DEF Ends
  <2>2. s \in Service /\ ServiceHolds(s) BY DEF Service, ServiceHolds
  <2>3. serving[r] = None /\ serving' = [serving EXCEPT ![r] = s] BY <1>3 DEF Ends
  <2> HIDE DEF s
  <2> QED BY <1>3, <2>1, <2>2, <2>3, SessionsEffect DEF Ends, Lates, UnreadVars
<1>4. ASSUME NEW r \in Requests, NEW t \in Times, NEW late \in BOOLEAN, Receive(r, t, late),
             LedgerTypeOK' /\ SessionsGrow, Lates
      PROVE  CacheTypes' /\ Effect /\ UNCHANGED UnreadVars
  <2> DEFINE s == [pc |-> "stamp", ends |-> FALSE, at |-> t,
                   backfilled |-> late \/ now > t + Lag, wrote |-> {}]
  <2>1. serving[r] = None /\ serving' = [serving EXCEPT ![r] = s] BY <1>4 DEF Receive
  <2>2. s \in Service BY DEF Service
  <2>3. ServiceHolds(s)
    <3>1. ~(now > t + Lag) => now <= t + Lag BY <1>0, CacheAssumption DEF Times
    <3>2. s.pc = "stamp" /\ s.wrote = {} /\ s.at = t /\ (~s.backfilled => ~(now > t + Lag))
      OBVIOUS
    <3> HIDE DEF s
    <3> QED BY <3>1, <3>2 DEF ServiceHolds
  <2> HIDE DEF s
  <2> QED BY <1>4, <2>1, <2>2, <2>3, SessionsEffect DEF Receive, UnreadVars
<1>5. ASSUME NEW r \in Requests, NEW t \in Times, Report(r, t)
      PROVE  CacheTypes' /\ Effect /\ UNCHANGED UnreadVars
  <2>1. CASE UNCHANGED <<sessions, changedLate>> /\ \E late \in BOOLEAN : Receive(r, t, late)
    <3>1. LedgerTypeOK' /\ SessionsGrow
      BY <1>0, <2>1 DEF LedgerTypeOK, SessionsGrow, Rows, ClosedIds, OpenIds
    <3>2. Lates BY <2>1 DEF Lates, Receive
    <3> QED BY <1>4, <2>1, <3>1, <3>2
  <2>2. CASE /\ \E i \in ClosedIds : Extended(i, t)
             /\ Receive(r, t, TRUE) /\ ChangesLate
    <3>1. LedgerTypeOK' /\ SessionsGrow
      BY <1>0, <2>2, SessionStep DEF ClosedIds, Rows
    <3> QED BY <1>4, <2>2, <3>1 DEF Lates
  <2> QED BY <1>5, <2>1, <2>2 DEF Report
<1> QED BY <1>1, <1>2, <1>3, <1>5

(* A request that stamps, stores, announces or fails.                        *)
LEMMA RequestEffect ==
  ASSUME CacheTypes, NEW r \in Requests,
         StampLatest(r) \/ Create(r) \/ Announce(r) \/ Fails(r)
  PROVE  CacheTypes' /\ Effect /\ UNCHANGED UnreadVars
<1>1. PICK s : s = serving[r] OBVIOUS
<1>2. s # None /\ s \in Service /\ ServiceHolds(s)
  BY <1>1 DEF StampLatest, Create, Announce, Fails, CacheTypes
<1>3. now' = now /\ UNCHANGED <<sessions, settled, recent, reading>> /\ now \in Nat /\ version \in Nat
  BY DEF StampLatest, Create, Announce, Fails, CacheTypes
<1>4. LedgerTypeOK' /\ SessionsGrow
  BY <1>3 DEF CacheTypes, LedgerTypeOK, SessionsGrow, Rows, ClosedIds, OpenIds
<1>5. ASSUME Lates, samples' \in [Times -> {"none", "open", "stamped"}], version' \in Nat,
             version <= version', NEW x \in Service \cup {None},
             serving' = [serving EXCEPT ![r] = x], x # None => ServiceHolds(x),
             unannounced \subseteq unannounced',
             version' = version =>
               \A t \in s.wrote : t \in unannounced' \/ (x # None /\ t \in x.wrote),
             \A t \in Times : samples'[t] # samples[t] => x # None /\ t \in x.wrote
      PROVE  CacheTypes' /\ Effect
  <2>1. /\ serving' \in [Requests -> Service \cup {None}] /\ serving'[r] = x
        /\ \A o \in Requests \ {r} : serving'[o] = serving[o]
    BY <1>5 DEF CacheTypes
  <2>2. ASSUME NEW o \in Requests, serving'[o] # None PROVE ServiceHolds(serving[o])'
    <3>1. PICK y : y = serving'[o] OBVIOUS
    <3>2. ServiceHolds(y) BY <1>5, <2>1, <2>2, <3>1 DEF CacheTypes
    <3>3. ServiceHolds(y)' BY <1>3, <3>2 DEF ServiceHolds
    <3> QED BY <3>1, <3>3 DEF ServiceHolds
  <2>3. ASSUME version' = version
        PROVE  Covered \subseteq Covered' /\ \A t \in Times : samples'[t] # samples[t] => t \in Covered'
    <3>1. serving[r] # None =>
            \A t \in serving[r].wrote : t \in unannounced' \/ (x # None /\ t \in x.wrote)
      BY <1>1, <1>5, <2>3
    <3>2. Covered \subseteq Covered' /\ (x # None => x.wrote \subseteq Covered')
      BY <1>3, <1>5, <3>1, Served
    <3> QED BY <1>5, <3>2
  <2>4. CacheTypes' BY <1>3, <1>4, <1>5, <2>1, <2>2 DEF CacheTypes
  <2>5. Effect BY <1>3, <1>4, <1>5, <2>3, LateNoted DEF Effect
  <2> QED BY <2>4, <2>5
<1>6. CASE StampLatest(r)
  <2> DEFINE next == IF s.ends THEN "announce" ELSE "create"
             due == Stored # {} /\ samples[Latest] = "open" /\ Latest < s.at
             late == Backfills(r, Latest)
             x == IF due THEN [s EXCEPT !.pc = next, !.wrote = {Latest}, !.backfilled = late]
                  ELSE [s EXCEPT !.pc = next]
  <2>1. /\ s.pc = "stamp" /\ serving' = [serving EXCEPT ![r] = x]
        /\ due => samples' = [samples EXCEPT ![Latest] = "stamped"]
        /\ ~due => samples' = samples
        /\ UNCHANGED <<version, unannounced>> /\ ChangesLate
    BY <1>1, <1>6 DEF StampLatest, CacheTypes
  <2>2. due => Latest \in Times BY LatestStored
  <2>3. late \in BOOLEAN /\ (~late => ~s.backfilled /\ ~s.ends /\ ~(now > Latest + Lag))
    BY <1>1 DEF Backfills
  <2>4. s.wrote = {} BY <1>2, <2>1 DEF ServiceHolds
  <2>5. next \in {"announce", "create"} /\ (next = "create" => ~s.ends) OBVIOUS
  <2> HIDE DEF next, late
  <2>6. x \in Service /\ ServiceHolds(x) /\ (due => Latest \in x.wrote)
    <3>1. CASE due
      <4> DEFINE y == [s EXCEPT !.pc = next, !.wrote = {Latest}, !.backfilled = late]
      <4>1. y \in Service /\ y.pc = next /\ y.wrote = {Latest} /\ y.backfilled = late
            /\ y.ends = s.ends /\ y.at = s.at
        BY <1>2, <2>2, <2>3, <2>5, <3>1 DEF Service
      <4>2. ~(now > Latest + Lag) => now <= Latest + Lag
        BY <1>3, <2>2, <3>1, CacheAssumption DEF Times
      <4> HIDE DEF y
      <4>3. ServiceHolds(y) BY <1>2, <2>3, <2>5, <4>1, <4>2 DEF ServiceHolds
      <4>4. x = y BY <3>1 DEF y
      <4> HIDE DEF x, due
      <4> QED BY <4>1, <4>3, <4>4
    <3>2. CASE ~due
      <4> DEFINE y == [s EXCEPT !.pc = next]
      <4>1. y \in Service /\ y.pc = next /\ y.wrote = s.wrote /\ y.backfilled = s.backfilled
            /\ y.ends = s.ends /\ y.at = s.at
        BY <1>2, <2>5 DEF Service
      <4> HIDE DEF y
      <4>2. ServiceHolds(y) BY <1>2, <2>5, <4>1 DEF ServiceHolds
      <4>3. x = y BY <3>2 DEF y
      <4> HIDE DEF x, due
      <4> QED BY <3>2, <4>1, <4>2, <4>3
    <3> QED BY <3>1, <3>2
  <2>7. x # None BY <2>6, ServiceAssumption
  <2> HIDE DEF x, due
  <2>8. /\ samples' \in [Times -> {"none", "open", "stamped"}]
        /\ \A t \in Times : samples'[t] # samples[t] => t \in x.wrote
    BY <2>1, <2>2, <2>6 DEF CacheTypes
  <2>9. Lates BY <2>1 DEF Lates
  <2>10. version' \in Nat /\ version <= version' /\ unannounced \subseteq unannounced'
    BY <1>3, <2>1
  <2>11. x \in Service \cup {None} /\ (x # None => ServiceHolds(x)) BY <2>6
  <2>12. version' = version =>
           \A t \in s.wrote : t \in unannounced' \/ (x # None /\ t \in x.wrote)
    BY <2>4
  <2>13. \A t \in Times : samples'[t] # samples[t] => x # None /\ t \in x.wrote
    BY <2>7, <2>8
  <2>14. serving' = [serving EXCEPT ![r] = x] BY <2>1
  <2>15. CacheTypes' /\ Effect
    BY <1>5, <2>8, <2>9, <2>10, <2>11, <2>12, <2>13, <2>14
  <2> QED BY <1>3, <2>15 DEF UnreadVars
<1>7. CASE Create(r)
  <2> DEFINE x == [s EXCEPT !.pc = "announce", !.wrote = @ \cup {s.at}]
  <2>1. /\ s.pc = "create" /\ serving' = [serving EXCEPT ![r] = x]
        /\ samples' = [samples EXCEPT ![s.at] = IF @ = "none" THEN "open" ELSE @]
        /\ UNCHANGED <<version, unannounced>> /\ ChangesLate
    BY <1>1, <1>7 DEF Create, CacheTypes
  <2>2. x \in Service /\ x.pc = "announce" /\ x.wrote = s.wrote \cup {s.at}
        /\ x.backfilled = s.backfilled /\ x.ends = s.ends /\ x.at = s.at
    BY <1>2 DEF Service
  <2>3. x # None BY <2>2, ServiceAssumption
  <2> HIDE DEF x
  <2>4. ServiceHolds(x) BY <1>2, <2>1, <2>2 DEF ServiceHolds
  <2>5. /\ samples' \in [Times -> {"none", "open", "stamped"}]
        /\ \A t \in Times : samples'[t] # samples[t] => t \in x.wrote
    BY <2>1, <2>2 DEF CacheTypes
  <2>6. Lates BY <2>1 DEF Lates
  <2>7. version' \in Nat /\ version <= version' /\ unannounced \subseteq unannounced'
    BY <1>3, <2>1
  <2>8. x \in Service \cup {None} /\ (x # None => ServiceHolds(x)) BY <2>2, <2>4
  <2>9. version' = version =>
          \A t \in s.wrote : t \in unannounced' \/ (x # None /\ t \in x.wrote)
    BY <2>2, <2>3
  <2>10. \A t \in Times : samples'[t] # samples[t] => x # None /\ t \in x.wrote
    BY <2>3, <2>5
  <2>11. serving' = [serving EXCEPT ![r] = x] BY <2>1
  <2>12. CacheTypes' /\ Effect
    BY <1>5, <2>5, <2>6, <2>7, <2>8, <2>9, <2>10, <2>11
  <2> QED BY <1>3, <2>12 DEF UnreadVars
<1>8. CASE Announce(r)
  <2>1. /\ version' = (IF s.backfilled THEN version + 1 ELSE version)
        /\ unannounced' = unannounced \cup {t \in s.wrote : ~s.backfilled /\ now <= t + Lag}
        /\ serving' = [serving EXCEPT ![r] = None] /\ UNCHANGED <<samples, changedLate>>
    BY <1>1, <1>8 DEF Announce
  <2>2. version' = version => \A t \in s.wrote : t \in unannounced'
    BY <1>2, <1>3, <2>1 DEF ServiceHolds
  <2>3. samples' \in [Times -> {"none", "open", "stamped"}] /\ version' \in Nat /\ version <= version'
    BY <1>3, <2>1 DEF CacheTypes
  <2>4. Lates BY <1>3, <2>1 DEF Lates
  <2>5. CacheTypes' /\ Effect BY <1>3, <1>5, <2>1, <2>2, <2>3, <2>4
  <2> QED BY <1>3, <2>5 DEF UnreadVars
<1>9. CASE Fails(r)
  <2>1. /\ unannounced' = unannounced \cup s.wrote
        /\ serving' = [serving EXCEPT ![r] = None] /\ UNCHANGED <<samples, version, changedLate>>
    BY <1>1, <1>9 DEF Fails
  <2>2. samples' \in [Times -> {"none", "open", "stamped"}]
    BY <2>1 DEF CacheTypes
  <2>3. Lates BY <1>3, <2>1 DEF Lates
  <2>4. version' \in Nat /\ version <= version' /\ unannounced \subseteq unannounced'
    BY <1>3, <2>1
  <2>5. \A t \in s.wrote : t \in unannounced' BY <2>1
  <2>6. \A t \in Times : samples'[t] = samples[t] BY <2>1
  <2>7. serving' = [serving EXCEPT ![r] = None] BY <2>1
  <2>8. CacheTypes' /\ Effect BY <1>5, <2>2, <2>3, <2>4, <2>5, <2>6, <2>7
  <2> QED BY <1>3, <2>8 DEF UnreadVars
<1> QED BY <1>6, <1>7, <1>8, <1>9

(* A view changes only the caches, and time passes only between requests.    *)
LEMMA QuietEffect ==
  ASSUME CacheTypes, UNCHANGED <<sessions, samples, serving, version, unannounced, changedLate>>,
         DOMAIN reading' = Readers, DOMAIN recent' = Viewed, DOMAIN settled' = Viewed,
         \/ now' = now
         \/ now' = now + 1 /\ \A r \in Requests : serving[r] = None
  PROVE  CacheTypes' /\ Effect
<1>1. CacheTypes' BY DEF CacheTypes, ServiceHolds, LedgerTypeOK
<1>2. SessionsGrow BY DEF SessionsGrow, Rows, ClosedIds, OpenIds
<1>3. Covered' = Covered BY DEF Covered, Announcing
<1>4. \A d : Stamp(d)' = Stamp(d) /\ ActiveIn(d)' = ActiveIn(d)
  BY DEF Stamp, ActiveIn, RowsOf, Rows, Within
<1>5. now <= now' /\ version <= version' BY DEF CacheTypes
<1> QED BY <1>1, <1>2, <1>3, <1>4, <1>5 DEF Effect

-----------------------------------------------------------------------------
(* The cached hours: the inductive invariant *)

ViewFields == {"pc", "of", "version", "stamp", "settled", "active"}

(* What a view being built has read: it may be kept when it is complete.     *)
ReadingHolds(v) ==
  /\ DOMAIN v = ViewFields /\ v.pc \in {"rows", "samples", "store"} /\ v.settled \in BOOLEAN
  /\ v.of \in Viewed /\ v.version \in Nat /\ v.version <= version
  /\ v.pc # "rows" /\ v.settled => SinceFinal(v.of)
  /\ v.pc # "rows" /\ ~v.settled /\ v.stamp # None => Grown(v.stamp, v.of)
  /\ v.pc = "store" /\ v.settled => KeptForGood(v.of, v.active)
  /\ v.pc = "store" /\ ~v.settled /\ v.stamp # None =>
       KeptFor(v.of, v.stamp, v.version, v.active)

EntryHolds(d, e) == KeptFor(d, e.stamp, e.version, e.active)

CacheInv ==
  /\ CacheTypes
  /\ \A q \in Readers : reading[q] # None => ReadingHolds(reading[q])
  /\ \A d \in Viewed : recent[d] # None => EntryHolds(d, recent[d])
  /\ \A d \in Viewed : settled[d] # None => KeptForGood(d, settled[d])

(* What is read or kept stays true, whoever wrote meanwhile.                  *)
LEMMA HeldStands ==
  ASSUME CacheTypes, CacheTypes', Effect
  PROVE  /\ \A v : ReadingHolds(v) => ReadingHolds(v)'
         /\ \A d \in Viewed : \A e : EntryHolds(d, e) => EntryHolds(d, e)'
         /\ \A d \in Viewed : \A active : KeptForGood(d, active) => KeptForGood(d, active)'
<1>1. /\ LedgerTypeOK /\ LedgerTypeOK' /\ version \in Nat /\ version' \in Nat
      /\ now \in Nat /\ now' \in Nat /\ version <= version'
  BY DEF CacheTypes, Effect
<1>2. \A d \in Viewed :
        /\ \A rows : Grown(rows, d) => Grown(rows, d)'
        /\ \A rows, ver, active : KeptFor(d, rows, ver, active) => KeptFor(d, rows, ver, active)'
        /\ \A active : KeptForGood(d, active) => KeptForGood(d, active)'
        /\ SinceFinal(d) => SinceFinal(d)'
  BY <1>1, KeptStands
<1>3. ASSUME NEW v, ReadingHolds(v) PROVE ReadingHolds(v)'
  <2>1. v.of \in Viewed /\ v.version \in Nat /\ v.version <= version'
    BY <1>1, <1>3 DEF ReadingHolds
  <2> QED BY <1>2, <1>3, <2>1 DEF ReadingHolds
<1>4. ASSUME NEW d \in Viewed, NEW e, EntryHolds(d, e) PROVE EntryHolds(d, e)'
  BY <1>2, <1>4 DEF EntryHolds
<1> QED BY <1>2, <1>3, <1>4

LEMMA CachesCarry ==
  ASSUME CacheTypes, CacheTypes', Effect,
         \A q \in Readers : reading'[q] # None => ReadingHolds(reading'[q]),
         \A d \in Viewed : recent'[d] # None => EntryHolds(d, recent'[d]),
         \A d \in Viewed : settled'[d] # None => KeptForGood(d, settled'[d])
  PROVE  CacheInv'
<1>1. ASSUME NEW q \in Readers, reading'[q] # None PROVE ReadingHolds(reading[q])'
  <2>1. PICK v : v = reading'[q] OBVIOUS
  <2>2. ReadingHolds(v)' BY <1>1, <2>1, HeldStands
  <2> QED BY <2>1, <2>2 DEF ReadingHolds
<1>2. ASSUME NEW d \in Viewed, recent'[d] # None PROVE EntryHolds(d, recent[d])'
  <2>1. PICK e : e = recent'[d] OBVIOUS
  <2>2. EntryHolds(d, e)' BY <1>2, <2>1, HeldStands
  <2> QED BY <2>1, <2>2 DEF EntryHolds
<1>3. ASSUME NEW d \in Viewed, settled'[d] # None PROVE KeptForGood(d, settled[d])'
  <2>1. PICK active : active = settled'[d] OBVIOUS
  <2>2. KeptForGood(d, active)' BY <1>3, <2>1, HeldStands
  <2> QED BY <2>1, <2>2 DEF KeptForGood
<1> QED BY <1>1, <1>2, <1>3 DEF CacheInv

(* A view begins, reads, is answered from a cache, or is kept.               *)
LEMMA ReadStep ==
  ASSUME CacheInv, NEW q \in Readers,
         \/ \E d \in Viewed : BeginView(q, d)
         \/ ReadRows(q) \/ ReadSamples(q) \/ Keep(q)
  PROVE  CacheInv'
<1>1. /\ CacheTypes /\ DOMAIN reading = Readers /\ DOMAIN recent = Viewed
      /\ DOMAIN settled = Viewed /\ version \in Nat /\ now \in Nat /\ LedgerTypeOK
  BY DEF CacheInv, CacheTypes
<1>2. \A v : /\ \A o \in Readers : o # q => [reading EXCEPT ![q] = v][o] = reading[o]
             /\ [reading EXCEPT ![q] = v][q] = v
             /\ DOMAIN [reading EXCEPT ![q] = v] = Readers
  BY <1>1
<1>3. ASSUME NEW v, reading' = [reading EXCEPT ![q] = v], v # None => ReadingHolds(v),
             now' = now,
             UNCHANGED <<sessions, samples, serving, version, unannounced, changedLate>>,
             DOMAIN recent' = Viewed, DOMAIN settled' = Viewed,
             \A d \in Viewed : recent'[d] # None => EntryHolds(d, recent'[d]),
             \A d \in Viewed : settled'[d] # None => KeptForGood(d, settled'[d])
      PROVE  CacheInv'
  <2>1. CacheTypes' /\ Effect BY <1>1, <1>2, <1>3, QuietEffect
  <2>2. ASSUME NEW o \in Readers, reading'[o] # None PROVE ReadingHolds(reading'[o])
    <3>1. CASE o = q BY <1>2, <1>3, <2>2, <3>1
    <3>2. CASE o # q
      <4>1. reading'[o] = reading[o] BY <1>2, <1>3, <3>2
      <4> QED BY <2>2, <4>1 DEF CacheInv
    <3> QED BY <3>1, <3>2
  <2> QED BY <1>1, <1>3, <2>1, <2>2, CachesCarry
<1>4. UNCHANGED <<recent, settled>> =>
        /\ DOMAIN recent' = Viewed /\ DOMAIN settled' = Viewed
        /\ \A d \in Viewed : recent'[d] # None => EntryHolds(d, recent'[d])
        /\ \A d \in Viewed : settled'[d] # None => KeptForGood(d, settled'[d])
  BY <1>1 DEF CacheInv
<1>5. ASSUME NEW d \in Viewed, BeginView(q, d) PROVE CacheInv'
  <2>1. PICK v : v = [pc |-> "rows", of |-> d, version |-> version, stamp |-> None,
                      settled |-> FALSE, active |-> {}]
    OBVIOUS
  <2>2. ReadingHolds(v) BY <1>1, <2>1 DEF ReadingHolds, ViewFields
  <2>3. reading' = [reading EXCEPT ![q] = v] /\ now' = now /\ UNCHANGED <<recent, settled>>
        /\ UNCHANGED <<sessions, samples, serving, version, unannounced, changedLate>>
    BY <1>5, <2>1 DEF BeginView
  <2> QED BY <1>3, <1>4, <2>2, <2>3
<1>6. CASE ReadRows(q)
  <2>1. PICK v : v = reading[q] OBVIOUS
  <2>2. ReadingHolds(v) /\ v.pc = "rows" BY <1>6, <2>1 DEF ReadRows, CacheInv
  <2>3. PICK w : w = [v EXCEPT !.pc = "samples",
                               !.stamp = IF Closed(v.of) THEN Stamp(v.of) ELSE None,
                               !.settled = SettledBy(v.of, now)]
    OBVIOUS
  <2>4. /\ reading' = [reading EXCEPT ![q] = None] \/ reading' = [reading EXCEPT ![q] = w]
        /\ now' = now /\ UNCHANGED <<recent, settled>>
        /\ UNCHANGED <<sessions, samples, serving, version, unannounced, changedLate>>
    BY <1>6, <2>1, <2>3 DEF ReadRows
  <2>5. /\ DOMAIN w = ViewFields /\ w.pc = "samples" /\ w.of = v.of /\ w.version = v.version
        /\ w.stamp = (IF Closed(v.of) THEN Stamp(v.of) ELSE None)
        /\ w.settled = Final(v.of, now)
    BY <2>2, <2>3 DEF ReadingHolds, ViewFields, SettledBy
  <2>6. Closed(v.of) => Grown(Stamp(v.of), v.of)
    <3>1. ASSUME Closed(v.of), NEW i \in RowsOf(v.of)
          PROVE  i \in ClosedIds /\ sessions[i].end \in Nat
      BY <1>1, <3>1 DEF Closed, ClosedIds, OpenIds, Rows, LedgerTypeOK, Session, Times
    <3> QED BY <3>1 DEF Grown, Stamp
  <2>7. Final(v.of, now) \in BOOLEAN BY DEF Final
  <2>8. ReadingHolds(w) BY <2>2, <2>5, <2>6, <2>7 DEF ReadingHolds, SinceFinal
  <2>9. CASE reading' = [reading EXCEPT ![q] = None] BY <1>3, <1>4, <2>4, <2>9
  <2>10. CASE reading' = [reading EXCEPT ![q] = w] BY <1>3, <1>4, <2>4, <2>8, <2>10
  <2> QED BY <2>4, <2>9, <2>10
<1>7. CASE ReadSamples(q)
  <2>1. PICK v : v = reading[q] OBVIOUS
  <2>2. ReadingHolds(v) /\ v.pc = "samples" BY <1>7, <2>1 DEF ReadSamples, CacheInv
  <2>3. PICK w : w = [v EXCEPT !.pc = "store", !.active = ActiveIn(v.of)] OBVIOUS
  <2>4. /\ reading' = [reading EXCEPT ![q] = w] /\ now' = now /\ UNCHANGED <<recent, settled>>
        /\ UNCHANGED <<sessions, samples, serving, version, unannounced, changedLate>>
    BY <1>1, <1>7, <2>1, <2>3 DEF ReadSamples
  <2>5. /\ DOMAIN w = ViewFields /\ w.pc = "store" /\ w.of = v.of /\ w.version = v.version
        /\ w.stamp = v.stamp /\ w.settled = v.settled /\ w.active = ActiveIn(v.of)
    BY <2>2, <2>3 DEF ReadingHolds, ViewFields
  <2>6. w.settled => KeptForGood(w.of, w.active)
    BY <2>2, <2>5 DEF ReadingHolds, SinceFinal, KeptForGood
  <2>7. ~w.settled /\ w.stamp # None => KeptFor(w.of, w.stamp, w.version, w.active)
    BY <2>2, <2>5 DEF ReadingHolds, KeptFor, SymDiff
  <2>8. ReadingHolds(w) BY <2>2, <2>5, <2>6, <2>7 DEF ReadingHolds
  <2> QED BY <1>3, <1>4, <2>4, <2>8
<1>8. CASE Keep(q)
  <2>1. PICK v : v = reading[q] OBVIOUS
  <2>2. ReadingHolds(v) /\ v.pc = "store" BY <1>8, <2>1 DEF Keep, CacheInv
  <2>3. PICK e : e = [active |-> v.active, stamp |-> v.stamp, version |-> v.version,
                      storedAt |-> now]
    OBVIOUS
  <2>4. /\ reading' = [reading EXCEPT ![q] = None] /\ now' = now
        /\ UNCHANGED <<sessions, samples, serving, version, unannounced, changedLate>>
        /\ settled' = IF v.settled THEN [settled EXCEPT ![v.of] = v.active] ELSE settled
        /\ recent' = IF v.settled THEN [recent EXCEPT ![v.of] = None]
                     ELSE IF v.stamp # None THEN [recent EXCEPT ![v.of] = e]
                     ELSE recent
    BY <1>8, <2>1, <2>3 DEF Keep, KeptVersion
  <2>5. DOMAIN recent' = Viewed /\ DOMAIN settled' = Viewed BY <1>1, <2>4
  <2>6. ASSUME NEW d \in Viewed, recent'[d] # None PROVE EntryHolds(d, recent'[d])
    <3>1. CASE recent'[d] = recent[d] BY <2>6, <3>1 DEF CacheInv
    <3>2. CASE recent'[d] # recent[d]
      <4>1. ~v.settled /\ v.stamp # None /\ d = v.of /\ recent'[d] = e
        BY <1>1, <2>4, <2>6, <3>2
      <4>2. KeptFor(v.of, v.stamp, v.version, v.active) BY <2>2, <4>1 DEF ReadingHolds
      <4>3. EntryHolds(d, e) BY <2>3, <4>1, <4>2 DEF EntryHolds
      <4> QED BY <4>1, <4>3
    <3> QED BY <3>1, <3>2
  <2>7. ASSUME NEW d \in Viewed, settled'[d] # None PROVE KeptForGood(d, settled'[d])
    <3>1. CASE settled'[d] = settled[d] BY <2>7, <3>1 DEF CacheInv
    <3>2. CASE settled'[d] # settled[d]
      <4>1. v.settled /\ d = v.of /\ settled'[d] = v.active BY <1>1, <2>4, <3>2
      <4>2. KeptForGood(v.of, v.active) BY <2>2, <4>1 DEF ReadingHolds
      <4> QED BY <4>1, <4>2
    <3> QED BY <3>1, <3>2
  <2> QED BY <1>3, <2>4, <2>5, <2>6, <2>7
<1> QED BY <1>5, <1>6, <1>7, <1>8

(* A step that leaves the caches and the views alone.                        *)
LEMMA UnreadStep ==
  ASSUME CacheInv, CacheTypes', Effect, UNCHANGED UnreadVars
  PROVE  CacheInv'
<1>1. UNCHANGED <<settled, recent, reading>> BY DEF UnreadVars
<1> QED BY <1>1, CachesCarry DEF CacheInv

LEMMA CacheStarts == CacheInit => CacheInv
<1> SUFFICES ASSUME CacheInit PROVE CacheInv OBVIOUS
<1>1. LedgerTypeOK BY DEF CacheInit, LedgerInit, LedgerTypeOK
<1>2. CacheTypes BY <1>1 DEF CacheInit, CacheTypes
<1> QED BY <1>2 DEF CacheInit, CacheInv

LEMMA CacheStep == CacheInv /\ [CacheNext]_cacheVars => CacheInv'
<1> SUFFICES ASSUME CacheInv, [CacheNext]_cacheVars PROVE CacheInv' OBVIOUS
<1>0. CacheTypes BY DEF CacheInv
<1>1. ASSUME NEW i \in SessionIds,
             Starts(i) \/ \E t \in Times : AutoCloses(i, t) \/ \E r \in Requests : Ends(r, i, t)
      PROVE  CacheInv'
  BY <1>0, <1>1, TableEffect, UnreadStep
<1>2. ASSUME NEW r \in Requests, NEW t \in Times, Report(r, t) PROVE CacheInv'
  BY <1>0, <1>2, TableEffect, UnreadStep
<1>3. ASSUME NEW r \in Requests, StampLatest(r) \/ Create(r) \/ Announce(r) \/ Fails(r)
      PROVE  CacheInv'
  BY <1>0, <1>3, RequestEffect, UnreadStep
<1>4. ASSUME NEW q \in Readers,
             \/ \E d \in Viewed : BeginView(q, d)
             \/ ReadRows(q) \/ ReadSamples(q) \/ Keep(q)
      PROVE  CacheInv'
  BY <1>4, ReadStep
<1>5. CASE Pass
  <2>1. CacheTypes' /\ Effect BY <1>0, <1>5, QuietEffect DEF Pass, CacheTypes
  <2> QED BY <1>5, <2>1, UnreadStep DEF Pass, UnreadVars
<1>6. CASE UNCHANGED cacheVars
  <2>1. CacheTypes' /\ Effect BY <1>0, <1>6, QuietEffect DEF cacheVars, CacheTypes
  <2> QED BY <1>6, <2>1, UnreadStep DEF cacheVars, UnreadVars
<1>7. CASE CacheNext BY <1>1, <1>2, <1>3, <1>4, <1>5, <1>7 DEF CacheNext
<1> QED BY <1>6, <1>7

(* What the caches serve of a closed day are its samples, but for those being *)
(* announced or written live or by a failed request, and the hours kept for   *)
(* good are those of the day until it changes late: whatever is written while *)
(* a view is being built (bucketHours, remember, rememberRecent).             *)
THEOREM HoursHold == CacheSpec => []HoursStand
<1>1. CacheInv => HoursStand
  <2> SUFFICES ASSUME CacheInv PROVE HoursStand OBVIOUS
  <2>1. ASSUME NEW d \in Viewed, Fresh(recent[d], Stamp(d), version, now)
        PROVE  SymDiff(recent[d].active, ActiveIn(d)) \subseteq Announcing \cup unannounced
    BY <2>1 DEF CacheInv, Fresh, EntryHolds, KeptFor, Covered
  <2>2. ASSUME NEW d \in Viewed \ changedLate, settled[d] # None
        PROVE  settled[d] = ActiveIn(d)
    BY <2>2 DEF CacheInv, KeptForGood
  <2> QED BY <2>1, <2>2 DEF HoursStand, ServesTheSamples, SettledHoursStand
<1> QED BY <1>1, CacheStarts, CacheStep, PTL DEF CacheSpec
=============================================================================
