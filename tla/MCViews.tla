------------------------------ MODULE MCViews -------------------------------
(* What is shown of people's work: in each behaviour one part of it is used.       *)
(*   today   one person who is moved and works, seen by four kinds of callers      *)
(*   months  reports of a month of three days, of a new member and their manager   *)
(*   runs    the runs of that month, with two faults                                   *)
(*   hours   the cached hours of a day and the next one                            *)
EXTENDS TeamViews, MonthReports, DayCache, TLC

CONSTANTS dA, dB, staff, lead, d1, d2

VARIABLE part  \* the part that is used

-----------------------------------------------------------------------------
(* today *)

User(d) == [role |-> "USER", dept |-> d, active |-> TRUE]

ThePlacements ==
  {User(dA), User(dB), User(Elsewhere), [role |-> "MANAGER", dept |-> dA, active |-> TRUE]}

ManagerOf(d, grants) == [role |-> "MANAGER", depts |-> {d}, grants |-> grants]

TheCallers ==
  {ManagerOf(dA, {"activity"}), ManagerOf(dB, {"activity"}), ManagerOf(dA, {}),
   [role |-> "ADMIN", depts |-> {}, grants |-> {"activity", "timeline"}]}

-----------------------------------------------------------------------------
(* months and runs *)

Post(role, member, active) == [role |-> role, member |-> member, active |-> active]

ThePosts ==
  {Post("USER", TRUE, TRUE), Post("USER", FALSE, TRUE), Post("USER", TRUE, FALSE),
   Post("MANAGER", TRUE, TRUE), Post("ADMIN", TRUE, TRUE)}

TheFirstPost == (staff :> Post("USER", FALSE, TRUE)) @@ (lead :> Post("MANAGER", TRUE, TRUE))

TheCalendar == [d \in Dates |-> d < 3]
TheJoining == (staff :> 2) @@ (lead :> 1)
WorkedMonths ==
  {(staff :> <<0, 1, 0>>) @@ (lead :> <<2, 1, 1>>),
   (staff :> <<0, 0, 0>>) @@ (lead :> <<1, 0, 0>>)}
NobodyWorked == [p \in Persons |-> <<0, 0, 0>>]
TheFocus == WorkedMonths \cup {NobodyWorked}

-----------------------------------------------------------------------------
(* hours *)

TheDayOf == [t \in Times |-> IF t < 3 THEN d1 ELSE d2]
TheShiftEnd == (d1 :> 1) @@ (d2 :> 3)

-----------------------------------------------------------------------------

MCInit ==
  /\ ViewsInit /\ (\A p \in Staff : place[p] = User(dA))
  /\ ReportsInit
  /\ CacheInit
  /\ part \in {"today", "months", "runs", "hours"}
  /\ part # "runs" => up /\ focus # NobodyWorked
  /\ part # "months" => focus \in {CHOOSE f \in WorkedMonths : TRUE, NobodyWorked}
  /\ part \notin {"months", "runs"} => fullPct = CHOOSE pct \in Pcts : TRUE

MCNext ==
  /\ UNCHANGED part
  /\ \/ part = "today" /\ ViewsNext /\ UNCHANGED <<reportVars, cacheVars>>
     \/ part = "months" /\ (Happens \/ MonthNext) /\ UNCHANGED <<viewVars, cacheVars>>
     \/ part = "runs" /\ (Happens \/ RunsNext) /\ UNCHANGED <<viewVars, cacheVars>>
     \/ part = "hours" /\ CacheNext /\ UNCHANGED <<viewVars, reportVars>>

MCSpec == MCInit /\ [][MCNext]_<<viewVars, reportVars, cacheVars, part>>

Symmetry == Permutations(Builds)
=============================================================================
