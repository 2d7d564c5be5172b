----------------------------- MODULE MCWorkDay -----------------------------
(*************************************************************************)
(* WorkDay over one midnight.  Moments 0..2 are of the working day       *)
(* "mon", a shift that ends at 1; midnight falls between 1 and 2; "tue"  *)
(* has no shift.  The clients' requests are split over the runs: a       *)
(* current agent that reports what it recorded while it was offline,     *)
(* beside an older one back at work; the clients whose actions and       *)
(* samples open the day; the statuses of any client.  All of them have   *)
(* Start Day, End Day and the job.                                       *)
(*************************************************************************)
EXTENDS WorkDay, TLC

CONSTANTS mon, tue

MCDays == {mon, tue}
MCShiftDay == [t \in Times |-> IF t <= 2 THEN mon ELSE tue]
MCCalendarDay == [t \in Times |-> IF t <= 1 THEN mon ELSE tue]
MCShiftEnd == (mon :> 1) @@ (tue :> None)
MCDayOff == (mon :> None) @@ (tue :> 3)

OlderKinds == {<<"start", "AGENT_31">>, <<"end", "LEGACY">>, <<"action", "LEGACY">>,
               <<"sample", "LEGACY">>}
AgentKinds == {<<"start", "AGENT_31">>, <<"end", "AGENT_31">>, <<"sample", "AGENT_40">>,
               <<"presence", "AGENT_31">>, <<"back", "LEGACY">>}
StatusKinds == AgentKinds \cup {<<"action", "AGENT_31">>, <<"back", "AGENT_31">>,
                                <<"presence", "LEGACY">>}

Symmetry == Permutations(SessionIds) \cup Permutations(Slots)
=============================================================================
