------------------------------ MODULE MCBreaks ------------------------------
(***************************************************************************)
(* A day with a morning break due at 1 (window 0..1) and a lunch due at 2   *)
(* (window 1..2).                                                          *)
(***************************************************************************)
EXTENDS Breaks, TLC

CONSTANTS Morning, Lunch, r1, r2

MCDue == [k \in Scheduled |-> IF k = Morning THEN 1 ELSE 2]
MCOpens == [k \in Scheduled |-> IF k = Morning THEN 0 ELSE 1]
MCCloses == [k \in Scheduled |-> IF k = Morning THEN 1 ELSE 2]

MCMoves == (r1 :> {"start", "pause", "resume", "end", "quick", "away"})
        @@ (r2 :> {"start", "end", "status", "back", "endDay", "startDay", "skip", "decide", "comment"})
        @@ (Job :> {"today", "autoClose"})

Symmetry == Permutations(SessionIds)
=============================================================================
