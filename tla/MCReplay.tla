------------------------------ MODULE MCReplay ------------------------------
EXTENDS Replay, TLC
CONSTANTS d1, c1, c2, s1, s2

(* The shift ends at 0, so with one unit of grace a session is stale at 2.   *)
MCShiftEnd == (d1 :> 0)

(* The second action carries the earlier time: the clock was put back.       *)
MCEventAt == <<1, 0>>

Symmetry == Permutations(Copies) \cup Permutations(SessionIds)
=============================================================================
