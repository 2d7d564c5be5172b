---------------------------- MODULE MCApprovals ----------------------------
(***************************************************************************)
(* Approvals for one organisation with a member p, who is routed to the    *)
(* manager m, and n, who belongs to no organisation yet; the Admin adm     *)
(* decides for everybody.  The kinds of items are split over the runs.     *)
(***************************************************************************)
EXTENDS Approvals, TLC

CONSTANTS p, n, m, adm

MCDecides == (m :> {p}) @@ (adm :> People)
Breaks == {"BREAK", "SKIP"}

Symmetry == Permutations(Items) \cup Permutations(Slots)
=============================================================================
