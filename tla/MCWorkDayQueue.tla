--------------------------- MODULE MCWorkDayQueue ---------------------------
(***************************************************************************)
(* What must happen: in each behaviour one of two parts that share no      *)
(* state is at work.  The working day, with the status requests of any     *)
(* client; or the approval queue of a member of one department, who may    *)
(* become a manager, and of its manager, who may be blocked.               *)
(***************************************************************************)
EXTENDS MCWorkDay, ApprovalQueue

CONSTANTS theOwner, theManager, theDept

VARIABLE part      \* the part that is at work

Post(role, dept, managed, active) ==
  [role |-> role, dept |-> dept, managed |-> managed, active |-> active]
MCPlacements ==
  (theOwner :> {Post("USER", theDept, {}, TRUE), Post("MANAGER", theDept, {theDept}, TRUE)})
  @@ (theManager :> {Post("MANAGER", theDept, {theDept}, active) : active \in BOOLEAN})

LiveInit ==
  /\ Init /\ QueueInit /\ part \in {"day", "queue"}
  /\ part = "day" => posts = [x \in Persons |-> CHOOSE post \in Placements[x] : post.active]
LiveNext ==
  \/ part = "day" /\ Next /\ UNCHANGED <<queueVars, part>>
  \/ part = "queue" /\ QueueNext /\ UNCHANGED <<vars, part>>
LiveSpec ==
  /\ LiveInit /\ [][LiveNext]_<<vars, queueVars, part>>
  /\ \/ part = "day" /\ Fairness
     \/ part = "queue" /\ JobFairness
=============================================================================
