---------------------------- MODULE MCOrgConfig ----------------------------
(* An organisation's configuration: in each behaviour the requests go to one of *)
(* its two parts, which share no state.  An organisation with one shift of its  *)
(* own, or none yet, beside a shared one; two people, one still to be hired.    *)
(* One date in each of two months, a department, a custom reason.               *)
EXTENDS ShiftPlan, OrgSettings, TLC

CONSTANTS sharedShift, firstShift, person, newcomer

VARIABLE part  \* the part that is used

FirstRow(scope) == [scope |-> scope, name |-> "a", default |-> TRUE, live |-> TRUE]

StartTables ==
    {[s \in ShiftIds |->
        IF s = sharedShift THEN FirstRow("shared")
        ELSE IF s = firstShift /\ hasOne THEN FirstRow("org")
        ELSE None] : hasOne \in BOOLEAN}

OldRow ==
    [full |-> 60, half |-> 40, history |-> [f \in {0} |-> TRUE],
     reasons |-> Reasons, depts |-> [d \in Depts |-> Absent]]

TheOffers == {Absent, Reasons}

Init ==
    /\ ShiftInit /\ SetInit /\ part \in {"shifts", "settings"}
    /\ part = "settings" => shift[firstShift] # None

Next ==
    \/ part = "shifts" /\ ShiftNext /\ UNCHANGED <<setVars, part>>
    \/ part = "settings" /\ SetNext /\ UNCHANGED <<shiftVars, part>>

Spec == Init /\ [][Next]_<<shiftVars, setVars, part>>

Slots == Permutations(ShiftRequests)
=============================================================================
