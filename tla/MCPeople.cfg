SPECIFICATION MCSpec
CONSTANTS
    None = None
    Absent = Absent
    r1 = r1
    r2 = r2
    Requests = {r1, r2}
    Tokens = {1, 2, 3, 4}
    Keys = {k1}
    Grace = 1
    Ttl = 1
    KeyTtl = 1
    Retention = 0
    MaxTime = 1
    MaxRequests = 4
    MaxFaults = 1
    Moves <- MCMoves
    Purged = Purged
    oldOrg = oldOrg
    newOrg = newOrg
    deptA = deptA
    deptB = deptB
    manager = manager
    loose = loose
    fresh = fresh
    chief = chief
    Orgs = {oldOrg, newOrg}
    Depts = {deptA, deptB}
    People = {manager, loose, fresh, chief}
    OrgRequests = {q1, q2}
    MaxOrgRequests = 3
    InitialOrgs <- TheOrgs
    InitialDepts <- TheDepts
    InitialPeople <- ThePeople
SYMMETRY Slots
CHECK_DEADLOCK FALSE
INVARIANTS RacesHaveOneWinner PlacesHold DeletionIsNoticed LiveRoomsFollowAccess
PROPERTIES RevocationIsFinal
