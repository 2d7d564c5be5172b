SPECIFICATION MCSpec
CONSTANTS
    None = None
    Absent = Absent
    Nothing = Nothing
    Elsewhere = Elsewhere
    dA = dA
    dB = dB
    staff = staff
    lead = lead
    d1 = d1
    d2 = d2
    Staff = {p}
    Placements <- ThePlacements
    Callers <- TheCallers
    Builds = {b1, b2}
    CacheTime = 1
    MaxClock = 1
    MaxChanges = 2
    Persons = {staff, lead}
    Posts <- ThePosts
    FirstPost <- TheFirstPost
    FirstFocus <- TheFocus
    Dates = {1, 2, 3}
    JoinedOn <- TheJoining
    IsWorkDate <- TheCalendar
    Expected = 2
    Pcts = {50, 100}
    LastDay = 2
    MaxFaults = 2
    MaxEdits = 2
    SessionIds = {1, 2}
    Days = {d1, d2}
    MaxTime = 3
    ShiftEnd <- TheShiftEnd
    CloseAfter = 1
    NoShiftLength = 2
    Requests = {r1}
    Readers = {q1}
    Viewed = {d1}
    DayOf <- TheDayOf
    Lag = 1
    Ttl = 1
    Backlog = 1
    Margin = 1
    MaxSamples = 2
    MaxReads = 2
SYMMETRY Symmetry
CHECK_DEADLOCK FALSE
INVARIANTS AnswersAreTrue  RunsCatchUp HoursStand
