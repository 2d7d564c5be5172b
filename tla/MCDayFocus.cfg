SPECIFICATION DaysSpec
CONSTANTS
    DayLength = 6
    Kinds = 2
    NoBreak = NoBreak
    Open = Open
    Shifts <- JudgedShifts
    WorkedShifts <- TheShifts
    FirstTime = 5
    MaxTime = 7
    MaxRows = 4
    Deltas = {1}
    Buffer = 1
    JoinGap = 1
    MaxGap = 2
    LastMoment = 11
    Cells = 5
    MinMeeting = 1
    HourLength = 2
    QuietAvailable = 2
    FullPct = 80
    HalfPct = 40
INVARIANTS
    SweepsAreSets
    DayAddsUp
    DecisionsMoveAsShown
    TimelineIsTheDay
    ValidShiftKeepsOrder
CHECK_DEADLOCK FALSE
