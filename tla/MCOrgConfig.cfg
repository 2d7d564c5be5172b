SPECIFICATION Spec
CONSTANTS
    None = None
    Absent = Absent
    sharedShift = sharedShift
    firstShift = firstShift
    person = person
    newcomer = newcomer
    ShiftIds = {sharedShift, firstShift, otherShift}
    Names = {"a", "b"}
    People = {person, newcomer}
    Newcomers = {newcomer}
    Dept = dept
    Assignable = {firstShift}
    MaxDay = 2
    ShiftRequests = {r1, r2}
    SetRequests = {r1, r2}
    MaxShiftRequests = 3
    InitialShifts <- StartTables
    Percents = {50}
    Reasons = {"C_LAB"}
    Depts = {lab}
    Dates = {2, 3}
    RawTtl = 1
    CalTtl = 1
    DayMarks = {FALSE}
    Offered <- TheOffers
    MaxSetRequests = 2
    MaxReads = 2
    SharedRow <- OldRow
SYMMETRY Slots
CHECK_DEADLOCK FALSE
INVARIANTS PlanIsKept ShiftsStand ContextIsFresh SettingsStand LockedMonthStands CalendarCatchesUp
