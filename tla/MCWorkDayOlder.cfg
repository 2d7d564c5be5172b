SPECIFICATION Spec
CONSTANTS
  mon = mon
  tue = tue
  SessionIds = {s1, s2}
  Slots = {r1, r2}
  Job = Job
  None = None
  MaxTime = 3
  CloseAfter = 1
  NoShiftLength = 2
  Backdate = 1
  Kinds <- OlderKinds
  Days <- MCDays
  ShiftDay <- MCShiftDay
  CalendarDay <- MCCalendarDay
  ShiftEnd <- MCShiftEnd
SYMMETRY Symmetry
INVARIANTS OneOpen
PROPERTIES ClosedDayIsMarked MovesOnlyForward
