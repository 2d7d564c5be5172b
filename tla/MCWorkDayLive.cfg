SPECIFICATION LiveSpec
CONSTANTS
  mon = mon
  tue = tue
  SessionIds = {s1}
  Slots = {r1}
  Job = Job
  None = None
  MaxTime = 4
  CloseAfter = 1
  NoShiftLength = 1
  Backdate = 1
  Kinds <- StatusKinds
  Days <- MCDays
  ShiftDay <- MCShiftDay
  CalendarDay <- MCCalendarDay
  ShiftEnd <- MCDayOff
  theOwner = theOwner
  theManager = theManager
  theDept = theDept
  Entries = {e1}
  Owners = {theOwner}
  Managers = {theManager}
  Chief = Chief
  Depts = {theDept}
  Placements <- MCPlacements
  Sla = 1
  Soon = 0
  Nobody = Nobody
INVARIANTS EscalationIsTrue SomebodySeesIt
PROPERTIES StaleIsClosed OverdueIsEscalated
