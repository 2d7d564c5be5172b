SPECIFICATION Spec
CONSTANTS
  Requests = {r1, r2}
  Job = Job
  SessionIds = {s1, s2}
  Morning = Morning
  Lunch = Lunch
  Scheduled = {Morning, Lunch}
  Due <- MCDue
  Opens <- MCOpens
  Closes <- MCCloses
  Midnight = 9
  MaxTime = 2
  MaxWork = 2
  MaxQuick = 1
  MaxRequests = 3
  Moves <- MCMoves
  r1 = r1
  r2 = r2
  None = None
SYMMETRY Symmetry
INVARIANTS BreaksAgree EndedDayIsQuiet
PROPERTIES RecordsStand
