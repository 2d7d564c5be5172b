CONSTANTS
  d1 = d1  c1 = c1  c2 = c2  s1 = s1  s2 = s2
  None = None
  SessionIds = {s1, s2}
  Days = {d1}
  MaxTime = 2
  ShiftEnd <- MCShiftEnd
  CloseAfter = 1
  NoShiftLength = 1
  Copies = {c1, c2}
  Length = 2
  EventAt <- MCEventAt
  EndsDay = {1}
  StaleAfter = 1
  MaxAge = 2
  Tolerance = 0
  DayLength = 2
  MaxFailures = 1
  acme = acme
  beta = beta
  goneOrg = goneOrg
  sales = sales
  lab = lab
  betaDept = betaDept
  Orgs = {acme, beta, goneOrg}
  LiveOrgs = {acme, beta}
  NoOrg = NoOrg
  NoDept = NoDept
  Headers = {NoOrg, acme, goneOrg}
  Staffed <- Employees
  Subjects <- MCSubjects
  Nothing = Nothing
  MaxUses = 2
SPECIFICATION RequestsSpec
SYMMETRY Symmetry
INVARIANTS PlaceholderHolds AnswerIsTrue JournalOrder StrangersAreUnknown RightsHold
