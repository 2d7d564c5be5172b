SPECIFICATION Spec
CONSTANTS
  p = p
  n = n
  m = m
  adm = adm
  Items = {i1}
  People = {p}
  Members = {p}
  Approvers = {m, adm}
  Admins = {adm}
  Decides <- MCDecides
  Kinds <- Breaks
  Slots = {r1, r2}
  Deleted = Deleted
  None = None
SYMMETRY Symmetry
PROPERTIES OverrunIsReviewed
