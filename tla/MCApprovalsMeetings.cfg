SPECIFICATION Spec
CONSTANTS
  p = p
  n = n
  m = m
  adm = adm
  Items = {i1}
  People = {p, n}
  Members = {p}
  Approvers = {m, adm}
  Admins = {adm}
  Decides <- MCDecides
  Kinds <- AllKinds
  Slots = {r1, r2}
  Deleted = Deleted
  None = None
SYMMETRY Symmetry
PROPERTIES RegisterSpec
