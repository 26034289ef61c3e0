SPECIFICATION StoreSpec
CONSTANTS
  x1 = x1
  x2 = x2
  c1 = c1
  c2 = c2
  p1 = p1
  None = None
  Proxies = {x1, x2}
  Profiles = {p1}
  Configs = {c1, c2}
  MaxChanges = 4
  MaxDamage = 1
  MaxFailures = 1
SYMMETRY Symmetry
INVARIANTS
  NoneIsForgotten
  CheckIsCurrent
  ProbeIsCurrent
PROPERTIES
  DirectIsMeant
