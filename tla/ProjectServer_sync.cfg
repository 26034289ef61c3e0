SPECIFICATION Spec
CONSTANTS
  k1 = k1
  k2 = k2
  n1 = n1
  n2 = n2
  c1 = c1
  c2 = c2
  t1 = t1
  None = None
  Keys = {k1, k2}
  Natives = {k1, n1, n2}
  Contents = {c1, c2}
  Tasks = {t1}
  MaxChanges = 4
  MaxFailures = 2
SYMMETRY Symmetry
INVARIANTS
  ImportedOnce
  ConfirmedAgrees
PROPERTIES
  NativeEvidence
  RemovalIsSafe
