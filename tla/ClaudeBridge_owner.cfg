SPECIFICATION Spec
CONSTANTS
  p1 = p1
  p2 = p2
  f1 = f1
  f2 = f2
  None = None
  Damaged = Damaged
  Foreign = Foreign
  Profiles = {p1, p2}
  Folders = {f1, f2}
  Deadline = 1
  MaxStarts = 3
  MaxWrites = 1
  MaxLosses = 1
SYMMETRY Symmetry
INVARIANTS
  NoRivalWindow
  NeverBlocksItself
  OldRecordIsNoEvidence
PROPERTIES
  OwnedLikeALock
