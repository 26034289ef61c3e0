SPECIFICATION Spec
CONSTANTS
  base = base
  copy1 = copy1
  a1 = a1
  b1 = b1
  b2 = b2
  None = None
  Unsupported = Unsupported
  Unavailable = Unavailable
  Automations = {a1}
  Bodies = {b1, b2}
  Profiles <- TwoProfiles
  Rank <- Rank2
  MaxAutomations = 1
  MaxChanges = 2
SYMMETRY BodySymmetry
INVARIANTS
  BatchKeepsEdits
PROPERTIES
  StatusFollowsOwner
