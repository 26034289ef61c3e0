SPECIFICATION Spec
CONSTANTS
  a1 = a1
  a2 = a2
  None = None
  Addresses = {a1, a2}
  MaxEdits = 2
  MaxTouches = 1
  MaxLaunches = 2
INVARIANTS
  EditsSurvive
  DisturbedIsCancelled
PROPERTIES
  ReplacesWhatItSaw
CHECK_DEADLOCK FALSE
