SPECIFICATION Spec
CONSTANTS
  base = base
  copy1 = copy1
  appdeck = appdeck
  server = server
  p1 = p1
  x = x
  y = y
  z = z
  Absent = Absent
  NoRecord = NoRecord
  NoProfile = NoProfile
  Unavailable = Unavailable
  Projects = {p1}
  Contents = {x, y, z}
  Profiles <- TwoProfiles
  Writers <- TwoAndService
  Precedence <- IdOrder2
  AppDeck = appdeck
  Server = server
  MaxIds = 2
  MaxLive = 2
  MaxOwners = 3
  MaxRevision = 4
  MaxEdits = 2
SYMMETRY ContentSymmetry
INVARIANTS
  JournalValid
  AcknowledgedMatches
  StaggeredBatchesAgree
  LostChangesAreReported
  PassIsIdempotent
PROPERTIES
  NoStaleResurrection
  JournalAdvances
