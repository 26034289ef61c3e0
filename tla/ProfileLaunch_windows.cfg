SPECIFICATION Spec
CONSTANTS
  p1 = p1
  Copies = {p1}
  Master = master
  Adapters = {"Claude", "Codex"}
  MaxProcesses = 3
  MaxBridges = 1
  MaxEnds = 1
  MaxTimeouts = 0
  MaxSelfRestarts = 1
  WritesFail = TRUE
VIEW View
INVARIANTS
  NoTwin
  OwnWindow
  CardShowsProxy
  BridgesServeWindows
