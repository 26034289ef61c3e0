SPECIFICATION Spec
CONSTANTS
  p1 = p1
  p2 = p2
  codex = codex
  claude = claude
  None = None
  ManualFloor = 1
  Lost = 3
  Spacing = 5
  Interval = 7
  Profiles = {p1, p2}
  Groups = {codex, claude}
  Rank <- Rank2
  GroupOf <- GroupOf2
  MaxRun <- Longest2
  MaxAge = 8
  MaxRequests = 2
  MaxRestarts = 1
  SetBacks <- SetBackByTwo
INVARIANTS
  NoNumbersWithoutConsent
  AccountsAreSpared
  AutomaticallySpaced
