SPECIFICATION FairSpec
CONSTANTS
  c1 = c1
  c2 = c2
  Conns = {c1, c2}
  N = 3
  MaxClients = 2
  MaxParts = 1
  Acts <- AnyActs
CHECK_DEADLOCK FALSE
INVARIANTS
  ActedOnce
  ExchangeIsWhole
  NoEarlyFailure
  PlacesReturn
PROPERTIES
  SilenceIsSkipped
