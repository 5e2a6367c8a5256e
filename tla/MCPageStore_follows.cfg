CONSTANTS
  None = None
  r1 = r1
  r2 = r2
  Runs = {r1, r2}
  Scripts <- Histories
  LateClear = FALSE
  MaxMishaps = 1
  RingSize = 1
  BacklogLimit = 1
  LiveLimit = 0
  WireSize = 1
  MaxSeq = 4
  MaxSessions = 2
  MaxLosses = 1
SPECIFICATION FairPageSpec
INVARIANTS
  ShowsTheBench
  StreamKeeps
PROPERTIES
  PageCatchesUp
CHECK_DEADLOCK FALSE
