CONSTANTS
  r1 = r1
  r2 = r2
  c1 = c1
  c2 = c2
  Unset = Unset
  RunJobs <- OneRun
  Clients <- TwoClients
SPECIFICATION FairSpec
INVARIANTS
  ParkClearsTheWay
  CallersAreAnswered
PROPERTIES
  ParkReachesTheBench
CHECK_DEADLOCK FALSE
