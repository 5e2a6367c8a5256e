CONSTANTS
  r1 = r1
  a1 = a1
  c1 = c1
  c2 = c2
  None = None
  Jobs <- RunAndAction
  Runs <- OneRun
  Callers <- OneCaller
  MaxYields = 1
  MaxPauses = 1
  MayCrash = TRUE
SPECIFICATION FairSpec
INVARIANTS
  Ownership
  PauseProtocol
  StopsAreTold
PROPERTIES
  TerminalIsFinal
  ImplementsJobQueue
  AskedIsDone
CHECK_DEADLOCK FALSE
