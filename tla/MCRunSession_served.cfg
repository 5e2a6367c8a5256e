CONSTANTS
  r1 = r1
  r2 = r2
  c1 = c1
  None = None
  Loop = Loop
  Jobs <- OneRun
  Runs <- OneRun
  Callers <- LoopAndPool
  MaxYields = 0
  MaxPauses = 1
  MayCrash = FALSE
  Attachments = {TRUE, FALSE}
SPECIFICATION FairSessionSpec
INVARIANTS
  RecordFollowsTheRun
  EndIsOrderly
PROPERTIES
  RecordsStayEnded
  EndsAreRecorded
CHECK_DEADLOCK FALSE
