CONSTANTS
  None = None
  Torn = Torn
  Steps = 2
  Loops = 2
  Whole = 2
  Points = 2
  MaxRefusals = 1
  MaxLost = 1
  Trees <- SomeTrees
SPECIFICATION RecordsSpec
INVARIANTS
  ShotsReachTheFile
  CurvesAreWhole
  OneStory
CHECK_DEADLOCK FALSE
