CONSTANTS
  None = None
  Kelvins = {1, 3}
  Setpoints = {1, 3}
  Tolerance = 0
  HoldPolls = 1
  TimeoutPolls = 2
  SilentReads = 2
  Fine = 10
  Threshold = 10
  Ceiling = 1
  RecordEnd = 20
  Baseline = 2
  Mode = "real"
  ShotDefault = 8
  PointOverhead = 1
  LedSettle = 2
  Hold = 3
  Schedules <- Unkept
SPECIFICATION ExecSpec
INVARIANTS
  PromisesAreMeasured
CHECK_DEADLOCK FALSE
