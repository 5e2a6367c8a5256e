CONSTANTS
  None = None
  Runs <- SomeRuns
  Actions <- SomeActions
  Checks <- SomeChecks
  ClosePark <- TheClose
  Park <- ThePark
  Refusing = {"bias"}
  Bridged = FALSE
SPECIFICATION LiveSpec
PROPERTIES
  ColdRelay
  DeviceIsSpared
  MeasuredAsSaid
CHECK_DEADLOCK FALSE
