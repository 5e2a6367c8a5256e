CONSTANTS
  None = None
  c1 = c1
  c2 = c2
  Clients <- OneHandler
  Pollers <- OneHandler
  Fns = {"voltage", "current"}
  Bodies <- SomeBodies
  Defaults <- TheDefaults
  Ceiling = 2
  RstLimit = 0
  MaxJobs = 3
  MaxMishaps = 1
SPECIFICATION FairSpec
INVARIANTS
  DeviceWithinLimits
PROPERTIES
  SwitchesAsMeant
  DrawnAsItIs
CHECK_DEADLOCK FALSE
