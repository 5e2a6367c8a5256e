CONSTANTS
  None = None
  Growth = 2
  MaxRange = 16
  Ceiling = 8
  Volt = 6
  Passes = 4
  Steps = 2
  Loops = 2
  LightTraces <- TheLights
  DarkTrace <- TheDark
  Sync <- TheSync
  SyncStart <- TheStart
  Found <- TheFound
  Alternates = {TRUE}
  Sweep = "TRIG"
  Captures <- TheCaptures
  MaxMishaps = 1
  MaxUnread = 1
  Limit = 2
  ReadsIntensity = TRUE
  MaxJobs = 2
  MaxSilences = 1
  MaxRefusals = 1
  Together = FALSE
SPECIFICATION FairSpec
INVARIANTS
  TracesAreWhole
  ObserversAgree
PROPERTIES
  FaultEndsTheHeat
CHECK_DEADLOCK FALSE
