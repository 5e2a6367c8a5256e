CONSTANTS
  Null = Null
  p1 = p1
  p2 = p2
  Processes = {p1}
  Sessions = {1, 2}
  MaxLines = 7
  MaxSubs = 3
  MaxFails = 0
  MaxCrashes = 2
SPECIFICATION JournalSpec
INVARIANTS
  FlushedIsReadable
CHECK_DEADLOCK FALSE
