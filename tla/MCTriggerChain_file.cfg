CONSTANTS
  None = None
  Files <- TwoFiles
  Patches <- SomePatches
  Overrides <- SomeTrees
  Filed = "film"
  Names = {"control"}
  MaxRuns = 2
  MaxEdits = 2
  MaxRestarts = 1
SPECIFICATION Spec
INVARIANTS
  FileSaysTheLed
CHECK_DEADLOCK FALSE
