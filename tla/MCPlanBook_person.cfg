CONSTANTS
  narrow = narrow
  wide = wide
  None = None
  Contents <- SomeContents
  Trees <- SomeTrees
  Catalogue <- SomeCatalogue
  Layers <- SomeLayers
  Costs <- SomeCosts
  MAX_EXPIRES_S = 7
  MaxPlans = 2
  MaxTime = 3
  AutoApprove = FALSE
SPECIFICATION Spec
INVARIANTS
  BudgetHolds
  ApprovalHolds
PROPERTIES
  DecisionsAreFinal
CHECK_DEADLOCK FALSE
