SPECIFICATION Spec
CONSTANTS
  NItems = 2
  MaxAttempts = 2
  MaxDepth = 1
  MaxSteps = 1
  MaxFiles = 1
INVARIANTS
  BudgetOK
