SPECIFICATION Spec
CONSTANTS
  NItems = 2
  MaxAttempts = 2
  MaxDepth = 2
  MaxSteps = 2
  MaxFiles = 2
INVARIANTS
  TypeOK
  InjectedUntouched
  OneUnitPerAttempt
  BudgetOK
  PlannedMutationsStamped
  AnswersAccounted
PROPERTIES
  ConsumedOnlyWhenDone
  ImplementsContract
  Closes
