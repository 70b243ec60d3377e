SPECIFICATION Spec
CONSTANTS
  Notes <- MCNotes
  FinanceDirs = {"finance"}
  Unknown <- MCUnknown
  Projects <- MCProjects
  TextPrefix <- MCTextPrefix
  MaxTime = 2
  MaxSteps = 2
INVARIANTS
  BatchOrdered
  DraftsKept
PROPERTIES
  MergesKeepFields
  TargetsOnly
  DeletionBelowRoot
