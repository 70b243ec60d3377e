SPECIFICATION Spec
CONSTANTS
  Aliases = {"acme"}
  ItemNames = {"work"}
  Quantities = {1, 2}
  Units = {35}
  Amounts = {12}
  MaxNumber = 1
  MaxSteps = 2
  MaxItems = 3
  Drifting <- MCDrifting
INVARIANTS
  EvidenceComplete
PROPERTIES
  
  
  SectionsSurvive
  DeletionCeiling
  CountedNumberFresh
