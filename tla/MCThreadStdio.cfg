SPECIFICATION Spec
CONSTANTS
  Workers = {w1, w2}
  Rounds = 2
INVARIANTS
  TypeOK
  OwnBuffer
  StacksMatch
PROPERTIES
  AllCaptured
