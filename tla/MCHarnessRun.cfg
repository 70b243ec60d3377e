SPECIFICATION Spec
CONSTANTS
  Trials = {t1, t2, t3}
  MaxWorkers = 2
  MaxPolls = 1
  MaxInterrupts = 2
INVARIANTS
  TypeOK
  QuietSubmission
  SubmittedBeforeExit
  ResultsComplete
PROPERTIES
  Exits
