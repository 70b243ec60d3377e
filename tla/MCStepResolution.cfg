SPECIFICATION Spec
CONSTANTS
    StructuredRetryLimit = 2
    RateLimitAttempts = 1
    SingleLimit = 2
    SubsetLimit = 2
    FallbackLimit = 2
    IngestLimit = 1
    MostSelected = 2
    TaskText = "task"
    Today = 20240301
    Phrases = {"bob inc", "older one", "younger one"}
    ForeignRef = "elsewhere"
    Workspaces <- MCWorkspaces
    Commands <- MCCommands
    Verdicts <- MCVerdicts
    Reintents <- MCReintents
INVARIANTS
    NoGuess
    PartyTotals
    Grounded
    OnlyWhatSenderMay
    QuestionsAreNew
PROPERTY
    StepEnds
