CONSTANTS
    NWorkers = 1
    MaxTurns = 3
    MaxSteps = 5
    MaxTokens = 8
    MaxFailures = 1
    Calls <- MCCalls
    CallLists <- MCCallLists
    TokenCounts <- MCTokenCounts
    HasContract = TRUE
    UniqueIds = TRUE
    AllowedTools <- MCAllowed
    MaxRepetitions = 2
    MaxSpans = 8
    MaxRunTokens = 6
    NoReport = NoReport
    ScheduleFires = TRUE

SPECIFICATION PipelineSpec

INVARIANTS
    CleanRunPasses
    NoFalseAssurance
    FaultIsNamed
    ReorderIsHarmless
    ReplayMatchesLive
    ReplayNeverAssures
    RecordIsTheRun

CHECK_DEADLOCK FALSE
