CONSTANTS
    NWorkers = 2
    MaxTurns = 2
    MaxSteps = 5
    MaxTokens = 8
    MaxFailures = 1
    Calls <- MCCalls
    CallLists <- MCOneCall
    TokenCounts <- MCOneToken
    HasContract = TRUE
    UniqueIds = FALSE
    AllowedTools <- MCAllowed
    MaxRepetitions = 2
    MaxSpans = 10
    MaxRunTokens = 20
    NoReport = NoReport
    ScheduleFires = FALSE

SPECIFICATION PipelineSpec

INVARIANT
    NoFalseAssurance

CHECK_DEADLOCK FALSE
