CONSTANTS
    NWorkers = 2
    MaxTurns = 3
    MaxSteps = 4
    MaxTokens = 3
    MaxFailures = 1
    Calls <- MCCalls
    CallLists <- MCCallLists
    TokenCounts <- MCTokenCounts
    HasContract = TRUE
    UniqueIds = TRUE

SPECIFICATION FairSpec

INVARIANTS
    TypeOK
    EveryWorkerIsAccounted
    DecisionsMatchResult
    StoppedInTime
    LinksAreExact
    ExportIsATree

PROPERTY
    RunEnds

CHECK_DEADLOCK FALSE
