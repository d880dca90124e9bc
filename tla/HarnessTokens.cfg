CONSTANTS
    NWorkers = 1
    MaxTurns = 2
    MaxSteps = 5
    MaxTokens = 3
    MaxFailures = 1
    Calls <- MCCalls
    CallLists <- MCTwoCalls
    TokenCounts <- MCTokenCounts
    HasContract = TRUE
    UniqueIds = TRUE

SPECIFICATION Spec

INVARIANT
    TokenLimitIsReal

CHECK_DEADLOCK FALSE
