CONSTANTS
    Requests = {r1, r2}
    Traces = {t1}
    Batches <- MCClean
    JudgeOn = TRUE
    Serial = FALSE
    Ttl = 1
    MaxLag = 1
    MaxTime = 2
    MaxStarts = 0
    NoReport = NoReport
    NoTokens = NoTokens

SPECIFICATION FairSpec

PROPERTIES
    Answered
    ImplementsStore

CHECK_DEADLOCK FALSE
