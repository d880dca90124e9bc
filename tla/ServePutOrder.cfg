CONSTANTS
    Requests = {r1, r2}
    Traces = {t1}
    Batches <- MCClean
    JudgeOn = FALSE
    Serial = FALSE
    Ttl = 1
    MaxLag = 1
    MaxTime = 2
    MaxStarts = 0
    NoReport = NoReport
    NoTokens = NoTokens

SPECIFICATION Spec

PROPERTIES
    LatestGenerated

CHECK_DEADLOCK FALSE
