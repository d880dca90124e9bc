CONSTANTS
    Requests = {r1, r2}
    Traces = {t1}
    Batches <- MCClean
    JudgeOn = TRUE
    Serial = TRUE
    Ttl = 1
    MaxLag = 1
    MaxTime = 3
    MaxStarts = 1
    NoReport = NoReport
    NoTokens = NoTokens

SPECIFICATION Spec

INVARIANTS
    UsageIsOwn
    AckedIsRetrievable

PROPERTIES
    LatestGenerated

CHECK_DEADLOCK FALSE
