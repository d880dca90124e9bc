CONSTANTS
    Requests = {r1, r2}
    Traces = {t1, t2}
    Batches <- MCBatches
    JudgeOn = TRUE
    Serial = FALSE
    Ttl = 1
    MaxLag = 0
    MaxTime = 0
    MaxStarts = 0
    NoReport = NoReport
    NoTokens = NoTokens

SPECIFICATION Spec

INVARIANTS
    TypeOK
    DeterministicVerdictStands
    OutageIsNotAnOpinion
    StoredPassIsEarned

CHECK_DEADLOCK FALSE

SYMMETRY MCSymmetry
