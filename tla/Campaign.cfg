CONSTANTS
    Plan <- MCPlan
    MaxRuns = 2
    MaxCrashes = 1
    MaxDiskErrors = 1
    MaxStrangers = 1
    Moments = {"over", "wait"}
    MaxReplays = 1
    NoReport = NoReport
    NoRow = NoRow

SPECIFICATION FairSpec

INVARIANTS
    TypeOK
    RecordIsClean
    ManifestAgrees
    VerifiedByOwn
    OutIsWhole

PROPERTIES
    FinalRowsStay
    CampaignEnds

CHECK_DEADLOCK FALSE
