CONSTANTS
    Behaviors <- MCBehaviors
    Telemetries <- MCTelemetries
    Seeds <- MCSeeds
    Models <- MCModels
    Runs = 2
    Outcomes <- MCOutcomes
    NoReport = NoReport
    Traces <- MCTraces
    TopoLimits <- MCTopoLimits
    RenderKeys <- MCRenderKeys
    Answers <- MCAnswers
    MaxJudged = 1

SPECIFICATION Spec

INVARIANTS
    SweepIsExact
    OrderIsForgotten
    NoPrematurePass
    TablesAgree
    ComparisonIsFair

CHECK_DEADLOCK FALSE
