CONSTANTS
    Traces = {t1, t2}
    Body = {b1, b2}
    Ttl = 3
    MaxLag = 2
    MaxTime = 7
    NoReport = NoReport

SPECIFICATION Spec

INVARIANTS
    TypeOK
    SweepHorizon
    NotForgottenEarly
    RetrievedIsRecent

PROPERTY
    ImplementsRecentVerdicts
