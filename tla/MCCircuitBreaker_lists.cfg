SPECIFICATION FairSpec
CONSTANTS
    Callers = {c1, c2}
    FailureThreshold = 2
    SuccessThreshold = 2
    HalfOpenMaxCalls = 2
    MaxDrops = 1
PROPERTY HealthyCloses
