SPECIFICATION FairSpec
CONSTANTS
    Callers = {c1, c2, c3}
    FailureThreshold = 3
    SuccessThreshold = 2
    HalfOpenMaxCalls = 3
    MaxDrops = 2
INVARIANTS
    TypeOK
    NoExitOverdue
PROPERTIES
    ClosesAfterRecovery
