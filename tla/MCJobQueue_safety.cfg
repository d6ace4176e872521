SPECIFICATION FairSpec
CONSTANTS
    j1 = j1  j2 = j2  j3 = j3  j4 = j4
    w1 = w1  w2 = w2  p1 = p1  p2 = p2
    Jobs = {j1, j2}
    Workers = {w1, w2}
    Producers = {p1}
    NoJob = NoJob
    Priority <- MixedPriority
    MaxAttempts = 2
    QueueLimit = 2
    MaxFaults = 2
    MaxBypasses = 1
INVARIANTS
    TypeOK
    SingleHolder
    AttemptsBounded
    DeadIsExhausted
    StrandedNeedsFault
PROPERTIES
    OnlyItsWorkerReopens
    JobsSettle
    IsRetryingQueue
CHECK_DEADLOCK FALSE
