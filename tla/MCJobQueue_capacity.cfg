SPECIFICATION Spec
CONSTANTS
    j1 = j1  j2 = j2  j3 = j3  j4 = j4
    w1 = w1  w2 = w2  p1 = p1  p2 = p2
    Jobs = {j1, j2, j3, j4}
    Workers = {w1}
    Producers = {p1, p2}
    NoJob = NoJob
    Priority <- FlatPriority
    MaxAttempts = 2
    QueueLimit = 1
    MaxFaults = 1
    MaxBypasses = 0
SYMMETRY FlatSymmetry
INVARIANT BoundedOverrun
CHECK_DEADLOCK FALSE
