SPECIFICATION Spec
CONSTANTS
    t1 = t1
    s1 = s1
    NoHash = NoHash
    Tasks = {t1}
    Snapshots = {s1}
    MaxRuns = 0
    Faulty = FALSE
INVARIANTS TestsNotVisited
CHECK_DEADLOCK FALSE
