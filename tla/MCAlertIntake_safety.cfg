SPECIFICATION FairSpec
CONSTANTS
    t1 = t1
    t2 = t2
    s1 = s1
    s2 = s2
    NoHash = NoHash
    Tasks = {t1, t2}
    Snapshots = {s1, s2}
    MaxRuns = 1
    Faulty = TRUE
INVARIANTS TypeOK OrphanNeedsReason JudgedOncePerSnapshot TestsVisitedWithReason DoubtIsInvestigated
PROPERTIES Answered
CHECK_DEADLOCK FALSE
