SPECIFICATION FairSpec
CONSTANTS
    t1 = t1
    t2 = t2
    Tasks = {t1, t2}
    MaxManual = 1
    MaxOutside = 1
    MaxEvents = 2
    MaxFaults = 1
INVARIANTS
    TypeOK
    OpenedOnce
PROPERTIES
    AgentsNeverBury
    Answered
CHECK_DEADLOCK FALSE
