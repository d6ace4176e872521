SPECIFICATION FairSpec
CONSTANTS
    t1 = t1
    t2 = t2
    Tasks = {t1}
    MaxManual = 1
    MaxOutside = 0
    MaxEvents = 2
    MaxFaults = 0
PROPERTY FindingsGetInvestigated
CHECK_DEADLOCK FALSE
