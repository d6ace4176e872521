SPECIFICATION FairSpec
CONSTANTS
    t1 = t1
    t2 = t2
    Tasks = {t1, t2}
    Paid = TRUE
    MaxUpdates = 1
    MaxCorrelations = 1
    MaxAgents = 1
    MaxLookups = 1
    MaxHuman = 1
    MaxFaults = 1
    MaxEvents = 1
INVARIANTS
    TypeOK
    SingleFlight
    AnalysedOnce
PROPERTIES
    SettledStaysClosed
    ReviewSettles
CHECK_DEADLOCK FALSE
