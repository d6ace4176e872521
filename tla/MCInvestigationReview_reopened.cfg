SPECIFICATION FairSpec
CONSTANTS
    t1 = t1
    Tasks = {t1}
    Paid = FALSE
    MaxUpdates = 0
    MaxCorrelations = 1
    MaxAgents = 1
    MaxLookups = 0
    MaxHuman = 1
    MaxFaults = 0
    MaxEvents = 3
PROPERTIES
    LaterAlertsDoNotReopen
CHECK_DEADLOCK FALSE
