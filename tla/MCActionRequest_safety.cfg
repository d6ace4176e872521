SPECIFICATION Spec
CONSTANTS
    a1 = a1  a2 = a2  r1 = r1  r2 = r2  r3 = r3
    Analysts = {a1, a2}
    Requests = {r1, r2}
    NoRequest = NoRequest
    Unattended = {r2}
    Reversible = {r1}
    MaxFaults = 2
INVARIANTS
    TypeOK
    NothingUnapproved
    ReversesWhatRan
    StuckNeedsFault
    ExecutedOnce
PROPERTY
    RefusedNeverRuns
SYMMETRY Callers
CHECK_DEADLOCK FALSE
