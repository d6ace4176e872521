SPECIFICATION Spec
CONSTANTS
    a1 = a1  a2 = a2  r1 = r1  r2 = r2  r3 = r3
    Analysts = {a1, a2}
    Requests = {r1}
    NoRequest = NoRequest
    Unattended = {}
    Reversible = {r1}
    MaxFaults = 0
INVARIANT
    NeverTwice
CHECK_DEADLOCK FALSE
