SPECIFICATION Spec
CONSTANTS
    s = s  a = a  b = b  j = j  e = e  h = h  g = g  x = x  y = y  z = z
    q1 = q1  q2 = q2
    Nodes <- GateNodes
    Start = s
    Edges <- GateEdges
    Kind <- GateKind
    ErrorPolicy <- StopPolicy
    Requests = {q1, q2}
    MaxCrashes = 1
INVARIANTS
    TypeOK
    BehindPauseNeedsResume
    EdlOnlyWhenApproved
CHECK_DEADLOCK FALSE
