SPECIFICATION Spec
CONSTANTS
    s = s  a = a  b = b  j = j  e = e  h = h  g = g  x = x  y = y  z = z
    q1 = q1  q2 = q2
    Nodes <- ChoiceNodes
    Start = s
    Edges <- ChoiceEdges
    Kind <- ChoiceKind
    ErrorPolicy <- StopPolicy
    Requests = {}
    MaxCrashes = 0
INVARIANT CompletedReachesEnd
CHECK_DEADLOCK FALSE
