SPECIFICATION FairSpec
CONSTANTS
    s = s  a = a  b = b  j = j  e = e  h = h  g = g  x = x  y = y  z = z
    q1 = q1  q2 = q2
    Nodes <- ForkNodes
    Start = s
    Edges <- ForkEdges
    Kind <- ForkKind
    ErrorPolicy <- ForkPolicy
    Requests = {}
    MaxCrashes = 0
INVARIANTS
    JoinWaitsForAll
    CompletedLeavesNothing
    NodeOncePerRun
PROPERTY
    ExecutionSettles
CHECK_DEADLOCK FALSE
