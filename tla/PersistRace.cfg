SPECIFICATION Spec
CONSTANTS
    w1 = w1
    w2 = w2
    Writers = {w1, w2}
    MaxOps = 1
    Heads = {}
    MaxCalls = 2
    Late = FALSE
INVARIANT OneUnresolvedPerLineage
CHECK_DEADLOCK FALSE
