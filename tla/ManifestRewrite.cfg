SPECIFICATION Spec
CONSTANTS
    N = 3
    MaxOps = 2
    MaxEdits = 0
    MaxFaults = 1
INVARIANT RewriteFailureContinues
CHECK_DEADLOCK FALSE
