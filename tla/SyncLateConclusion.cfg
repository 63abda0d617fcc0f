SPECIFICATION Spec
CONSTANTS
    p1 = p1
    Procs = {p1}
    MachineOf <- OneMachine
    N = 2
    Cmds = {"sync"}
    MaxOps = 2
    MaxEdits = 0
    MaxFaults = 2
    MaxStamp = 2
    Late = TRUE
INVARIANT RepeatedConclusionIsIdempotent
CHECK_DEADLOCK FALSE
