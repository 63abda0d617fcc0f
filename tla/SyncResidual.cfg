SPECIFICATION Spec
CONSTANTS
    p1 = p1
    p2 = p2
    Procs = {p1, p2}
    MachineOf <- OwnMachine
    N = 2
    Cmds = {"sync", "abandon"}
    MaxOps = 2
    MaxEdits = 0
    MaxFaults = 0
    MaxStamp = 2
    Late = FALSE
INVARIANT ResidualPushIsDrift
CHECK_DEADLOCK FALSE
