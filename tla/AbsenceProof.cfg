SPECIFICATION Spec
CONSTANTS
    N = 2
    Runs = {"A", "B"}
    Requests <- Replans
    MaxObj = 3
    MaxOps = 2
    Cap = 4
    MaxEdits = 0
    MaxFaults = 1
PROPERTY AbsenceProves
CHECK_DEADLOCK FALSE
