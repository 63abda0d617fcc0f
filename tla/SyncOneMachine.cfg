SPECIFICATION OneSpec
CONSTANTS
    p1 = p1
    p2 = p2
    Procs = {p1, p2}
    MachineOf <- OneMachine
    N = 3
    Cmds = {"sync", "base", "adopt", "submit", "recover", "abandon"}
    MaxOps = 2
    MaxEdits = 1
    MaxFaults = 2
    MaxStamp = 2
    Late = FALSE
SYMMETRY ProcSymmetry
INVARIANTS TypeOK SerialJournal AbandonedHadNoEffect QuietStackIsLinear
           FixesSuffice
           CheckpointsAreTrue CheckpointsAreEarned ForeignCommitsSurvive
PROPERTIES UserTextKept ConvergesForward
CHECK_DEADLOCK FALSE
