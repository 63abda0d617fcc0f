SPECIFICATION RacesSpec
CONSTANTS
    p1 = p1
    p2 = p2
    Procs = {p1, p2}
    MachineOf <- OwnMachine
    N = 2
    Cmds = {"sync", "submit", "adopt", "recover", "abandon"}
    RaceCmds = {"sync", "adopt", "abandon"}
    MaxOps = 2
    MaxEdits = 1
    MaxFaults = 2
    MaxStamp = 2
    Late = TRUE
SYMMETRY ProcSymmetry
INVARIANTS JournalFirst CheckpointsPublished
           RunsAreSeen CommentsHold
PROPERTIES EditsNotLost AuthorSawIt
CHECK_DEADLOCK FALSE
