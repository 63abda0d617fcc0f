SPECIFICATION Spec
CONSTANTS MaxCommits = 2  MaxLaunches = 2  MaxFaults = 0  MaxMoves = 2
INVARIANT WipedWasMerged
CHECK_DEADLOCK FALSE
