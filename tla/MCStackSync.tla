---------------------------- MODULE MCStackSync ----------------------------
EXTENDS StackSync, TLC

\* Every process on one machine, so that the operation lock serializes them;
\* or each on a machine of its own, so that only the journal and leases do.
OneMachine == [p \in Procs |-> "m"]
OwnMachine == [p \in Procs |-> p]

\* Processes are interchangeable: commands are chosen freely by each.
ProcSymmetry == Permutations(Procs)
=============================================================================
