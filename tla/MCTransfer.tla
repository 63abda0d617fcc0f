----------------------------- MODULE MCTransfer -----------------------------
\* Transfer by itself: two plans, two runs, three objectives, one crash.
EXTENDS Transfer

Replans == { [stacked |-> TRUE, proj |-> <<1, 2>>], [stacked |-> FALSE, proj |-> <<0, 1>>] }

\* An operation whose successor is not found did nothing after its prepared record
\* (contracts.md, rerun and recovery of a transfer; transfer.py, _route_unresolved).
AbsenceProves == [][AbsenceIsProof]_vars
=============================================================================
