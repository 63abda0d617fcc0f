---------------------------- MODULE MCStackRaces ----------------------------
(***************************************************************************)
(* Requests that take effect after their sender stopped.  Either one       *)
(* process is alone, crashes, and meets its own late requests under any    *)
(* command; or two processes, each on a machine of its own, race without   *)
(* faults, and nothing but the journal and the push leases orders them.    *)
(***************************************************************************)
EXTENDS StackSync, TLC

CONSTANT RaceCmds     \* the commands of the racing processes

VARIABLE who          \* the process that is alone, or "race"

OwnMachine   == [p \in Procs |-> p]
ProcSymmetry == Permutations(Procs)

RaceInit == Init /\ who \in Procs \cup {"race"}
RaceNext == /\ Next /\ UNCHANGED who
            /\ IF who = "race"
               THEN faults' = 0 /\ \A p \in Procs : self'[p].cmd \in RaceCmds \cup {"none"}
               ELSE \A p \in Procs \ {who} : self'[p] = self[p]
RaceSpec == RaceInit /\ [][RaceNext]_<<vars, who>>
=============================================================================
