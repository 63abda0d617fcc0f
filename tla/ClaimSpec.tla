----------------------------- MODULE ClaimSpec -----------------------------
(***************************************************************************)
(* What a claim promises: at most one live process holds it, it passes on  *)
(* only after its holder let go or died, and a process that died never     *)
(* comes back.                                                             *)
(***************************************************************************)
CONSTANTS Procs, None

VARIABLES holder,  \* the live process that holds the claim, or None
          alive    \* processes that have not died

vars == <<holder, alive>>

Init == holder = None /\ alive = Procs

Take(p) == /\ holder = None /\ p \in alive
           /\ holder' = p /\ UNCHANGED alive

LetGo(p) == /\ holder = p
            /\ holder' = None /\ UNCHANGED alive

Die(p) == /\ p \in alive
          /\ alive' = alive \ {p}
          /\ holder' = IF holder = p THEN None ELSE holder

Next == \E p \in Procs : Take(p) \/ LetGo(p) \/ Die(p)

Spec == Init /\ [][Next]_vars
=============================================================================
