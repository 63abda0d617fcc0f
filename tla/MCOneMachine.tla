---------------------------- MODULE MCOneMachine -----------------------------
(***************************************************************************)
(* What one machine runs, each by itself (focus): two processes that       *)
(* synchronize a stack under its lock; two that publish layers or recover, *)
(* which no lock keeps apart; or one of the tools around the stack.        *)
(***************************************************************************)
EXTENDS MCStackSync

VARIABLES focus,
          packages, providers, backend, pedits,
          have, recorded, config, legacy, skill, fragment, delivered, ext, cself,
          calm, count,
          pref, plocal, ppr, pstack, header, pcp, pop, pnops, made, pme, lost, crossed,
          meddled, failed

Pkg == INSTANCE Packages WITH edits <- pedits, MaxEdits <- 2
Cvg == INSTANCE Convergence WITH self <- cself, n <- count, Proc <- Procs, Versions <- {1, 2},
                                 Files <- <<"settings", "pin">>, Skills <- {"s1"},
                                 MaxCommands <- 3, MaxEvents <- 1, MaxBefore <- 1

Pub == INSTANCE Publication WITH ref <- pref, local <- plocal, pr <- ppr, stack <- pstack,
                                 cp <- pcp, op <- pop, nops <- pnops, me <- pme,
                                 edits <- meddled, faults <- failed, N <- 2, MaxLocal <- 2,
                                 MaxEdits <- 1, MaxFaults <- 1

pkgVars == <<packages, providers, backend, pedits>>
cvgVars == <<have, recorded, config, legacy, skill, fragment, delivered, ext, cself, calm,
             count>>
pubVars == <<pref, plocal, ppr, pstack, header, pcp, pop, pnops, made, pme, lost, crossed,
             meddled, failed>>
toolVars == <<pkgVars, cvgVars, pubVars>>
allVars == <<focus, vars, toolVars>>

NoPkg == /\ packages = 0 /\ providers = 0 /\ backend = 0 /\ pedits = 0
NoCvg == /\ have = 0 /\ recorded = 0 /\ config = 0 /\ legacy = 0 /\ skill = 0 /\ fragment = 0
         /\ delivered = 0 /\ ext = 0 /\ cself = 0 /\ calm = 0 /\ count = 0

NoPub == /\ pref = 0 /\ plocal = 0 /\ ppr = 0 /\ pstack = 0 /\ header = 0 /\ pcp = 0 /\ pop = 0
         /\ pnops = 0 /\ made = 0 /\ pme = 0 /\ lost = 0 /\ crossed = 0 /\ meddled = 0
         /\ failed = 0

\* Beside the tools the stack stays as it started.
Start == /\ Init
         /\ \/ /\ focus = "sync" /\ NoPkg /\ NoCvg /\ NoPub
            \/ /\ focus = "packages" /\ Pkg!Init /\ NoCvg /\ NoPub
            \/ /\ focus = "convergence" /\ Cvg!Init /\ NoPkg /\ NoPub
            \/ /\ focus = "publish" /\ Pub!Init /\ NoPkg /\ NoCvg

\* A publication is disturbed once, by a fault or from outside.
Steps == \/ focus = "sync" /\ Next /\ UNCHANGED <<focus, toolVars>>
         \/ /\ focus = "packages" /\ Pkg!Next
            /\ UNCHANGED <<focus, vars, cvgVars, pubVars>>
         \/ /\ focus = "convergence" /\ Cvg!Next
            /\ UNCHANGED <<focus, vars, pkgVars, pubVars>>
         \/ /\ focus = "publish" /\ Pub!Next /\ meddled' + failed' <= 1
            /\ UNCHANGED <<focus, vars, pkgVars, cvgVars>>

OneSpec == Start /\ [][Steps]_allVars

-----------------------------------------------------------------------------
\* Two undisturbed doctor --fix runs leave nothing to fix (doctor/__init__.py, run_doctor).
FixesSuffice == focus = "convergence" => Cvg!FixesSuffice

\* A checkpoint pair is true (publish.py, _complete_publication).
CheckpointsAreTrue == focus = "publish" => Pub!CheckpointsAreTrue

\* A pair of an abandoned publication was crossed by the abandonment (recover.py, _abandon).
CheckpointsAreEarned == focus = "publish" => Pub!CheckpointsAreEarned

\* No republication overwrites a foreign commit (publish.py, _republish).
ForeignCommitsSurvive == focus = "publish" => Pub!ForeignCommitsSurvive

\* What people wrote into managed files and configuration stays (init/settings.py,
\* _converge_settings; init/templates.py, converge_config; doctor/fixes.py).
UserTextKept == [][/\ focus = "convergence" => Cvg!KeepsText
                   /\ focus = "packages" => Pkg!KeepsTheirs]_allVars

\* An undisturbed command never converges backward (write_admission.py, write_refusal), and a
\* converged package list stays as it is (init/settings.py, _converge_settings).
ConvergesForward == [][/\ focus = "convergence" => Cvg!NeverBackward
                       /\ focus = "packages" => Pkg!Settles]_allVars
=============================================================================
