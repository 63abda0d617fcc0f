----------------------------- MODULE Checkout -----------------------------
(***************************************************************************)
(* The checkout of one plan on one machine: perk launches a stage in it    *)
(* (run/launch), the session works in it, and wipe removes it once the     *)
(* pull request is merged (cli/commands/worktree).  Meanwhile other        *)
(* machines and remote workers push to the plan's branch, and the person   *)
(* at this one uses git by hand, in the checkout and in the main one.      *)
(*                                                                         *)
(* A branch is the set of its commits; its ancestors are its subsets.      *)
(***************************************************************************)
EXTENDS Naturals, FiniteSets

CONSTANTS MaxCommits, MaxLaunches, MaxFaults,
          MaxMoves     \* bound: edits, switches and foreign pushes

VARIABLES origin,  \* origin[b]: branch b of the remote
          local,   \* local[b]: branch b of this clone
          track,   \* refs/remotes/origin of the plan's branch
          main,    \* the branch of the main checkout
          pr,      \* the pull request; merged: the commits it merged
          learn,   \* learn_state of the plan header
          wt,      \* the checkout at worktree_root/plan-N
          run,     \* the launch in progress
          wipe,    \* the wipe in progress
          land,    \* a landing that merged and has not set its marker
          ncommit, nlaunch, nmove, faults

bounds == <<ncommit, nlaunch, nmove, faults>>
vars   == <<origin, local, track, main, pr, learn, wt, run, wipe, land, bounds>>

Branches == {"plan", "side"}
Absent   == {0}
Exists(c)     == c # Absent
Behind(c, d)  == c \subseteq d            \* git merge-base --is-ancestor

\* A tree is a directory with its .git link; a directory without one is residue,
\* whether git still has an entry for it or not.
NoTree == [dir |-> "none", reg |-> FALSE, on |-> "plan", bound |-> FALSE, pending |-> FALSE,
           ready |-> FALSE, cut |-> FALSE, dirty |-> FALSE, unlearned |-> FALSE, session |-> FALSE]
NoRun  == [pc |-> "idle", stage |-> "none", loc |-> Absent, rem |-> Absent]
NoWipe == [pc |-> "idle", force |-> FALSE, take |-> FALSE, residue |-> FALSE, names |-> {}]

Init == /\ origin = [b \in Branches |-> Absent] /\ local = [b \in Branches |-> Absent]
        /\ track = Absent /\ main = "trunk" /\ learn = "none"
        /\ pr = [st |-> "none", merged |-> {}]
        /\ wt = NoTree /\ run = NoRun /\ wipe = NoWipe /\ land = FALSE
        /\ ncommit = 0 /\ nlaunch = 0 /\ nmove = 0 /\ faults = 0

Usable   == wt.dir = "tree"
Vacant   == wt.dir = "none" /\ ~ wt.reg
HeldBy(b) == {w \in {"main", "tree"} : IF w = "main" THEN main = b ELSE wt.reg /\ wt.on = b}

-----------------------------------------------------------------------------
(***************************************************************************)
(* What resume launches next (run/resume.py): a draft, a quiet review and  *)
(* a closed pull request launch nothing.                                   *)
(***************************************************************************)
NextAction == CASE pr.st = "none"   -> {"implement"}
                [] pr.st = "open"   -> {"address"}      \* review feedback comes and goes
                [] pr.st = "merged" -> IF learn = "pending" \/ (learn = "none" /\ wt.unlearned)
                                       THEN {"learn"} ELSE {}

Refused == run' = NoRun
Step(pc) == run' = [run EXCEPT !.pc = pc]

\* An existing checkout is used as it is or refused: never rebound, never moved.
Valid == Usable /\ wt.bound /\ wt.on = "plan"

\* launch_stage, up to the disposition of the checkout.  `perk implement` may be
\* given at any time, the other stages when resume says so.
Launch(stage) ==
    /\ run.pc = "idle" /\ ~ wt.session /\ nlaunch < MaxLaunches
    /\ stage \in NextAction \cup {"implement"}
    /\ nlaunch' = nlaunch + 1
    /\ IF wt.dir # "none"
       THEN run' = IF Valid THEN [NoRun EXCEPT !.pc = "setup", !.stage = stage] ELSE NoRun
       ELSE run' = IF wt.reg \/ stage = "learn" THEN NoRun    \* stale entry; never restored
                   ELSE [NoRun EXCEPT !.pc = IF stage = "implement" THEN "create" ELSE "restore",
                                      !.stage = stage]
    /\ UNCHANGED <<origin, local, track, main, pr, learn, wt, wipe, land, ncommit, nmove, faults>>

Placed == wt' = [NoTree EXCEPT !.dir = "tree", !.reg = TRUE]

\* _create_fresh: a best-effort fetch, then git worktree add -b from origin's
\* branch as last known, or from trunk; git refuses a branch or a directory that
\* exists.
CreateFresh ==
    /\ run.pc = "create"
    /\ \E t \in {track, origin["plan"]} :
         /\ track' = t
         /\ IF Exists(local["plan"]) \/ ~ Vacant
            THEN Refused /\ UNCHANGED <<local, wt>>
            ELSE /\ local' = [local EXCEPT !["plan"] = IF Exists(t) THEN t ELSE {}]
                 /\ Placed /\ Step("bind")
    /\ UNCHANGED <<origin, main, pr, learn, wipe, land, bounds>>

\* Mutant of Probe: the order of the two tips is not looked at.
ProbeUnordered ==
    /\ run.pc = "restore"
    /\ IF ~ Exists(origin["plan"])
       THEN Refused /\ UNCHANGED track
       ELSE /\ track' = origin["plan"]
            /\ run' = [run EXCEPT !.pc = IF Exists(local["plan"]) THEN "forward" ELSE "attach",
                                  !.loc = local["plan"], !.rem = origin["plan"]]
    /\ UNCHANGED <<origin, local, main, pr, learn, wt, wipe, land, bounds>>

\* _restore_checkout, the probes: a strict fetch, both tips, and their order.
Probe ==
    /\ run.pc = "restore"
    /\ IF ~ Exists(origin["plan"])
       THEN Refused /\ UNCHANGED track
       ELSE /\ track' = origin["plan"]
            /\ run' = IF Exists(local["plan"]) /\ ~ Behind(local["plan"], origin["plan"])
                      THEN NoRun
                      ELSE [run EXCEPT !.pc = IF Exists(local["plan"]) THEN "forward" ELSE "attach",
                                       !.loc = local["plan"], !.rem = origin["plan"]]
    /\ UNCHANGED <<origin, local, main, pr, learn, wt, wipe, land, bounds>>

\* Mutant of Forward: the branch is moved whatever became of it since the probe.
ForwardAnyway ==
    /\ run.pc = "forward"
    /\ IF HeldBy("plan") # {}
       THEN Refused /\ UNCHANGED local
       ELSE /\ Step("attach")
            /\ local' = IF run.loc = run.rem THEN local ELSE [local EXCEPT !["plan"] = run.rem]
    /\ UNCHANGED <<origin, track, main, pr, learn, wt, wipe, land, bounds>>

\* ... the fast-forward: refused while any checkout holds the branch, and a
\* compare-and-swap against the tip that was probed.
Forward ==
    /\ run.pc = "forward"
    /\ IF HeldBy("plan") # {} \/ (run.loc # run.rem /\ local["plan"] # run.loc)
       THEN Refused /\ UNCHANGED local
       ELSE /\ Step("attach")
            /\ local' = IF run.loc = run.rem THEN local ELSE [local EXCEPT !["plan"] = run.rem]
    /\ UNCHANGED <<origin, track, main, pr, learn, wt, wipe, land, bounds>>

\* ... and git worktree add, which refuses a branch checked out elsewhere, and,
\* where it creates the branch, one that exists by now.
Attach ==
    /\ run.pc = "attach"
    /\ LET mint    == ~ Exists(run.loc)
           refuses == \/ HeldBy("plan") # {}
                      \/ ~ Vacant
                      \/ mint <=> Exists(local["plan"])
                      \/ mint /\ ~ Exists(track)
       IN  IF refuses
           THEN Refused /\ UNCHANGED <<local, wt>>
           ELSE /\ local' = IF mint THEN [local EXCEPT !["plan"] = track] ELSE local
                /\ Placed /\ Step("bind")
    /\ UNCHANGED <<origin, track, main, pr, learn, wipe, land, bounds>>

\* _materialize_binding writes the plan-ref, then the setup-pending marker.
Bind ==
    /\ run.pc = "bind"
    /\ IF Usable THEN wt' = [wt EXCEPT !.bound = TRUE] /\ Step("mark")
                 ELSE Refused /\ UNCHANGED wt
    /\ UNCHANGED <<origin, local, track, main, pr, learn, wipe, land, bounds>>
Mark ==
    /\ run.pc = "mark"
    /\ IF Usable THEN wt' = [wt EXCEPT !.pending = TRUE] /\ Step("setup")
                 ELSE Refused /\ UNCHANGED wt
    /\ UNCHANGED <<origin, local, track, main, pr, learn, wipe, land, bounds>>

\* Mutant of Setup: the marker goes before the commands have run.
SetupOnce ==
    /\ run.pc = "setup"
    /\ \/ ~ wt.pending /\ Step("exec") /\ UNCHANGED wt
       \/ wt.pending /\ Step("exec") /\ wt' = [wt EXCEPT !.pending = FALSE, !.ready = TRUE]
       \/ wt.pending /\ Refused /\ wt' = [wt EXCEPT !.pending = FALSE]
    /\ UNCHANGED <<origin, local, track, main, pr, learn, wipe, land, bounds>>

\* run_pending_setup: the commands run while the marker is there, which goes only
\* when all of them succeeded.
Setup ==
    /\ run.pc = "setup"
    /\ \/ ~ wt.pending /\ Step("exec") /\ UNCHANGED wt
       \/ wt.pending /\ Step("exec") /\ wt' = [wt EXCEPT !.pending = FALSE, !.ready = TRUE]
       \/ wt.pending /\ Refused /\ UNCHANGED wt
    /\ UNCHANGED <<origin, local, track, main, pr, learn, wipe, land, bounds>>

\* exec_pi: the process becomes the session, which needs its directory.
Exec ==
    /\ run.pc = "exec" /\ Refused
    /\ wt' = IF Usable THEN [wt EXCEPT !.session = TRUE] ELSE wt
    /\ UNCHANGED <<origin, local, track, main, pr, learn, wipe, land, bounds>>

Crash ==
    /\ run.pc # "idle" /\ faults < MaxFaults /\ faults' = faults + 1 /\ Refused
    /\ wt' = IF run.pc = "mark" THEN [wt EXCEPT !.cut = TRUE] ELSE wt
    /\ UNCHANGED <<origin, local, track, main, pr, learn, wipe, land, ncommit, nlaunch, nmove>>

-----------------------------------------------------------------------------
(***************************************************************************)
(* The session and the person.                                             *)
(***************************************************************************)
Move == nmove < MaxMoves /\ nmove' = nmove + 1

Edit == /\ Usable /\ ~ wt.dirty /\ Move /\ wt' = [wt EXCEPT !.dirty = TRUE]
        /\ UNCHANGED <<origin, local, track, main, pr, learn, run, wipe, land, ncommit, nlaunch,
                       faults>>

Grow(b) == /\ ncommit < MaxCommits /\ ncommit' = ncommit + 1
           /\ local' = [local EXCEPT ![b] = @ \cup {ncommit'}]

Commit == /\ Usable /\ wt.dirty /\ Grow(wt.on) /\ wt' = [wt EXCEPT !.dirty = FALSE]
          /\ UNCHANGED <<origin, track, main, pr, learn, run, wipe, land, nlaunch, nmove, faults>>

Leave == /\ wt.session /\ wt' = [wt EXCEPT !.session = FALSE]
         /\ UNCHANGED <<origin, local, track, main, pr, learn, run, wipe, land, bounds>>

\* A branch of the person's own in the plan's checkout, and back.
Switch == /\ Usable /\ ~ wt.session /\ ~ wt.dirty /\ Move
          /\ LET b == IF wt.on = "plan" THEN "side" ELSE "plan"
             IN  /\ main # b /\ (b = "side" \/ Exists(local[b]))
                 /\ wt' = [wt EXCEPT !.on = b]
                 /\ local' = IF Exists(local[b]) THEN local ELSE [local EXCEPT ![b] = local[wt.on]]
          /\ UNCHANGED <<origin, track, main, pr, learn, run, wipe, land, ncommit, nlaunch, faults>>

\* The plan's branch checked out, worked on, and left again in the main checkout.
SwitchMain == /\ IF main = "trunk" THEN Move ELSE UNCHANGED nmove
              /\ main' = IF main = "trunk" THEN "plan" ELSE "trunk"
              /\ main' = "plan" => Exists(local["plan"]) /\ HeldBy("plan") = {}
              /\ \/ UNCHANGED <<local, ncommit>>
                 \/ main = "plan" /\ Grow("plan")
              /\ UNCHANGED <<origin, track, pr, learn, wt, run, wipe, land, nlaunch, faults>>

\* git push, without force; the pull request is opened by the first one.
Push(b) == /\ Exists(local[b]) /\ local[b] # origin[b]
           /\ Exists(origin[b]) => Behind(origin[b], local[b])
           /\ origin' = [origin EXCEPT ![b] = local[b]]
           /\ track' = IF b = "plan" THEN local[b] ELSE track
           /\ pr' = IF b = "plan" /\ pr.st = "none" /\ local[b] # {} THEN [pr EXCEPT !.st = "open"] ELSE pr
           /\ UNCHANGED <<local, main, learn, wt, run, wipe, land, bounds>>

\* A remote worker: position_branch starts from the remote tip, or from trunk where
\* the branch is new, and what it pushes extends that and opens the pull request.
\* A person at another machine pushes alike.
PushElsewhere ==
    /\ Move /\ ncommit < MaxCommits /\ ncommit' = ncommit + 1
    /\ origin' = [origin EXCEPT !["plan"] = (IF Exists(@) THEN @ ELSE {}) \cup {ncommit'}]
    /\ pr' = IF pr.st = "none" THEN [pr EXCEPT !.st = "open"] ELSE pr
    /\ UNCHANGED <<local, track, main, learn, wt, run, wipe, land, nlaunch, faults>>

\* The merge, on the website or by perk's land, which then stamps learn_state and
\* at last sets the pending-learn marker where it runs.  GitHub may delete the
\* branch.
Merge(byPerk) ==
    /\ pr.st = "open" /\ (byPerk => Usable)
    /\ pr' = [st |-> "merged", merged |-> origin["plan"]]
    /\ origin' \in {origin, [origin EXCEPT !["plan"] = Absent]}
    /\ learn' = IF byPerk THEN "pending" ELSE learn
    /\ land' = byPerk
    /\ UNCHANGED <<local, track, main, wt, run, wipe, bounds>>
SetMarker ==
    /\ land /\ land' = FALSE
    /\ wt' = [wt EXCEPT !.dir = IF wt.dir = "none" THEN "residue" ELSE @, !.unlearned = TRUE]
    /\ UNCHANGED <<origin, local, track, main, pr, learn, run, wipe, bounds>>

\* The learn stage captures or skips: both write the header and clear the marker.
Capture == /\ wt.session /\ learn = "pending" /\ learn' = "captured"
           /\ wt' = [wt EXCEPT !.unlearned = FALSE]
           /\ UNCHANGED <<origin, local, track, main, pr, run, wipe, land, bounds>>

-----------------------------------------------------------------------------
(***************************************************************************)
(* perk worktree remove and wipe.  git worktree remove refuses a dirty     *)
(* checkout; when it runs out of time, the directory is removed after it   *)
(* and the registration stays behind for prune.                            *)
(***************************************************************************)
Removable(force) == wt.reg /\ (Usable /\ wt.dirty => force)
Removed   == \E late \in BOOLEAN :
                wt' = [NoTree EXCEPT !.reg = late, !.on = IF late THEN wt.on ELSE "plan"]

Remove == /\ wt.dir # "none" /\ Removable(FALSE) /\ wt' = NoTree
          /\ UNCHANGED <<origin, local, track, main, pr, learn, run, wipe, land, bounds>>

\* The facts, the decision (_classify_worktree), residue and stranded branches.
Gather(force) ==
    /\ wipe.pc = "idle"
    /\ LET take     == /\ wt.reg /\ pr.st = "merged"
                       /\ force \/ ~ ((Usable /\ wt.dirty) \/ wt.unlearned)
           stranded == pr.st = "merged" /\ Exists(local["plan"]) /\ HeldBy("plan") = {}
           junk     == wt.dir # "none" /\ ~ wt.reg
       IN  /\ take \/ stranded \/ junk
           /\ wipe' = [pc |-> "remove", force |-> force, take |-> take, residue |-> junk,
                       names |-> (IF take THEN {wt.on} ELSE {}) \cup
                                 (IF stranded THEN {"plan"} ELSE {})]
    /\ UNCHANGED <<origin, local, track, main, pr, learn, wt, run, land, bounds>>

\* The removal pool; a refusal takes the checkout's branch off the list.
Sweep ==
    /\ wipe.pc = "remove"
    /\ IF wipe.take /\ Removable(wipe.force)
       THEN Removed /\ wipe' = [wipe EXCEPT !.pc = "prune"]
       ELSE /\ wt' = IF wipe.residue THEN NoTree ELSE wt
            /\ wipe' = [wipe EXCEPT !.pc = "prune", !.names = IF wipe.take THEN {} ELSE @]
    /\ UNCHANGED <<origin, local, track, main, pr, learn, run, land, bounds>>

Prune == /\ wipe.pc = "prune" /\ wipe' = [wipe EXCEPT !.pc = "branches"]
         /\ wt' = IF Usable THEN wt ELSE [wt EXCEPT !.reg = FALSE]
         /\ UNCHANGED <<origin, local, track, main, pr, learn, run, land, bounds>>

\* git branch -D, which refuses a branch that is checked out ...
DeleteLocal == /\ wipe.pc = "branches" /\ wipe' = [wipe EXCEPT !.pc = "remote"]
               /\ local' = [b \in Branches |-> IF b \in wipe.names /\ HeldBy(b) = {}
                                               THEN Absent ELSE local[b]]
               /\ UNCHANGED <<origin, track, main, pr, learn, wt, run, land, bounds>>

\* ... and git push --delete of the same names.
DeleteRemote == /\ wipe.pc = "remote" /\ wipe' = NoWipe
                /\ origin' = [b \in Branches |-> IF b \in wipe.names THEN Absent ELSE origin[b]]
                /\ track' = IF "plan" \in wipe.names THEN Absent ELSE track
                /\ UNCHANGED <<local, main, pr, learn, wt, run, land, bounds>>

StopWipe == /\ wipe.pc # "idle" /\ faults < MaxFaults /\ faults' = faults + 1 /\ wipe' = NoWipe
            /\ UNCHANGED <<origin, local, track, main, pr, learn, wt, run, land, ncommit, nlaunch, nmove>>

Next == \/ \E s \in {"implement", "address", "learn"} : Launch(s)
        \/ CreateFresh \/ Probe \/ Forward \/ Attach \/ Bind \/ Mark \/ Setup \/ Exec \/ Crash
        \/ Edit \/ Commit \/ Leave \/ Switch \/ SwitchMain
        \/ \E b \in Branches : Push(b)
        \/ PushElsewhere \/ \E byPerk \in BOOLEAN : Merge(byPerk)
        \/ SetMarker \/ Capture
        \/ Remove \/ \E force \in BOOLEAN : Gather(force)
        \/ Sweep \/ Prune \/ DeleteLocal \/ DeleteRemote \/ StopWipe

Spec == Init /\ [][Next]_vars

-----------------------------------------------------------------------------
TypeOK == /\ \A b \in Branches : /\ local[b] = Absent \/ local[b] \subseteq 1..ncommit
                                 /\ origin[b] = Absent \/ origin[b] \subseteq 1..ncommit
          /\ main \in {"trunk", "plan"} /\ wt.on \in Branches

\* Whatever is pushed, committed or checked out meanwhile, placing a checkout
\* never takes a commit off a local branch (only a wipe deletes branches), and no
\* command removes uncommitted work unless it was forced, or the directory was
\* none of git's (run/launch/worktree.py, _restore_checkout; git.py,
\* worktree_remove).
WorkIsKept ==
    /\ \A b \in Branches : Exists(local[b]) /\ ~ (local[b] \subseteq local'[b])
                              => wipe.pc = "branches" /\ local'[b] = Absent
    /\ Usable /\ wt.dirty /\ wt'.dir # "tree" => wipe.pc = "remove" /\ wipe.force

\* A session runs in a bound checkout whose setup succeeded, however often setup
\* failed before, unless the launcher died between the binding and the marker
\* (run_pending_setup: "a failed setup can never be skipped forever").
SessionIsPrepared == wt.session /\ Usable => wt.bound /\ (wt.ready \/ wt.cut)

\* wipe_cmd.py: "-D: the PR is provably MERGED, so force is safe": what a wipe
\* deletes from the clone was merged.
WipedWasMerged ==
    \A b \in Branches : wipe.pc = "branches" /\ b \in wipe.names /\ Exists(local[b])
                           /\ HeldBy(b) = {} => local[b] \subseteq pr.merged
=============================================================================
