------------------------------- MODULE MCParts -------------------------------
(***************************************************************************)
(* The parts that have no fairness to speak about, each on its own: the    *)
(* initial state chooses one (focus), and the variables of the others      *)
(* stay 0.                                                                 *)
(***************************************************************************)
EXTENDS Naturals, Sequences

VARIABLES focus,
          comments,
          carrier, wire, ev, tries, result, calls,
          pc,
          edits,
          pr,
          nodes, deps, status, canceled, link, cp, pred, hist, cov, stamp, ref, base,
          stack, job, doc, starts,
          road, closed, issues, me, earned, nver,
          origin, local, track, main, learn, wt, run, wipe, land, ncommit, nlaunch,
          nmove, faults,
          top, owner, released, view, lost,
          alive,
          docs, lsrc, mirror, aside, stage, ltree, site, lremote, liblock, lself,
          swept, lcount,
          form, registry, file, settled,
          call,
          tree, head, flagged, ignored, door, manifest, edited

\* A catalogue of comments in which every rule of fold_events has a witness.
Prepared(o, k, l, t, c) ==
    [id |-> o, role |-> "prepared", kind |-> k, lineage |-> l, text |-> t, carrier |-> c]
Outcome(o, r, t) ==
    [id |-> o, role |-> r, kind |-> "", lineage |-> "", text |-> t, carrier |-> "obj1"]
Stamp(h, p, obj, l) ==
    [id |-> h, role |-> "stamp", kind |-> p, lineage |-> l, text |-> obj, carrier |-> "obj1"]
Comments ==
    { Prepared("op1", "sync", "L", "t1", "obj1"),
      Prepared("op1", "sync", "L", "t1", "obj2"),   \* same record, second carrier
      Prepared("op1", "sync", "L", "t2", "obj1"),   \* same key, other payload
      Prepared("op2", "land", "L", "t1", "obj1"),
      Prepared("op2", "land", "F", "t1", "obj1"),   \* foreign lineage
      Outcome("op1", "completed", "t3"),
      Outcome("op1", "completed", "t4"),
      Outcome("op1", "abandoned", "t3"),
      Outcome("op1", "accepted", "t3"),             \* accepted off land
      Outcome("op2", "accepted", "t3"),
      Stamp("h1", "plan1", "obj1", "L"),
      Stamp("h2", "plan1", "obj1", "L"),
      Stamp("h1", "plan1", "obj2", "F") }

\* Of three processes two cannot tell about each other's death (other hosts).
Procs == {"p1", "p2", "p3"}
Apart == { <<"p1", "p3">>, <<"p3", "p1">> }

\* Learned documents: in a cluster, in none, in an undeclared one with a reference, removed.
DocForm(there, cue, cluster, refers) ==
    [there |-> there, front |-> TRUE, cue |-> cue, cluster |-> cluster, raw |-> FALSE,
     large |-> FALSE, distilled |-> FALSE, refers |-> refers]
DocForms == { DocForm(TRUE, "a", "c1", 0), DocForm(TRUE, "b", "none", 0),
              DocForm(TRUE, "b", "c3", 2), DocForm(FALSE, "a", "c1", 0) }
\* No registry, a sound one, one that declares a cluster twice.
ClusterLists == { [is |-> "absent", of |-> <<>>],
                  [is |-> "there", of |-> << [id |-> "c1", rollup |-> "ok"],
                                             [id |-> "c2", rollup |-> "newline"] >>],
                  [is |-> "there", of |-> << [id |-> "c1", rollup |-> "ok"],
                                             [id |-> "c1", rollup |-> "ok"] >>] }

Fold   == INSTANCE JournalStream WITH Catalogue <- Comments, Expected <- "L", MaxComments <- 4
Sole   == INSTANCE TrainPersistence WITH Writers <- {"w1"}, MaxOps <- 2, Heads <- {"h1"},
                                         MaxCalls <- 5, Late <- FALSE
Shared == INSTANCE TrainPersistence WITH Writers <- {"w1", "w2"}, MaxOps <- 1, Heads <- {},
                                         MaxCalls <- 2, Late <- TRUE
Tra    == INSTANCE Train WITH N <- 3, MaxEdits <- 1, MaxStarts <- 2
Pla    == INSTANCE Planning WITH Nodes <- {1, 2}, Deps <- <<{}, {1}>>, Runs <- {1, 2}, Page <- 1,
                                 MaxSaves <- 2, MaxEdits <- 1
Che    == INSTANCE Checkout WITH MaxCommits <- 2, MaxLaunches <- 2, MaxFaults <- 1, MaxMoves <- 2
Own    == INSTANCE OwnerLock WITH None <- "none", Sees <- (Procs \X Procs) \ Apart, MaxEpoch <- 2
Lib    == INSTANCE Library WITH src <- lsrc, tree <- ltree, remote <- lremote, lock <- liblock,
                                self <- lself, count <- lcount, Proc <- {1, 2}, Slots <- {1, 2},
                                MaxCommands <- 3, MaxFaults <- 2, MaxMoves <- 1
Doc    == INSTANCE LearnedDocs WITH Docs <- {1, 2}, Forms <- DocForms, Registries <- ClusterLists,
                                    Syncs <- {1, 2}, Budget <- 3, MaxEdits <- 1, MaxLen <- 5
Dre    == INSTANCE DreamDoor WITH Docs <- {1, 2}, Sessions <- {1}, MaxLane <- 1, MaxEvents <- 2

shasolOnly == <<carrier, wire, ev, tries, result, calls>>
traOnly == <<nodes, deps, status, canceled, link, cp, pred, hist, cov, stamp, ref, base, stack,
             job, doc, starts>>
plaOnly == <<road, closed, issues, me, earned, nver>>
cheOnly == <<origin, local, track, main, learn, wt, run, wipe, land, ncommit, nlaunch, nmove,
             faults>>
ownOnly == <<top, owner, released, view, lost>>
libOnly == <<docs, lsrc, mirror, aside, stage, ltree, site, lremote, liblock, lself, swept,
             lcount>>
docOnly == <<form, registry, file, settled>>
dreOnly == <<tree, head, flagged, ignored, door, manifest, edited>>
vars == <<focus, comments, shasolOnly, pc, edits, pr, traOnly, plaOnly, cheOnly, ownOnly,
          alive, libOnly, docOnly, call, dreOnly>>

NoShasol == /\ carrier = 0 /\ wire = 0 /\ ev = 0 /\ tries = 0 /\ result = 0 /\ calls = 0
NoTra == /\ nodes = 0 /\ deps = 0 /\ status = 0 /\ canceled = 0 /\ link = 0 /\ cp = 0
         /\ pred = 0 /\ hist = 0 /\ cov = 0 /\ stamp = 0 /\ ref = 0 /\ base = 0 /\ stack = 0
         /\ job = 0 /\ doc = 0 /\ starts = 0
NoPla == /\ road = 0 /\ closed = 0 /\ issues = 0 /\ me = 0 /\ earned = 0 /\ nver = 0
NoChe == /\ origin = 0 /\ local = 0 /\ track = 0 /\ main = 0 /\ learn = 0 /\ wt = 0 /\ run = 0
         /\ wipe = 0 /\ land = 0 /\ ncommit = 0 /\ nlaunch = 0 /\ nmove = 0 /\ faults = 0
NoOwn == /\ top = 0 /\ owner = 0 /\ released = 0 /\ view = 0 /\ lost = 0
NoLib == /\ docs = 0 /\ lsrc = 0 /\ mirror = 0 /\ aside = 0 /\ stage = 0 /\ ltree = 0
         /\ site = 0 /\ lremote = 0 /\ liblock = 0 /\ lself = 0 /\ swept = 0 /\ lcount = 0
NoDoc == /\ form = 0 /\ registry = 0 /\ file = 0 /\ settled = 0
NoDre == /\ tree = 0 /\ head = 0 /\ flagged = 0 /\ ignored = 0 /\ door = 0 /\ manifest = 0
         /\ edited = 0

Init == \/ /\ focus = "fold" /\ Fold!StreamInit /\ NoShasol /\ pc = 0 /\ edits = 0 /\ pr = 0 /\ NoTra
           /\ NoPla /\ NoChe /\ NoOwn /\ alive = 0 /\ NoLib /\ NoDoc /\ call = 0 /\ NoDre
        \/ /\ focus = "sole" /\ Sole!Init /\ comments = 0 /\ edits = 0 /\ pr = 0 /\ NoTra
           /\ NoPla /\ NoChe /\ NoOwn /\ alive = 0 /\ NoLib /\ NoDoc /\ call = 0 /\ NoDre
        \/ /\ focus = "shared" /\ Shared!Init /\ comments = 0 /\ edits = 0 /\ pr = 0 /\ NoTra
           /\ NoPla /\ NoChe /\ NoOwn /\ alive = 0 /\ NoLib /\ NoDoc /\ call = 0 /\ NoDre
        \/ /\ focus = "train" /\ Tra!Init /\ comments = 0 /\ NoShasol /\ pc = 0 /\ NoPla
           /\ NoChe /\ NoOwn /\ alive = 0 /\ NoLib /\ NoDoc /\ call = 0 /\ NoDre
        \/ /\ focus = "planning" /\ Pla!Init /\ comments = 0 /\ NoShasol /\ pc = 0 /\ pr = 0
           /\ NoTra /\ NoChe /\ NoOwn /\ alive = 0 /\ NoLib /\ NoDoc /\ call = 0 /\ NoDre
        \/ /\ focus = "checkout" /\ Che!Init /\ comments = 0 /\ NoShasol /\ pc = 0 /\ edits = 0
           /\ NoTra /\ NoPla /\ NoOwn /\ alive = 0 /\ NoLib /\ NoDoc /\ call = 0 /\ NoDre
        \/ /\ focus = "owner" /\ Own!Init /\ comments = 0 /\ NoShasol /\ edits = 0 /\ pr = 0
           /\ NoTra /\ NoPla /\ NoChe /\ NoLib /\ NoDoc /\ call = 0 /\ NoDre
        \/ /\ focus = "library" /\ Lib!Init /\ comments = 0 /\ NoShasol /\ pc = 0 /\ edits = 0
           /\ pr = 0 /\ NoTra /\ NoPla /\ NoChe /\ NoOwn /\ alive = 0 /\ NoDoc /\ call = 0
           /\ NoDre
        \/ /\ focus = "docs" /\ Doc!Init /\ comments = 0 /\ NoShasol /\ pc = 0 /\ pr = 0
           /\ NoTra /\ NoPla /\ NoChe /\ NoOwn /\ alive = 0 /\ NoLib /\ NoDre
        \/ /\ focus = "dream" /\ Dre!Init /\ comments = 0 /\ NoShasol /\ pc = 0 /\ edits = 0
           /\ pr = 0 /\ NoTra /\ NoPla /\ NoChe /\ NoOwn /\ alive = 0 /\ NoLib /\ NoDoc
           /\ call = 0

Next == \/ /\ focus = "fold" /\ Fold!StreamNext
           /\ UNCHANGED <<focus, shasolOnly, pc, edits, pr, traOnly, plaOnly, cheOnly, ownOnly,
                          alive, libOnly, docOnly, call, dreOnly>>
        \/ /\ focus = "sole" /\ Sole!Next
           /\ UNCHANGED <<focus, comments, edits, pr, traOnly, plaOnly, cheOnly, ownOnly,
                          alive, libOnly, docOnly, call, dreOnly>>
        \/ /\ focus = "shared" /\ Shared!Next
           /\ UNCHANGED <<focus, comments, edits, pr, traOnly, plaOnly, cheOnly, ownOnly,
                          alive, libOnly, docOnly, call, dreOnly>>
        \/ /\ focus = "train" /\ Tra!Next
           /\ UNCHANGED <<focus, comments, shasolOnly, pc, plaOnly, cheOnly, ownOnly, alive,
                          libOnly, docOnly, call, dreOnly>>
        \/ /\ focus = "planning" /\ Pla!Next
           /\ UNCHANGED <<focus, comments, shasolOnly, pc, pr, traOnly, cheOnly, ownOnly,
                          alive, libOnly, docOnly, call, dreOnly>>
        \/ /\ focus = "checkout" /\ Che!Next
           /\ UNCHANGED <<focus, comments, shasolOnly, pc, edits, traOnly, plaOnly, ownOnly,
                          alive, libOnly, docOnly, call, dreOnly>>
        \/ /\ focus = "owner" /\ Own!Next
           /\ UNCHANGED <<focus, comments, shasolOnly, edits, pr, traOnly, plaOnly, cheOnly,
                          libOnly, docOnly, call, dreOnly>>
        \/ /\ focus = "library" /\ Lib!Next
           /\ UNCHANGED <<focus, comments, shasolOnly, pc, edits, pr, traOnly, plaOnly,
                          cheOnly, ownOnly, alive, docOnly, call, dreOnly>>
        \/ /\ focus = "docs" /\ Doc!Next
           /\ UNCHANGED <<focus, comments, shasolOnly, pc, pr, traOnly, plaOnly, cheOnly,
                          ownOnly, alive, libOnly, dreOnly>>
        \/ /\ focus = "dream" /\ Dre!Next
           /\ UNCHANGED <<focus, comments, shasolOnly, pc, edits, pr, traOnly, plaOnly,
                          cheOnly, ownOnly, alive, libOnly, docOnly, call>>

Spec == Init /\ [][Next]_vars

-----------------------------------------------------------------------------
TypeOK == /\ focus = "sole"     => Sole!TypeOK
          /\ focus = "train"    => Tra!TypeOK
          /\ focus = "planning" => Pla!TypeOK
          /\ focus = "checkout" => Che!TypeOK
          /\ focus = "docs"     => Doc!TypeOK

\* The fold agrees with the set of the comments (journal.py, fold_events).
FoldIsOrderFree == focus = "fold" => Fold!FoldIsOrderFree

\* A conclusion is final for every reader, a contradiction is never repaired by appending,
\* and a repeated stamp never overtakes a newer one (journal.py, fold_events,
\* latest_ready_stamp).
FoldOnlyHardens == [][focus = "fold" => /\ Fold!ResolvedIsFinal
                                        /\ Fold!ContradictionIsPermanent
                                        /\ Fold!RestampNeverOvertakes]_vars

\* One writer keeps the journal readable, with at most one unresolved operation
\* (persistence.py, append_prepared); two never orphan an outcome.
SoleWriterCoherent == /\ focus = "sole" => Sole!SoleWriterCoherent
                      /\ focus = "shared" => Shared!OnlyRacesCorrupt

\* A node is called ready only on a sound prefix (train.py, next-layer readiness).
\* A canceled node with work stays a layer (reconstruct_train).
TrainIsSound == focus = "train" => Tra!ReadyIsSound /\ Tra!CanceledWorkStaysVisible


\* A run never has two open plan issues (plans.py, find_plan_issue).
OnePlanPerRun == focus = "planning" => Pla!OnePlanPerRun

\* An objective is closed only when its nodes were done (finalize.py, state_aware_close).
ClosedWasEarned == focus = "planning" => Pla!ClosedWasEarned

\* A session starts in a checkout that was prepared (run/launch, run_pending_setup).
SessionIsPrepared == focus = "checkout" => Che!SessionIsPrepared

\* Placing a checkout takes no commit off a branch, and uncommitted work goes only
\* when it was told to (run/launch/worktree.py, _restore_checkout; git.py,
\* worktree_remove).  What people wrote around the generated part of a file is kept
\* (learn/docs_sync.py, render_with_markers).
WorkIsKept == [][/\ focus = "checkout" => Che!WorkIsKept
                 /\ focus = "docs" => Doc!UserTextKept]_vars

\* A durable store has one live owner (ownerLock.ts, acquireOwnerLock).
OneHolder == focus = "owner" => Own!OneOwner

\* The catalogued revision and clone are on disk, each written by one crawl (library/ops.py,
\* _commit_publish; source.py, add_source).  What docs-sync wrote satisfies docs-check,
\* and then every learned document is routed once (learn/docs_sync.py, check_docs).
\* The manifest of a dream is the corpus of its commit (dream_cmd.py, gather).
DocsHold == /\ focus = "library" => Lib!LibraryHolds
            /\ focus = "docs" => Doc!SyncSettles /\ Doc!EveryDocRouted
            /\ focus = "dream" => Dre!ManifestIsCommit

\* No late answer of an older probe clears a drift (library/check.py, _apply).
DriftIsNotForgotten == [][focus = "library" => Lib!DriftIsNotForgotten]_vars
=============================================================================
