---------------------------- MODULE Continuation ----------------------------
(***************************************************************************)
(* A base cascade that stops at a rebase conflict (sync.py, continuation.  *)
(* py, the orphan sweep of recover.py): the retained worktree, temp refs   *)
(* and manifest on this machine, and the commands that go on from them.    *)
(* The journal is shown only as far as it decides what they may do; module *)
(* StackSync has the machines, the checkpoints and the records.            *)
(*                                                                         *)
(* A commit is <<v, p>>: its own name v and the name p of the commit it    *)
(* stands on.  A name is <<maker, layer>>: the operation or the pusher     *)
(* that made it and the layer it was made for, which is 0 on the base.     *)
(***************************************************************************)
EXTENDS Integers

CONSTANTS N,         \* affected layers, the whole train
          MaxOps,    \* bound: operation ids minted
          MaxEdits,  \* bound: out-of-band pushes and damaged manifests
          MaxFaults  \* bound: crashes and failed file-system writes

VARIABLES ref,     \* ref[l]: remote head of layer l
          base,    \* remote head of the objective base
          cp,      \* cp[l]: checkpointed head
          op,      \* op[o]: journal state and after-set of operation o
          man,     \* the lineage's continuation manifest
          wt,      \* wt[o]: the isolated worktree of operation o
          tref,    \* tref[o]: layers whose candidate temp ref exists, at its commit
          nops, me,
          failed,  \* the last --continue could not rewrite the manifest
          edits, faults

vars == <<ref, base, cp, op, man, wt, tref, nops, me, failed, edits, faults>>
world == <<ref, base, cp>>

Layers == 1..N
Names  == Nat \X (0..N)
Ops    == 1..MaxOps
NoEdge == <<0, -1>>
None   == <<NoEdge, NoEdge>>
Nothing == [l \in Layers |-> None]

NoJob == [op |-> 0, base |-> NoEdge, before |-> Nothing, newp |-> [l \in Layers |-> NoEdge],
          cand |-> Nothing]
NoMan == [st |-> "none", job |-> NoJob]
Gone  == [st |-> "gone", head |-> None, layer |-> 0, onto |-> NoEdge]
Idle  == [pc |-> "idle", cmd |-> "none", job |-> NoJob, at |-> 0]
NoOp  == [st |-> "none", before |-> Nothing, after |-> Nothing, base |-> NoEdge]

\* A published train whose base has advanced.
Init == /\ ref = [l \in Layers |-> << <<0, l>>, <<0, l - 1>> >>] /\ cp = ref
        /\ base = <<1, 0>>
        /\ op = [o \in Ops |-> NoOp] /\ man = NoMan
        /\ wt = [o \in Ops |-> Gone] /\ tref = [o \in Ops |-> Nothing]
        /\ nops = 0 /\ me = Idle /\ failed = FALSE /\ edits = 0 /\ faults = 0

-----------------------------------------------------------------------------
Fault  == faults < MaxFaults /\ faults' = faults + 1
Goto(pc) == me' = [me EXCEPT !.pc = pc]
Quit   == me' = Idle
Unresolved == {o \in Ops : op[o].st = "prepared"}
AllAfter(o)  == ref = op[o].after
AllBefore(o) == ref = op[o].before /\ ref # op[o].after
Cleaned(o) == /\ wt' = [wt EXCEPT ![o] = Gone] /\ tref' = [tref EXCEPT ![o] = Nothing]
Lowest(S)  == CHOOSE x \in S : \A y \in S : x <= y
Edge(j, l) == IF l = 1 THEN j.base ELSE j.cand[l - 1][1]

Begin(c) == /\ me.pc = "idle"
            /\ me' = [Idle EXCEPT !.pc = "start", !.cmd = c]
            /\ UNCHANGED <<world, op, man, wt, tref, nops, failed, edits, faults>>

\* _synchronize: the continuation gate, then the journal, then a fresh cascade.
Synchronize ==
    /\ me.pc = "start" /\ me.cmd = "sync"
    /\ \/ man.st # "none" /\ Quit /\ UNCHANGED <<op, nops, wt>>
       \/ /\ man.st = "none" /\ Unresolved # {}
          /\ \E o \in Unresolved :
               \/ /\ AllAfter(o)
                  /\ me' = [me EXCEPT !.pc = "complete", !.cmd = "resume", !.job.op = o]
                  /\ UNCHANGED op
               \/ AllBefore(o) /\ op' = [op EXCEPT ![o].st = "abandoned"] /\ UNCHANGED me
               \/ ~ AllAfter(o) /\ ~ AllBefore(o) /\ Quit /\ UNCHANGED op
          /\ UNCHANGED <<nops, wt>>
       \/ /\ man.st = "none" /\ Unresolved = {}
          /\ IF ref = cp /\ base # ref[1][2] /\ nops < MaxOps
             THEN /\ nops' = nops + 1
                  /\ me' = [me EXCEPT !.pc = "calculate", !.at = 1,
                              !.job = [NoJob EXCEPT !.op = nops + 1, !.base = base,
                                                    !.before = ref]]
                  /\ wt' = [wt EXCEPT ![nops + 1] = [Gone EXCEPT !.st = "clean",
                                                                 !.head = ref[1]]]
             ELSE Quit /\ UNCHANGED <<nops, wt>>
          /\ UNCHANGED op
    /\ UNCHANGED <<world, man, tref, failed, edits, faults>>

\* One candidate: rebased cleanly into its temp ref, and in a continued
\* operation recorded in the manifest; or a conflict, which is retained under
\* the manifest.  A failed write cleans the residue of a fresh cascade and
\* leaves the previous manifest of a continued one.
Calculate ==
    LET j == me.job
        l == me.at
        c == << <<j.op, l>>, Edge(j, l) >>
        done == [j EXCEPT !.newp[l] = Edge(j, l), !.cand[l] = c]
        stop == [j EXCEPT !.newp[l] = Edge(j, l)]
        cont == me.cmd = "continue"
    IN  /\ me.pc = "calculate"
        /\ \/ /\ tref' = [tref EXCEPT ![j.op][l] = c]
              /\ wt' = [wt EXCEPT ![j.op] = [Gone EXCEPT !.st = "clean", !.head = c]]
              /\ \/ /\ me' = [me EXCEPT !.job = done, !.at = l + 1,
                                !.pc = IF l = N THEN "approve" ELSE "calculate"]
                    /\ man' = IF cont THEN [st |-> "ok", job |-> done] ELSE man
                    /\ UNCHANGED <<failed, faults>>
                 \/ cont /\ Fault /\ failed' = TRUE /\ Quit /\ UNCHANGED man
           \/ /\ wt' = [wt EXCEPT ![j.op] = [st |-> "rebasing", head |-> j.before[l],
                                             layer |-> l, onto |-> Edge(j, l)]]
              /\ man' = [st |-> "ok", job |-> stop]
              /\ Quit /\ UNCHANGED <<tref, failed, faults>>
           \/ /\ Fault /\ Quit /\ UNCHANGED man
              /\ IF cont
                 THEN /\ wt' = [wt EXCEPT ![j.op] = [st |-> "rebasing", head |-> j.before[l],
                                                     layer |-> l, onto |-> Edge(j, l)]]
                      /\ failed' = TRUE /\ UNCHANGED tref
                 ELSE Cleaned(j.op) /\ UNCHANGED failed
        /\ UNCHANGED <<world, op, nops, edits>>

\* The human finishes the retained rebase, aborts it, or leaves edits behind.
Resolve == \E o \in Ops :
    /\ wt[o].st = "rebasing"
    /\ \/ wt' = [wt EXCEPT ![o] = [Gone EXCEPT !.st = "clean",
                    !.head = << <<o, wt[o].layer>>, wt[o].onto >>]]
       \/ wt' = [wt EXCEPT ![o] = [Gone EXCEPT !.st = "clean", !.head = wt[o].head]]
       \/ wt' = [wt EXCEPT ![o].st = "dirty"]
    /\ UNCHANGED <<world, op, man, tref, nops, me, failed, edits, faults>>

Missing(j) == {l \in Layers : j.cand[l] = None}

\* Mutant of Resumable: a clean worktree is taken for a finished rebase.
CleanIsFinished(j) ==
    /\ \A l \in Layers : j.cand[l] # None => tref[j.op][l] = j.cand[l]
    /\ Missing(j) # {} => /\ wt[j.op].st = "clean"
                          /\ j.newp[Lowest(Missing(j))] # NoEdge

\* Step 3 of --continue, the resume point: what is recorded still resolves, and
\* the finished rebase of the pending layer contains its recorded parent.
Resumable(j) ==
    /\ \A l \in Layers : j.cand[l] # None => tref[j.op][l] = j.cand[l]
    /\ Missing(j) # {} =>
         LET p == Lowest(Missing(j))
         IN  /\ wt[j.op].st = "clean"
             /\ j.newp[p] # NoEdge /\ wt[j.op].head[2] = j.newp[p]

\* Step 4: the world the conflict stopped in is still the world.
Unmoved(j) == cp = j.before /\ ref = j.before /\ base = j.base

Continue ==
    LET j == man.job
    IN  /\ me.pc = "start" /\ me.cmd = "continue"
        /\ IF man.st = "ok" /\ Resumable(j) /\ Unmoved(j)
           THEN IF Missing(j) = {}
                THEN me' = [me EXCEPT !.pc = "approve", !.job = j] /\ UNCHANGED <<tref>>
                ELSE LET p == Lowest(Missing(j))
                     IN  /\ tref' = [tref EXCEPT ![j.op][p] = wt[j.op].head]
                         /\ me' = [me EXCEPT !.pc = "record", !.at = p,
                                     !.job = [j EXCEPT !.cand[p] = wt[j.op].head]]
           ELSE Quit /\ UNCHANGED tref
        /\ UNCHANGED <<world, op, man, wt, nops, failed, edits, faults>>

\* Step 5: the resolved candidate is written down before the next one.
Record == /\ me.pc = "record"
          /\ \/ /\ man' = [st |-> "ok", job |-> me.job]
                /\ me' = [me EXCEPT !.at = me.at + 1,
                            !.pc = IF me.at = N THEN "approve" ELSE "calculate"]
                /\ failed' = FALSE /\ UNCHANGED faults
             \/ Fault /\ failed' = TRUE /\ Quit /\ UNCHANGED man
          /\ UNCHANGED <<world, op, wt, tref, nops, edits>>

\* Steps 6 and 7: a declined or drifted fresh cascade is cleaned, a continued
\* one is retained.
Approve == /\ me.pc = "approve"
           /\ \/ Goto("reobserve") /\ UNCHANGED <<wt, tref>>
              \/ /\ Quit
                 /\ IF me.cmd = "continue" THEN UNCHANGED <<wt, tref>> ELSE Cleaned(me.job.op)
           /\ UNCHANGED <<world, op, man, nops, failed, edits, faults>>

Reobserve == /\ me.pc = "reobserve"
             /\ IF ref = cp /\ base = me.job.base
                THEN Goto("prepare") /\ UNCHANGED <<wt, tref>>
                ELSE /\ Quit
                     /\ IF me.cmd = "continue" THEN UNCHANGED <<wt, tref>>
                        ELSE Cleaned(me.job.op)
             /\ UNCHANGED <<world, op, man, nops, failed, edits, faults>>

\* Mutant of Admits: only another unresolved operation blocks the append.
AdmitsAgain(o) == Unresolved \subseteq {o}

\* append_prepared: an operation id is journaled once.
Admits(o) == op[o].st = "none" /\ Unresolved = {}

Prepare ==
    LET o == me.job.op
    IN  /\ me.pc = "prepare"
        /\ IF Admits(o)
           THEN /\ op' = [op EXCEPT ![o] = [st |-> "prepared", before |-> me.job.before,
                                            after |-> me.job.cand, base |-> me.job.base]]
                /\ Goto(IF me.cmd = "continue" THEN "retire" ELSE "push")
                /\ UNCHANGED <<wt, tref>>
           ELSE /\ Quit /\ UNCHANGED op
                /\ IF me.cmd = "continue" THEN UNCHANGED <<wt, tref>> ELSE Cleaned(o)
        /\ UNCHANGED <<world, man, nops, failed, edits, faults>>

\* The manifest is retired once the record is durable; a failed deletion is a
\* note.
Retire == /\ me.pc = "retire" /\ Goto("push")
          /\ \/ man' = NoMan /\ UNCHANGED faults
             \/ Fault /\ UNCHANGED man
          /\ UNCHANGED <<world, op, wt, tref, nops, failed, edits>>

\* One atomic push under the exact leases; every exit cleans the residue.
Push == LET o == me.job.op
        IN  /\ me.pc = "push"
            /\ IF ref = op[o].before
               THEN ref' = op[o].after /\ Goto("complete") /\ UNCHANGED <<wt, tref>>
               ELSE Quit /\ Cleaned(o) /\ UNCHANGED ref
            /\ UNCHANGED <<base, cp, op, man, nops, failed, edits, faults>>

\* _verify_postconditions, _persist_completion, then the cleanup of this
\* command's own residue, or recover's sweep.
Complete == LET o == me.job.op
            IN  /\ me.pc = "complete"
                /\ IF AllAfter(o)
                   THEN cp' = op[o].after /\ op' = [op EXCEPT ![o].st = "completed"]
                   ELSE UNCHANGED <<cp, op>>
                /\ IF me.cmd \in {"sync", "continue"} THEN Cleaned(o)
                   ELSE UNCHANGED <<wt, tref>>
                /\ IF me.cmd = "recover" THEN Goto("sweep") ELSE Quit
                /\ UNCHANGED <<ref, base, man, nops, failed, edits, faults>>

\* Mutant of Abort: nothing is discarded when the residue is incomplete.
AbortWhole == /\ me.pc = "start" /\ me.cmd = "abort"
              /\ IF man.st = "ok" /\ wt[man.job.op].st = "gone"
                 THEN Quit /\ UNCHANGED <<wt, tref>>
                 ELSE /\ IF man.st = "ok" THEN Cleaned(man.job.op) ELSE UNCHANGED <<wt, tref>>
                      /\ Goto("clear")
              /\ UNCHANGED <<world, op, man, nops, failed, edits, faults>>

\* _abort: the residue that the manifest names, then the manifest.
Abort == /\ me.pc = "start" /\ me.cmd = "abort"
         /\ IF man.st = "ok" THEN Cleaned(man.job.op) ELSE UNCHANGED <<wt, tref>>
         /\ Goto("clear")
         /\ UNCHANGED <<world, op, man, nops, failed, edits, faults>>

Clear == /\ me.pc = "clear" /\ Quit /\ failed' = FALSE
         /\ \/ man' = NoMan /\ UNCHANGED faults
            \/ man.st # "none" /\ Fault /\ UNCHANGED man
         /\ UNCHANGED <<world, op, wt, tref, nops, edits>>

\* Mutant of Swept: the manifest protects nothing.
SweptBare == Ops

\* observe_orphans: the residue that no manifest protects, nothing when one
\* cannot be read.
Swept == CASE man.st = "junk" -> {}
           [] man.st = "ok"   -> Ops \ {man.job.op}
           [] OTHER           -> Ops

\* recover --abandon: conclude, then sweep.
Recover ==
    /\ me.pc = "start" /\ me.cmd = "recover"
    /\ \/ \E o \in Unresolved :
            \/ AllAfter(o) /\ me' = [me EXCEPT !.pc = "complete", !.job.op = o]
               /\ UNCHANGED op
            \/ AllBefore(o) /\ op' = [op EXCEPT ![o].st = "abandoned"] /\ Goto("sweep")
            \/ ~ AllAfter(o) /\ ~ AllBefore(o) /\ Quit /\ UNCHANGED op
       \/ Unresolved = {} /\ Goto("sweep") /\ UNCHANGED op
    /\ UNCHANGED <<world, man, wt, tref, nops, failed, edits, faults>>

Sweep == /\ me.pc = "sweep" /\ Quit
         /\ wt' = [o \in Ops |-> IF o \in Swept THEN Gone ELSE wt[o]]
         /\ tref' = [o \in Ops |-> IF o \in Swept THEN Nothing ELSE tref[o]]
         /\ UNCHANGED <<world, op, man, nops, failed, edits, faults>>

\* Somebody pushes to the base or to a branch, or damages the manifest.
Meddle == /\ edits < MaxEdits /\ edits' = edits + 1
          /\ \/ base' = <<base[1] + 1, 0>> /\ UNCHANGED <<ref, man>>
             \/ \E l \in Layers : /\ ref' = [ref EXCEPT ![l] = << <<MaxOps + 1 + edits, l>>, ref[l][2] >>]
                                  /\ UNCHANGED <<base, man>>
             \/ /\ man.st = "ok" /\ man' = [st |-> "junk", job |-> NoJob]
                /\ UNCHANGED <<ref, base>>
          /\ UNCHANGED <<cp, op, wt, tref, nops, me, failed, faults>>

Crash == /\ me.pc # "idle" /\ Fault /\ Quit
         /\ UNCHANGED <<world, op, man, wt, tref, nops, failed, edits>>

Work == \/ Synchronize \/ Calculate \/ Continue \/ Record \/ Approve \/ Reobserve \/ Prepare
        \/ Retire \/ Push \/ Complete \/ Abort \/ Clear \/ Recover \/ Sweep

Next == \/ Work \/ Resolve \/ Meddle \/ Crash
        \/ \E c \in {"sync", "continue", "abort", "recover"} : Begin(c)

Spec == Init /\ [][Next]_vars

\* A command goes on to its end, and the remedies the refusals name are tried.
Fairness == WF_vars(Work) /\ SF_vars(Begin("abort")) /\ SF_vars(Begin("recover"))

-----------------------------------------------------------------------------
TypeOK == /\ \A l \in Layers : ref[l] \in Names \X Names /\ cp[l] \in Names \X Names
          /\ man.st \in {"none", "ok", "junk"} /\ nops \in 0..MaxOps
          /\ \A o \in Ops : /\ op[o].st \in {"none", "prepared", "completed", "abandoned"}
                            /\ wt[o].st \in {"gone", "clean", "dirty", "rebasing"}

\* What is journaled, after any number of conflicts, aborted rebases, failed
\* writes and restarts, is a linear suffix on the captured base: every layer's
\* candidate is its own and stands on the candidate below.
JournaledSuffixIsLinear ==
    \A o \in Ops : op[o].st # "none" =>
        /\ op[o].after[1][2] = op[o].base
        /\ \A l \in Layers : /\ op[o].after[l][1][2] = l
                             /\ l > 1 => op[o].after[l][2] = op[o].after[l - 1][1]

\* A concluded operation is never prepared again, also when a restart left its
\* manifest beside its record.
ConcludedOnce ==
    \A o \in Ops : op[o].st \in {"completed", "abandoned"} => op'[o].st = op[o].st

\* A retained conflict is whole: unless something failed, the worktree and the
\* candidates that the manifest names are there until it is aborted or journaled,
\* whatever recover sweeps meanwhile.
RetainedIsWhole ==
    (faults = 0 /\ man.st = "ok" /\ me.pc # "clear" /\ op[man.job.op].st = "none") =>
        /\ wt[man.job.op].st # "gone"
        /\ \A l \in Layers : man.job.cand[l] # None => tref[man.job.op][l] = man.job.cand[l]

\* What the message of a failed rewrite says: "the previous snapshot stays
\* retained", finish the rebase and rerun --continue.
RewriteFailureContinues ==
    (failed /\ edits = 0 /\ man.st = "ok" /\ me.pc = "idle" /\ Missing(man.job) # {}) =>
        LET p == Lowest(Missing(man.job))
        IN  wt[man.job.op].head = << <<man.job.op, p>>, Edge(man.job, p) >>
              /\ wt[man.job.op].st = "clean"
            => Resumable(man.job)
=============================================================================
