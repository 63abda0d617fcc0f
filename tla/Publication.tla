----------------------------- MODULE Publication -----------------------------
(***************************************************************************)
(* Publishing a layer of the train (publish.py): the journaled push, pull  *)
(* request and native-stack registration of one layer, its resumption      *)
(* after a crash, and recover --abandon of its record (recover.py).        *)
(*                                                                         *)
(* Publication acquires no operation lock, and the lock of a recovery      *)
(* excludes neither a submit nor another machine: any number of commands   *)
(* run at once, and what arbitrates is the journal's gate and the push     *)
(* lease.  A command works on one reconstruction of the train, taken when  *)
(* it starts, and each later read of it is a step of its own.              *)
(*                                                                         *)
(* A commit <<n, m>> is the n-th one made; it contains the head of the     *)
(* parent branch that was the m-th one (0: the objective base).  Commits   *)
(* above MaxLocal are pushed out of band.                                  *)
(***************************************************************************)
EXTENDS Naturals, FiniteSets

CONSTANTS Procs,      \* commands that may run at once
          N,          \* layers
          MaxOps,     \* bound: PUBLISH operations
          MaxLocal,   \* bound: local commits made by the implementer
          MaxEdits,   \* bound: out-of-band pushes and pull-request changes
          MaxFaults   \* bound: crashes and failed calls

VARIABLES ref,      \* ref[l]: the remote head of layer l's branch
          local,    \* local[l]: the local head
          pr,       \* pr[l]: state and base of the layer's pull request
          stack,    \* the members 1..stack of the native stack (0: none)
          header,   \* layers whose plan header names their pull request
          cp,       \* cp[l]: the checkpoint pair
          op, nops, \* the journal's PUBLISH records
          made,     \* local commits made so far
          me,       \* me[p]: the command that p runs
          lost,     \* foreign commits that a republication has overwritten
          crossed,  \* operations that two commands, or a new commit, have crossed
          edits, faults

vars == <<ref, local, pr, stack, header, cp, op, nops, made, me, lost, crossed, edits, faults>>
remote  == <<ref, pr, stack, lost>>
stored  == <<header, cp>>
journal == <<op, nops, crossed>>
rest    == <<local, made, edits>>

Layers == 1..N
Ops    == 1..MaxOps
Absent == <<0, 0>>
NoPr   == [st |-> "none", base |-> "parent"]
OpenPr == [st |-> "OPEN", base |-> "parent"]
NoPair == [parent |-> 0, head |-> Absent]
Foreign(c) == c[1] > MaxLocal

NoOp == [st |-> "none", layer |-> 0, before |-> Absent, after |-> Absent,
         pr |-> NoPr, stack |-> 0, republish |-> FALSE]
Idle == [pc |-> "idle", cmd |-> "none", layer |-> 0, route |-> "none", named |-> FALSE,
         below |-> FALSE, again |-> FALSE, op |-> 0, parent |-> 0, before |-> Absent,
         cand |-> Absent, pr |-> NoPr, stack |-> 0]

Init == /\ ref = [l \in Layers |-> Absent] /\ local = [l \in Layers |-> Absent]
        /\ pr = [l \in Layers |-> NoPr] /\ stack = 0
        /\ header = {} /\ cp = [l \in Layers |-> NoPair]
        /\ op = [o \in Ops |-> NoOp] /\ nops = 0 /\ crossed = {}
        /\ made = 0 /\ me = [p \in Procs |-> Idle] /\ lost = {} /\ edits = 0 /\ faults = 0

-----------------------------------------------------------------------------
Fault(p) == faults < MaxFaults /\ faults' = faults + 1
Goto(p, pc) == me' = [me EXCEPT ![p].pc = pc]
Quit(p)     == me' = [me EXCEPT ![p] = Idle]
At(p, pc)   == me[p].pc = pc

\* What a fold of the journal says; a record with two outcomes is corruption,
\* and every reader refuses it.
Unresolved == {o \in Ops : op[o].st = "prepared"}
Corrupt    == \E o \in Ops : op[o].st = "both"
First      == CHOOSE o \in Unresolved : \A k \in Unresolved : o <= k

Parent(l) == IF l = 1 THEN 0 ELSE ref[l - 1][1]

\* derive_claimed_prefix: the contiguous layers with a checkpoint pair.
Claimed == {l \in Layers : \A k \in 1..l : cp[k] # NoPair /\ k \in header}

\* _classify_publication and _observe_membership: checkpointed, observed at the
\* checkpoint, open, and in the exact stack once there are two such layers.
Staged == {l \in Layers : cp[l] # NoPair /\ l \in header /\ pr[l].st = "OPEN"}
Exact  == Cardinality(Staged) < 2 \/ Staged = 1..stack
Published(l) == l \in Staged /\ pr[l] = OpenPr /\ ref[l] = cp[l].head /\ Exact

\* The blockers of a reconstruction: a checkpoint that the remote has left, a
\* pull request closed or retargeted, publication without a completed record,
\* broken topology, a gap in the prefix, a divergent stack.
Blocked == \/ ~ Exact \/ Corrupt
           \/ \E l \in Layers :
                \/ cp[l] # NoPair /\ ref[l] # cp[l].head
                \/ l \in header /\ (pr[l].st = "CLOSED" \/ pr[l].base = "stale")
                \/ cp[l] # NoPair /\ ~ \E o \in Ops : op[o].st = "completed" /\ op[o].layer = l
                \/ cp[l] # NoPair /\ l > 1 /\ cp[l - 1] = NoPair
                \/ cp[l] # NoPair /\ l > 1 /\ cp[l].parent # cp[l - 1].head[1]
                \/ Published(l) /\ \E k \in 1..(l - 1) : ~ Published(k)

\* The top of the published prefix (published_prefix_len), and the layer above it.
Top(l)       == (\A k \in 1..l : Published(k)) /\ (l < N => ~ Published(l + 1))
Candidate(l) == ~ Published(l) /\ \A k \in 1..(l - 1) : Published(k)

\* The implementer commits on the head of the parent branch, as fetched.
Commit(l) == /\ made < MaxLocal /\ made' = made + 1
             /\ l > 1 => ref[l - 1] # Absent
             /\ local' = [local EXCEPT ![l] = <<made + 1, Parent(l)>>]
             /\ UNCHANGED <<remote, stored, journal, me, edits, faults>>

Begin(p, c, l) == /\ At(p, "idle")
                  /\ c = "submit" => local[l] # Absent
                  /\ me' = [me EXCEPT ![p] = [Idle EXCEPT !.pc = IF c = "submit" THEN "train"
                                                                 ELSE "select",
                                              !.cmd = c,
                                              !.layer = IF c = "submit" THEN l ELSE 0]]
                  /\ UNCHANGED <<remote, stored, journal, rest, faults>>

-----------------------------------------------------------------------------
\* _route: the reconstruction.  A layer below the top claimed one goes to the
\* suffix synchronization (module StackSync); the rest of the routing is
\* decided by the journal first, and then by what is known here.
Reconstruct(p) ==
    LET l == me[p].layer
    IN  /\ At(p, "train")
        /\ IF l \in Claimed /\ l + 1 \in Claimed THEN Quit(p)
           ELSE me' = [me EXCEPT
                   ![p].pc = "fold", ![p].named = l \in header,
                   ![p].below = 1..(l - 1) \subseteq header,
                   ![p].route = CASE Top(l) /\ ~ Blocked -> "republish"
                                  [] Candidate(l) /\ ~ Blocked /\ Unresolved = {} -> "fresh"
                                  [] OTHER -> "refuse",
                   ![p].before = IF Top(l) /\ ~ Blocked THEN cp[l].head ELSE Absent]
        /\ UNCHANGED <<remote, stored, journal, rest, faults>>

\* _route: an unresolved record of this layer is resumed, once; another one
\* refuses.
Fold(p) ==
    LET l == me[p].layer
    IN  /\ At(p, "fold")
        /\ \/ Corrupt /\ Quit(p)
           \/ /\ ~ Corrupt /\ Unresolved # {}
              /\ IF op[First].layer = l /\ ~ me[p].again /\ me[p].below
                 THEN me' = [me EXCEPT ![p].pc = "resume", ![p].op = First,
                                       ![p].route = "none", ![p].before = Absent]
                 ELSE Quit(p)
           \/ /\ ~ Corrupt /\ Unresolved = {}
              /\ CASE me[p].route = "republish" -> Goto(p, "republish")
                   [] me[p].route = "fresh" -> Goto(p, "observe")
                   [] OTHER -> Quit(p)
        /\ UNCHANGED <<remote, stored, journal, rest, faults>>

\* _observe_own_branch: whatever the branch is at becomes the lease.
Observe(p) == /\ At(p, "observe")
              /\ me' = [me EXCEPT ![p].pc = "parent", ![p].before = ref[me[p].layer]]
              /\ UNCHANGED <<remote, stored, journal, rest, faults>>

\* Mutant of Republish: whatever the remote is at becomes the lease.
TrustRemote(p) ==
    /\ At(p, "republish")
    /\ me' = [me EXCEPT ![p].pc = "parent", ![p].before = ref[me[p].layer]]
    /\ UNCHANGED <<remote, stored, journal, rest, faults>>

\* _republish: the remote must be at the checkpoint, which is the lease; an
\* unchanged layer that is in order needs nothing.
Republish(p) ==
    LET l == me[p].layer
        inOrder == local[l] = me[p].before /\ pr[l] = OpenPr /\ (l > 1 => stack = l)
    IN  /\ At(p, "republish")
        /\ IF ref[l] = me[p].before /\ ~ inOrder THEN Goto(p, "parent") ELSE Quit(p)
        /\ UNCHANGED <<remote, stored, journal, rest, faults>>

\* Mutant of CheckParent: the candidate is not compared with the fresh parent.
AnyParent(p) ==
    LET l == me[p].layer
    IN  /\ me[p].pc \in {"parent", "contains", "retry"}
        /\ me' = [me EXCEPT ![p].parent = Parent(l),
                     ![p].cand = IF At(p, "parent") THEN local[l] ELSE op[me[p].op].after,
                     ![p].pc = CASE At(p, "parent") -> "payload"
                                 [] At(p, "retry") -> "push"
                                 [] OTHER -> "create_pr"]
        /\ UNCHANGED <<remote, stored, journal, rest, faults>>

\* _prepare_parent and the ancestry check: the candidate contains the fresh
\* head of the parent branch.
CheckParent(p) ==
    LET l == me[p].layer
        c == IF At(p, "parent") THEN local[l] ELSE op[me[p].op].after
    IN  /\ me[p].pc \in {"parent", "contains", "retry"}
        /\ IF c[2] = Parent(l)
           THEN me' = [me EXCEPT ![p].parent = Parent(l), ![p].cand = c,
                        ![p].pc = CASE At(p, "parent") -> "payload"
                                    [] At(p, "retry") -> "push"
                                    [] OTHER -> "create_pr"]
           ELSE Quit(p)
        /\ UNCHANGED <<remote, stored, journal, rest, faults>>

\* _before_payload: the pull request, if the train knew its number, and the stack.
Payload(p) ==
    LET l == me[p].layer
    IN  /\ At(p, "payload")
        /\ me' = [me EXCEPT ![p].pc = "gate",
                     ![p].pr = IF me[p].named THEN pr[l] ELSE NoPr,
                     ![p].stack = IF l > 1 THEN stack ELSE 0]
        /\ UNCHANGED <<remote, stored, journal, rest, faults>>

\* append_prepared: the fold that refuses a second unresolved operation ...
Gate(p) == /\ At(p, "gate")
           /\ IF Corrupt \/ Unresolved # {} \/ nops = MaxOps THEN Quit(p) ELSE Goto(p, "prepare")
           /\ UNCHANGED <<remote, stored, journal, rest, faults>>

\* ... and the post, journal first.  Two commands may both have passed the gate.
Prepare(p) ==
    LET o == nops + 1
    IN  /\ At(p, "prepare") /\ nops < MaxOps
        /\ op' = [op EXCEPT ![o] = [st |-> "prepared", layer |-> me[p].layer,
                      before |-> me[p].before, after |-> me[p].cand, pr |-> me[p].pr,
                      stack |-> me[p].stack, republish |-> me[p].route = "republish"]]
        /\ nops' = o
        /\ crossed' = IF Unresolved = {} /\ me[p].named = (me[p].layer \in header)
                      THEN crossed ELSE crossed \cup {o}
        /\ me' = [me EXCEPT ![p].pc = "push", ![p].op = o, ![p].pr = NoPr, ![p].stack = 0,
                            ![p].before = Absent, ![p].route = "none"]
        /\ UNCHANGED <<remote, stored, rest, faults>>

\* Somebody has proved the operation undone and is about to append that.
InHand(o) == \E q \in Procs : /\ me[q].pc \in {"effects", "disown", "abandon"} /\ me[q].op = o
                             /\ (me[q].cmd = "submit" \/ me[q].again)

\* push_with_exact_lease; a branch that is there already is up to date.  What is
\* sent is the local branch.  A rejected push leaves the operation unresolved.
Push(p) ==
    LET o == me[p].op
        l == me[p].layer
        moves == ref[l] = op[o].before /\ ref[l] # local[l]
    IN  /\ At(p, "push")
        /\ IF moves
           THEN /\ ref' = [ref EXCEPT ![l] = local[l]]
                /\ lost' = IF op[o].republish /\ Foreign(ref[l]) THEN lost \cup {ref[l]} ELSE lost
                /\ crossed' = crossed \cup {k \in Ops : op[k].layer = l /\ InHand(k)}
                     \cup (IF op[o].st # "prepared" \/ local[l] # op[o].after THEN {o} ELSE {})
           ELSE UNCHANGED <<ref, lost, crossed>>
        /\ IF moves \/ ref[l] = local[l] THEN Goto(p, "create_pr") ELSE Quit(p)
        /\ UNCHANGED <<pr, stack, stored, op, nops, rest, faults>>

\* create_pr finds the pull request by its head or opens a draft; a closed one
\* is reopened and a stale base converged, a merged one ends the publication.
CreatePr(p) ==
    LET l == me[p].layer
    IN  /\ At(p, "create_pr")
        /\ IF pr[l].st = "MERGED" THEN Quit(p) /\ UNCHANGED pr
           ELSE pr' = [pr EXCEPT ![l] = OpenPr]
                /\ Goto(p, IF l = 1 THEN "verify" ELSE "converge_stack")
        /\ UNCHANGED <<ref, stack, lost, stored, journal, rest, faults>>

\* _converge_stack: already exact, created at the second layer, or appended to
\* the exact prefix; anything else is drift.  The mutation may fail.
ConvergeStack(p) ==
    LET l == me[p].layer
        ready == stack = l - 1 \/ (l = 2 /\ stack = 0)
    IN  /\ At(p, "converge_stack")
        /\ \/ ref[l] = me[p].cand /\ stack = l /\ Goto(p, "verify") /\ UNCHANGED <<stack, faults>>
           \/ /\ ref[l] = me[p].cand /\ stack # l /\ ready
              /\ stack' = l /\ Goto(p, "verify") /\ UNCHANGED faults
           \/ ref[l] = me[p].cand /\ stack # l /\ ready /\ Fault(p) /\ Quit(p) /\ UNCHANGED stack
           \/ /\ ref[l] # me[p].cand \/ (stack # l /\ ~ ready)
              /\ Quit(p) /\ UNCHANGED <<stack, faults>>
        /\ UNCHANGED <<ref, pr, lost, stored, journal, rest>>

\* _verify_postconditions: the full refetch.
Verify(p) ==
    LET l == me[p].layer
    IN  /\ At(p, "verify")
        /\ IF ref[l] = me[p].cand /\ pr[l] = OpenPr /\ (l > 1 => stack = l)
           THEN Goto(p, "identity") ELSE Quit(p)
        /\ UNCHANGED <<remote, stored, journal, rest, faults>>

\* Persist, in this order: identity, checkpoint pair, outcome.  The journal is
\* not read again before the checkpoint is written.
Identity(p) == /\ At(p, "identity") /\ header' = header \cup {me[p].layer}
               /\ Goto(p, "checkpoint")
               /\ UNCHANGED <<remote, cp, journal, rest, faults>>

Checkpoint(p) == /\ At(p, "checkpoint")
                 /\ cp' = [cp EXCEPT ![me[p].layer] = [parent |-> me[p].parent,
                                                       head |-> me[p].cand]]
                 /\ Goto(p, "outcome")
                 /\ UNCHANGED <<remote, header, journal, rest, faults>>

\* append_outcome: the fold that refuses a terminal operation, and the post.
Outcome(p) == /\ At(p, "outcome")
              /\ IF ~ Corrupt /\ op[me[p].op].st = "prepared" THEN Goto(p, "complete") ELSE Quit(p)
              /\ UNCHANGED <<remote, stored, journal, rest, faults>>

\* A second outcome that differs, be it by its time only, is corruption.
Conclude(o, st) ==
    /\ op' = [op EXCEPT ![o].st = IF op[o].st = "prepared" THEN st ELSE "both"]
    /\ crossed' = IF op[o].st = "prepared" THEN crossed ELSE crossed \cup {o}
    /\ UNCHANGED nops

Complete(p) == /\ At(p, "complete") /\ Conclude(me[p].op, "completed") /\ Quit(p)
               /\ UNCHANGED <<remote, stored, rest, faults>>

-----------------------------------------------------------------------------
\* Mutant of Resume: what was pushed is rolled forward only with its pull request.
ResumeVerified(p) ==
    LET o == me[p].op
        l == me[p].layer
    IN  /\ At(p, "resume")
        /\ CASE ref[l] = op[o].after /\ pr[l].st = "OPEN" -> Goto(p, "contains")
             [] ref[l] = op[o].before -> Goto(p, "effects")
             [] OTHER -> Quit(p)
        /\ UNCHANGED <<remote, stored, journal, rest, faults>>

\* _resume, classify_publish_record: the branch is read first.  A submit rolls
\* forward what was pushed; recover never does.
Resume(p) ==
    LET o == me[p].op
        l == op[o].layer
    IN  /\ At(p, "resume")
        /\ CASE ref[l] = op[o].after ->
                  IF me[p].cmd = "submit" THEN Goto(p, "contains") ELSE Quit(p)
             [] ref[l] # op[o].after /\ ref[l] = op[o].before -> Goto(p, "effects")
             [] OTHER -> Quit(p)
        /\ UNCHANGED <<remote, stored, journal, rest, faults>>

\* _require_all_before: then the pull request and the stack.  A submit retries an
\* unchanged candidate and disowns one that moved; recover asks for consent
\* after the first classification and appends after the second.
AllBefore(p) ==
    LET o == me[p].op
        l == op[o].layer
    IN  /\ At(p, "effects")
        /\ CASE pr[l] # op[o].pr \/ (l > 1 /\ stack # op[o].stack) -> Quit(p)
             [] OTHER ->
                  CASE me[p].cmd = "submit" ->
                         Goto(p, IF local[l] = op[o].after THEN "retry" ELSE "disown")
                    [] me[p].again -> Goto(p, "disown")
                    [] OTHER -> me' = [me EXCEPT ![p].pc = "consent"]
        /\ UNCHANGED <<remote, stored, journal, rest, faults>>

Disown(p) == /\ At(p, "disown")
             /\ IF ~ Corrupt /\ op[me[p].op].st = "prepared" THEN Goto(p, "abandon") ELSE Quit(p)
             /\ UNCHANGED <<remote, stored, journal, rest, faults>>

\* The abandoned outcome; a submit starts afresh after it.
Abandon(p) == /\ At(p, "abandon") /\ Conclude(me[p].op, "abandoned")
              /\ IF me[p].cmd = "submit"
                 THEN me' = [me EXCEPT ![p] = [Idle EXCEPT !.pc = "train", !.cmd = "submit",
                                               !.layer = me[p].layer, !.again = TRUE]]
                 ELSE Quit(p)
              /\ UNCHANGED <<remote, stored, rest, faults>>

\* recover --abandon: an unresolved record that agrees with the fresh train.
Select(p) == /\ At(p, "select")
             /\ \/ \E o \in Unresolved :
                     /\ ~ Corrupt /\ 1..(op[o].layer - 1) \subseteq header
                     /\ me' = [me EXCEPT ![p].pc = "resume", ![p].op = o,
                                         ![p].layer = op[o].layer]
                \/ (Corrupt \/ Cardinality(Unresolved) # 1) /\ Quit(p)
                \/ (\E o \in Unresolved : ~ (1..(op[o].layer - 1) \subseteq header)) /\ Quit(p)
             /\ UNCHANGED <<remote, stored, journal, rest, faults>>

\* Mutant of Consent: the proof from before the confirmation is used.
ConsentOnly(p) == /\ At(p, "consent") /\ Goto(p, "disown")
                  /\ UNCHANGED <<remote, stored, journal, rest, faults>>

\* The operator confirms, and the record is classified again.
Consent(p) == /\ At(p, "consent")
              /\ me' = [me EXCEPT ![p].pc = "resume", ![p].again = TRUE]
              /\ UNCHANGED <<remote, stored, journal, rest, faults>>

-----------------------------------------------------------------------------
\* Somebody pushes to a branch, or closes, merges or retargets a pull request.
Meddle(l) ==
    /\ edits < MaxEdits /\ edits' = edits + 1
    /\ \/ /\ ref' = [ref EXCEPT ![l] = <<MaxLocal + edits + 1, Parent(l)>>]
          /\ UNCHANGED pr
       \/ \E o \in Ops : /\ op[o].layer = l /\ ref' = [ref EXCEPT ![l] = op[o].before]
                         /\ UNCHANGED pr
       \/ /\ pr[l].st = "OPEN" /\ UNCHANGED ref
          /\ \E c \in {[pr[l] EXCEPT !.st = "CLOSED"], [pr[l] EXCEPT !.st = "MERGED"],
                       [pr[l] EXCEPT !.base = "stale"]} : pr' = [pr EXCEPT ![l] = c]
    /\ UNCHANGED <<stack, lost, stored, journal, local, made, me, faults>>

Crash(p) == /\ ~ At(p, "idle") /\ Fault(p) /\ Quit(p)
            /\ UNCHANGED <<remote, stored, journal, rest>>

Work(p) == \/ Reconstruct(p) \/ Fold(p) \/ Observe(p) \/ Republish(p) \/ CheckParent(p)
           \/ Payload(p) \/ Gate(p) \/ Prepare(p) \/ Push(p) \/ CreatePr(p) \/ ConvergeStack(p)
           \/ Verify(p) \/ Identity(p) \/ Checkpoint(p) \/ Outcome(p) \/ Complete(p)
           \/ Resume(p) \/ AllBefore(p) \/ Disown(p) \/ Abandon(p) \/ Select(p) \/ Consent(p)

Next == \/ \E p \in Procs : \/ Work(p) \/ Crash(p)
                            \/ \E l \in Layers, c \in {"submit", "abandon"} : Begin(p, c, l)
        \/ \E l \in Layers : Commit(l) \/ Meddle(l)

Spec == Init /\ [][Next]_vars

-----------------------------------------------------------------------------
TypeOK == /\ \A l \in Layers : /\ ref[l] \in Nat \X Nat /\ local[l] \in Nat \X Nat
                               /\ pr[l].st \in {"none", "OPEN", "CLOSED", "MERGED"}
                               /\ cp[l].head \in Nat \X Nat
          /\ stack \in 0..N /\ header \subseteq Layers /\ nops \in 0..MaxOps

\* A checkpoint pair is true: the published head contains the recorded parent,
\* it was journaled before, and the layers up to it name their pull requests.
CheckpointsAreTrue ==
    \A l \in Layers : cp[l] # NoPair =>
        /\ cp[l].head[2] = cp[l].parent
        /\ 1..l \subseteq header
        /\ \E o \in 1..nops : op[o].layer = l /\ op[o].after = cp[l].head

\* A pair whose operation was abandoned was written by a command that the
\* abandonment crossed, between its last proof and its append or before a push,
\* or somebody had undone what that command pushed.
CheckpointsAreEarned ==
    \A l \in Layers : cp[l] # NoPair /\ edits = 0 =>
        \E o \in 1..nops : /\ op[o].layer = l /\ op[o].after = cp[l].head
                           /\ op[o].st # "abandoned" \/ o \in crossed

\* No republication overwrites a foreign commit, whoever pushes its record.
ForeignCommitsSurvive == lost = {}

\* The journal is at rest, or commands have crossed each other.
Quiet == Unresolved = {} \/ crossed # {}
=============================================================================
