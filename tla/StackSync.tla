----------------------------- MODULE StackSync -----------------------------
(***************************************************************************)
(* The journaled suffix synchronization of a published stack (sync.py) and *)
(* the conclusion of an unresolved one (sync.py's resume path and          *)
(* recover.py), run by processes of one or several machines against the    *)
(* shared Git remote, the plan-header checkpoints and the journal.         *)
(*                                                                         *)
(* Layers 1..N lie bottom to top on the objective base, which is treated   *)
(* as layer 0.  A commit <<w, l>> is a head that layer l was given by w:   *)
(* 0 is the published stack that the behaviour starts from, 1..MaxOps an   *)
(* operation (a local edit it picked up, or a rebase result), and anything *)
(* larger an out-of-band edit.  A rebase never reproduces an earlier SHA.  *)
(*                                                                         *)
(* Every process runs one command at a time under its machine's operation  *)
(* lock.  Remote heads are read one by one, so an observation may be torn  *)
(* by a concurrent push.  A POST or a push is a request of its own: it may *)
(* be lost, and with Late it may take effect after its sender stopped.     *)
(***************************************************************************)
EXTENDS JournalFold, FiniteSets

CONSTANTS Procs,      \* perk processes
          MachineOf,  \* the machine each runs on
          N,          \* layers of the claimed prefix
          Cmds,       \* the commands that are run, a subset of Commands
          MaxOps,     \* bound: operations minted
          MaxEdits,   \* bound: out-of-band pushes
          MaxFaults,  \* bound: crashes, error exits, declined prompts, lost requests
          MaxStamp,   \* bound: different "created" timestamps of one event
          Late        \* TRUE: a request may take effect after its sender stopped

ASSUME Bounds == /\ N \in Nat \ {0} /\ MaxOps \in Nat /\ MaxEdits \in Nat
                 /\ MaxFaults \in Nat /\ MaxStamp \in Nat /\ Late \in BOOLEAN

\* sync, sync --base, sync --adopt NODE, the cascade a submit triggers,
\* recover, and recover --abandon.
SyncCmds == {"sync", "base", "adopt", "submit"}
Commands == SyncCmds \cup {"recover", "abandon"}
ASSUME CmdsAssumption == Cmds \subseteq Commands

Layers == 1..N
Ops    == 1..MaxOps
Commit == Nat \X (0..N)
NoBase == <<0, N + 1>>            \* base_after / base_parent = None
Lineage == "L"
Roles  == {"prepared", "completed", "abandoned"}

VARIABLES ref,      \* ref[l]: the remote head of layer l's branch (0: the base)
          cp,       \* cp[l]: the checkpoint pair in layer l's plan header
          journal,  \* the comments readers of the journal see
          posts,    \* journal POSTs in flight
          rec,      \* rec[o]: the prepared record of operation o
          nops,     \* operations minted
          pushes,   \* operations whose atomic push is in flight
          applied,  \* operations whose push the remote accepted
          refused,  \* operations whose push the remote rejected
          self,     \* self[p]: the local state of process p
          edits, faults

vars == <<ref, cp, journal, posts, rec, nops, pushes, applied, refused, self,
          edits, faults>>

remote == <<ref, pushes, applied, refused>>
log    == <<journal, posts>>
shared == <<cp, log, rec, nops, remote, edits, faults>>   \* everything but self

Event(o, role, n) ==
    [id |-> o, role |-> role, kind |-> IF role = "prepared" THEN "sync" ELSE "",
     lineage |-> IF role = "prepared" THEN Lineage ELSE "",
     text |-> n, carrier |-> "active"]

Heads == [l \in Layers |-> <<0, l>>]
Pairs == [l \in Layers |-> [parent |-> <<0, l - 1>>, head |-> <<0, l>>]]

Idle == [pc |-> "idle", cmd |-> "none", op |-> 0, resumed |-> FALSE, stamp |-> 0,
         idx |-> 1, base |-> NoBase, snap |-> Pairs, want |-> Heads, obs |-> Heads]

NoRecord == [lo |-> 1, before |-> Heads, after |-> Heads, base |-> NoBase,
             adopt |-> {}]

Init == /\ ref = [l \in 0..N |-> <<0, l>>]
        /\ cp = Pairs
        /\ journal = {} /\ posts = {}
        /\ rec = [o \in Ops |-> NoRecord] /\ nops = 0
        /\ pushes = {} /\ applied = {} /\ refused = {}
        /\ self = [p \in Procs |-> Idle]
        /\ edits = 0 /\ faults = 0

-----------------------------------------------------------------------------
(* Helpers: what a process reads and where it goes next. *)

Raises     == ~ Coherent(journal, Lineage)
Unsettled  == UnresolvedIn(journal)
Prepared   == Having(journal, {"prepared"})
Abandoned  == Having(journal, {"abandoned"})

Affected(o) == rec[o].lo..N
Updates(o)  == {l \in Affected(o) : rec[o].after[l] # rec[o].before[l]}

\* Mutant of AllAfter: one ref at its candidate is taken for the whole push.
AnyAfter(o, heads)  == \E l \in Affected(o) : heads[l] = rec[o].after[l]

\* classify_sync_observation: all_after wins over all_before.
AllAfter(o, heads)  == \A l \in Affected(o) : heads[l] = rec[o].after[l]

\* Mutant of AllBefore: one ref at its lease is taken for no push at all.
AnyBefore(o, heads) == /\ ~ AllAfter(o, heads)
                       /\ \E l \in Affected(o) : heads[l] = rec[o].before[l]

AllBefore(o, heads) == /\ ~ AllAfter(o, heads)
                       /\ \A l \in Affected(o) : heads[l] = rec[o].before[l]

Step(p, s) == self' = [self EXCEPT ![p] = s]
Goto(p, pc, idx) == Step(p, [self[p] EXCEPT !.pc = pc, !.idx = idx, !.obs = Heads,
                                            !.stamp = 0])
Quit(p) == Step(p, Idle)

\* Mutant of LockFree: a command does not wait for the others of its machine.
Unlocked(p) == self[p].pc = "idle"

\* The machine-local flock: one mutating stack operation per machine.
LockFree(p) == \A q \in Procs : MachineOf[q] = MachineOf[p] => self[q].pc = "idle"

-----------------------------------------------------------------------------
(* Reading the train and routing on the journal. *)

Begin(p, c) == /\ self[p].pc = "idle" /\ LockFree(p)
               /\ Step(p, [Idle EXCEPT !.pc = "train", !.cmd = c])
               /\ UNCHANGED shared

\* _status_train: the stored checkpoint pairs and the observed base head.
ReadTrain(p) == /\ self[p].pc = "train"
                /\ Step(p, [self[p] EXCEPT !.pc = "fold", !.base = ref[0], !.snap = cp])
                /\ UNCHANGED shared

\* The journal is the single routing authority: an unresolved operation is
\* concluded first, whatever the flags ask for.
Route(p) ==
    /\ self[p].pc = "fold"
    /\ IF Raises THEN Quit(p)
       ELSE \/ \E o \in Unsettled :
                 Step(p, [self[p] EXCEPT !.pc = "classify", !.op = o, !.resumed = TRUE,
                                         !.idx = rec[o].lo])
            \/ /\ Unsettled = {}
               /\ CASE self[p].cmd \in {"recover", "abandon"} -> Quit(p)
                    [] self[p].cmd = "adopt" -> Goto(p, "adopt", 1)
                    [] OTHER -> Step(p, [self[p] EXCEPT !.pc = "preflight",
                                 !.want = [l \in Layers |-> self[p].snap[l].head]])
    /\ UNCHANGED shared

\* _resolve_adopted: the lease of the adopted layer is the head seen now.
ResolveAdopted(p) ==
    /\ self[p].pc = "adopt"
    /\ \E a \in Layers :
         /\ ref[a] # self[p].snap[a].head
         /\ Step(p, [self[p] EXCEPT !.pc = "preflight",
                  !.want = [l \in Layers |->
                              IF l = a THEN ref[a] ELSE self[p].snap[l].head]])
    /\ UNCHANGED shared

NothingToAdopt(p) == /\ self[p].pc = "adopt"
                     /\ \A a \in Layers : ref[a] = self[p].snap[a].head
                     /\ Quit(p)
                     /\ UNCHANGED shared

\* One remote_branch_sha call of an observation loop.
Observing == {"preflight", "reobserve", "classify", "reclassify", "verify", "rejected"}
Observe(p) == /\ self[p].pc \in Observing
              /\ self[p].idx \in Layers
              /\ Step(p, [self[p] EXCEPT !.obs[self[p].idx] = ref[self[p].idx],
                                         !.idx = @ + 1])
              /\ UNCHANGED shared

Observed(p, pc) == self[p].pc = pc /\ self[p].idx = N + 1

-----------------------------------------------------------------------------
(* The fresh protocol: preflight, candidates, approval, re-observation. *)

Preflight(p) == /\ Observed(p, "preflight")
                /\ IF self[p].obs = self[p].want THEN Goto(p, "calculate", 1) ELSE Quit(p)
                /\ UNCHANGED shared

\* A local head the trigger layer may carry: a new commit, or the one an
\* earlier operation picked up from the same published head and never landed.
LocalHeads(p, o, lo) ==
    {<<o, lo>>} \cup {rec[q].after[lo] : q \in {k \in 1..nops :
                         /\ rec[k].lo = lo /\ rec[k].base = NoBase
                         /\ lo \notin rec[k].adopt
                         /\ rec[k].before[lo] = self[p].want[lo]}}

\* _fresh's affected set and _calculate_candidates: bottom-up, each layer is
\* rebased exactly when its parent edge moved, else keeps its source.
Calculate(p) ==
    /\ self[p].pc = "calculate"
    /\ nops < MaxOps
    /\ \E changed \in SUBSET Layers :
         LET o       == nops + 1
             s       == self[p]
             adopted == {l \in Layers : s.want[l] # s.snap[l].head}
             base    == IF s.cmd = "base" THEN s.base ELSE NoBase
             sources == changed \cup adopted
         IN  /\ changed \cap adopted = {}
             /\ s.cmd = "submit" => Cardinality(changed) = 1
             /\ \E lo \in Layers, rebased \in SUBSET Layers :
                  /\ IF base # NoBase THEN lo = 1
                     ELSE lo \in sources /\ \A l \in sources : lo <= l
                  /\ \E local \in LocalHeads(p, o, lo) :
                     LET source == [l \in Layers |->
                             IF l \notin changed THEN s.want[l]
                             ELSE IF l = lo THEN local ELSE <<o, l>>]
                         after  == [l \in Layers |->
                             IF l \in rebased THEN <<o, l>> ELSE source[l]]
                         Edge(l) == IF l > lo THEN after[l - 1]
                                    ELSE IF base # NoBase THEN base
                                    ELSE s.snap[l].parent
                     IN /\ rebased = {l \in lo..N : Edge(l) # s.snap[l].parent}
                        /\ rec' = [rec EXCEPT ![o] =
                              [lo |-> lo, before |-> s.want, after |-> after,
                               base |-> base, adopt |-> adopted]]
                        /\ Step(p, [s EXCEPT !.pc = "reobserve", !.op = o,
                                     !.resumed = FALSE, !.idx = 1, !.obs = Heads])
    /\ nops' = nops + 1
    /\ UNCHANGED <<cp, log, remote, edits, faults>>

NothingToDo(p) == /\ self[p].pc = "calculate"
                  /\ Quit(p)
                  /\ UNCHANGED shared

\* _reobserve: every lease input again, then the base head of a cascade.
Reobserve(p) ==
    /\ Observed(p, "reobserve")
    /\ IF /\ self[p].obs = self[p].want
          /\ rec[self[p].op].base \in {NoBase, ref[0]}
       THEN Goto(p, "prepare", 1) ELSE Quit(p)
    /\ UNCHANGED shared

-----------------------------------------------------------------------------
(* Journal appends: the gate folds the journal, then the POST goes out; the *)
(* caller goes on only when the read-back finds its event.                  *)

Role(pc) == CASE pc \in {"prepare", "prepared?"} -> "prepared"
              [] pc \in {"complete", "completed?"} -> "completed"
              [] OTHER -> "abandoned"
Mine(p)  == Event(self[p].op, Role(self[p].pc), self[p].stamp)

\* append_prepared refuses while anything is unresolved; append_outcome while
\* the operation already has another outcome.
Gated(p) == \/ Raises
            \/ self[p].pc = "prepare" /\ Unsettled # {}
            \/ self[p].pc # "prepare" /\ self[p].op \notin Unsettled

\* created = now(), in whole seconds: as an earlier record of the same event,
\* or new.
Clock(o, role) ==
    LET used == {e.text : e \in {d \in journal \cup posts : d.id = o /\ d.role = role}}
    IN  {n \in 1..MaxStamp : \A k \in 1..(n - 1) : k \in used}

Awaiting(pc) == CASE pc = "prepare"  -> "prepared?"
                  [] pc = "complete" -> "completed?"
                  [] OTHER -> "abandoned?"

AppendEvent(p) ==
    /\ self[p].pc \in {"prepare", "complete", "abandon"}
    /\ IF Gated(p) THEN Quit(p) /\ UNCHANGED posts
       ELSE \E n \in Clock(self[p].op, Role(self[p].pc)) :
              /\ posts' = posts \cup {Event(self[p].op, Role(self[p].pc), n)}
              /\ Step(p, [self[p] EXCEPT !.pc = Awaiting(self[p].pc), !.stamp = n])
    /\ UNCHANGED <<cp, journal, rec, nops, remote, edits, faults>>

\* Read back: present and unconflicted.  A prepared operation is pushed; the
\* resume path of a sync goes on to a fresh cascade after an abandon, and after
\* a roll-forward when a submit triggered it; everything else is done.
ReadBack(p) ==
    /\ self[p].pc \in {"prepared?", "completed?", "abandoned?"}
    /\ Mine(p) \in journal
    /\ IF \E e \in journal : Key(e) = Key(Mine(p)) /\ e # Mine(p) THEN Quit(p)
       ELSE CASE self[p].pc = "prepared?" -> Goto(p, "push", 1)
              [] /\ self[p].pc = "abandoned?" /\ self[p].resumed
                 /\ self[p].cmd \in SyncCmds -> Goto(p, "train", 1)
              [] /\ self[p].pc = "completed?" /\ self[p].resumed
                 /\ self[p].cmd = "submit" -> Goto(p, "train", 1)
              [] OTHER -> Quit(p)
    /\ UNCHANGED shared

\* Mutant of Ambiguous: a prepared record that cannot be read back is pushed.
AmbiguousPushes(p) ==
    /\ self[p].pc \in {"prepared?", "completed?", "abandoned?"}
    /\ Mine(p) \notin journal \cup posts
    /\ IF self[p].pc = "prepared?" THEN Goto(p, "push", 1) ELSE Quit(p)
    /\ UNCHANGED shared

\* JournalAppendAmbiguous: the event is not there and no request is left.
Ambiguous(p) == /\ self[p].pc \in {"prepared?", "completed?", "abandoned?"}
                /\ Mine(p) \notin journal \cup posts
                /\ Quit(p)
                /\ UNCHANGED shared

-----------------------------------------------------------------------------
(* The atomic push, its verification, and the checkpoints. *)

\* Refs whose candidate equals their before state are left out of the push.
Push(p) == /\ self[p].pc = "push"
           /\ IF Updates(self[p].op) = {}
              THEN Goto(p, "verify", rec[self[p].op].lo) /\ UNCHANGED pushes
              ELSE /\ pushes' = pushes \cup {self[p].op}
                   /\ Goto(p, "pushing", 1)
           /\ UNCHANGED <<cp, log, rec, nops, ref, applied, refused, edits, faults>>

\* Mutant of Pushed: the layers to verify are counted from zero.
PushedFromZero(p) ==
    /\ self[p].pc = "pushing"
    /\ self[p].op \in applied
    /\ Goto(p, "verify", rec[self[p].op].lo - 1)
    /\ UNCHANGED shared

Pushed(p) == /\ self[p].pc = "pushing"
             /\ \/ self[p].op \in applied /\ Goto(p, "verify", rec[self[p].op].lo)
                \/ self[p].op \in refused /\ Goto(p, "rejected", rec[self[p].op].lo)
             /\ UNCHANGED shared

\* A rejected push is abandoned only when every affected head is at before.
Rejected(p) == /\ Observed(p, "rejected")
               /\ IF \A l \in Affected(self[p].op) :
                        self[p].obs[l] = rec[self[p].op].before[l]
                  THEN Goto(p, "abandon", 1) ELSE Quit(p)
               /\ UNCHANGED shared

\* _verify_postconditions
Verify(p) == /\ Observed(p, "verify")
             /\ IF AllAfter(self[p].op, self[p].obs)
                THEN Goto(p, "checkpoint", rec[self[p].op].lo) ELSE Quit(p)
             /\ UNCHANGED shared

\* Mutant of ParentEdge: a layer's new edge is its parent's old head.
ParentEdgeBefore(p, l) == LET r == rec[self[p].op] IN
    IF l > r.lo THEN r.before[l - 1]
    ELSE IF r.base # NoBase THEN r.base ELSE self[p].snap[l].parent

\* _new_parent_edges and _recorded_parent_edges.
ParentEdge(p, l) == LET r == rec[self[p].op] IN
    IF l > r.lo THEN r.after[l - 1]
    ELSE IF r.base # NoBase THEN r.base ELSE self[p].snap[l].parent

\* One write_checkpoints call of _persist_completion, bottom to top.
WriteCheckpoint(p) ==
    LET l == self[p].idx IN
    /\ self[p].pc = "checkpoint"
    /\ cp' = [cp EXCEPT ![l] = [parent |-> ParentEdge(p, l),
                                head   |-> rec[self[p].op].after[l]]]
    /\ IF l < N THEN Goto(p, "checkpoint", l + 1) ELSE Goto(p, "complete", 1)
    /\ UNCHANGED <<log, rec, nops, remote, edits, faults>>

-----------------------------------------------------------------------------
(* Concluding an unresolved operation. *)

\* Mutant of Classify: refs that already moved leave nothing to resume.
ClassifyDone(p) ==
    /\ Observed(p, "classify")
    /\ IF AllBefore(self[p].op, self[p].obs) THEN Goto(p, "abandon", 1) ELSE Quit(p)
    /\ UNCHANGED shared

\* _resume, and recover's _classify / _conclude.
Classify(p) ==
    LET o == self[p].op
        acting == self[p].cmd # "recover"
    IN  /\ Observed(p, "classify")
        /\ CASE AllAfter(o, self[p].obs) /\ self[p].cmd # "abandon" ->
                     Goto(p, "verify", rec[o].lo)
             [] AllBefore(o, self[p].obs) /\ acting ->
                     IF self[p].cmd = "abandon" THEN Goto(p, "reclassify", rec[o].lo)
                     ELSE Goto(p, "abandon", 1)
             [] OTHER -> Quit(p)
        /\ UNCHANGED shared

\* recover's _abandon classifies again after the confirmation.
Reclassify(p) == /\ Observed(p, "reclassify")
                 /\ IF AllBefore(self[p].op, self[p].obs)
                    THEN Goto(p, "abandon", 1) ELSE Quit(p)
                 /\ UNCHANGED shared

-----------------------------------------------------------------------------
(* The environment. *)

InFlight(p) == \/ self[p].op \in pushes /\ self[p].pc = "pushing"
               \/ self[p].pc \in {"prepared?", "completed?", "abandoned?"} /\ Mine(p) \in posts

\* The process dies, an answer cannot be read, or the operator declines.
Stop(p) == /\ self[p].pc # "idle" /\ faults < MaxFaults
           /\ Late \/ ~ InFlight(p)
           /\ Quit(p)
           /\ faults' = faults + 1
           /\ UNCHANGED <<cp, log, rec, nops, remote, edits>>

Land(e) == /\ e \in posts
           /\ posts' = posts \ {e}
           /\ journal' = journal \cup {e}
           /\ UNCHANGED <<cp, rec, nops, remote, self, edits, faults>>

Lose(e) == /\ e \in posts /\ faults < MaxFaults
           /\ posts' = posts \ {e}
           /\ faults' = faults + 1
           /\ UNCHANGED <<cp, journal, rec, nops, remote, self, edits>>

\* Mutant of Serve: a plain forced push.
ServeForced(o) ==
    /\ o \in pushes
    /\ pushes' = pushes \ {o}
    /\ ref' = [l \in 0..N |-> IF l \in Updates(o) THEN rec[o].after[l] ELSE ref[l]]
    /\ applied' = applied \cup {o}
    /\ UNCHANGED <<cp, log, rec, nops, refused, self, edits, faults>>

\* git push --atomic --force-with-lease: a ref already at its new value is up
\* to date and carries no lease; any other must be at its expected value, or
\* nothing moves.
Serve(o) ==
    /\ o \in pushes
    /\ pushes' = pushes \ {o}
    /\ IF \A l \in Updates(o) : ref[l] \in {rec[o].before[l], rec[o].after[l]}
       THEN /\ ref' = [l \in 0..N |-> IF l \in Updates(o) THEN rec[o].after[l] ELSE ref[l]]
            /\ applied' = applied \cup {o} /\ UNCHANGED refused
       ELSE refused' = refused \cup {o} /\ UNCHANGED <<ref, applied>>
    /\ UNCHANGED <<cp, log, rec, nops, self, edits, faults>>

LosePush(o) == /\ o \in pushes /\ faults < MaxFaults
               /\ pushes' = pushes \ {o}
               /\ self' = [p \in Procs |-> IF self[p].op = o /\ self[p].pc = "pushing"
                                           THEN Idle ELSE self[p]]
               /\ faults' = faults + 1
               /\ UNCHANGED <<cp, log, rec, nops, ref, applied, refused, edits>>

\* Somebody pushes to a layer, or the base advances.
ForeignEdit(l) == /\ edits < MaxEdits
                  /\ ref' = [ref EXCEPT ![l] = <<MaxOps + edits + 1, l>>]
                  /\ edits' = edits + 1
                  /\ UNCHANGED <<cp, log, rec, nops, pushes, applied, refused, self, faults>>

Own(p) == \/ ReadTrain(p) \/ Route(p) \/ ResolveAdopted(p) \/ NothingToAdopt(p)
          \/ Observe(p) \/ Preflight(p) \/ Calculate(p) \/ NothingToDo(p)
          \/ Reobserve(p) \/ AppendEvent(p) \/ ReadBack(p) \/ Ambiguous(p)
          \/ Push(p) \/ Pushed(p) \/ Rejected(p) \/ Verify(p) \/ WriteCheckpoint(p)
          \/ Classify(p) \/ Reclassify(p)

Next == \/ \E p \in Procs : Own(p) \/ Stop(p) \/ \E c \in Cmds : Begin(p, c)
        \/ \E e \in posts : Land(e) \/ Lose(e)
        \/ \E o \in pushes : Serve(o) \/ LosePush(o)
        \/ \E l \in 0..N : ForeignEdit(l)

Spec == Init /\ [][Next]_vars

\* A started process keeps running, the operator reruns the command, and the
\* remotes answer.  Faults are bounded, so no fairness speaks about them.
Answer == (\E e \in posts : Land(e)) \/ (\E o \in pushes : Serve(o))

-----------------------------------------------------------------------------
Foreign(c) == c[1] > MaxOps
Quiet      == \A p \in Procs : self[p].pc = "idle"

EventSet == [id : Ops, role : Roles, kind : {"sync", ""}, lineage : {Lineage, ""},
             text : 0..MaxStamp, carrier : {"active"}]
PCs == Observing \cup {"idle", "train", "fold", "adopt", "calculate", "prepare",
         "prepared?", "push", "pushing", "checkpoint", "complete", "completed?",
         "abandon", "abandoned?"}
\* The steps a process takes on behalf of one operation.
Engaged == PCs \ {"idle", "train", "fold", "adopt", "preflight", "calculate"}

PairSet == [parent : Commit, head : Commit]
RecordSet == [lo : Layers, before : [Layers -> Commit], after : [Layers -> Commit],
              base : Commit \cup {NoBase}, adopt : SUBSET Layers]
SelfSet == [pc : PCs, cmd : Commands \cup {"none"}, op : 0..MaxOps, resumed : BOOLEAN,
            stamp : 0..MaxStamp, idx : 1..(N + 1), base : Commit \cup {NoBase}, snap : [Layers -> PairSet],
            want : [Layers -> Commit], obs : [Layers -> Commit]]

\* Every variable has its type, and a process past its candidates, or past
\* the routing on an unresolved operation, holds the operation it acts on.
TypeOK ==
    /\ ref \in [0..N -> Commit]
    /\ cp \in [Layers -> PairSet]
    /\ journal \subseteq EventSet /\ posts \subseteq EventSet
    /\ rec \in [Ops -> RecordSet] /\ nops \in 0..MaxOps
    /\ pushes \subseteq Ops /\ applied \subseteq Ops /\ refused \subseteq Ops
    /\ self \in [Procs -> SelfSet]
    /\ \A p \in Procs : self[p].pc \in Engaged => self[p].op \in Ops
    /\ edits \in Nat /\ faults \in Nat

(***************************************************************************)
(* Journal first: no process gets to its push, and no push is in flight,   *)
(* accepted or rejected, unless the operation's prepared record is         *)
(* durable, whatever POSTs were lost or late and whoever crashed.          *)
(***************************************************************************)
JournalFirst ==
    /\ pushes \cup applied \cup refused \subseteq Prepared
    /\ \A p \in Procs : self[p].pc \in {"push", "pushing"} => self[p].op \in Prepared

(***************************************************************************)
(* No edit made outside perk is lost: a head pushed out of band is only    *)
(* replaced by another out-of-band push, or by an operation whose durable  *)
(* prepared record names that very head as its lease.                      *)
(***************************************************************************)
EditsNotLost ==
    [][ \A l \in Layers : Foreign(ref[l]) /\ ref'[l] # ref[l] /\ edits' = edits
          => \E o \in Prepared : rec[o].before[l] = ref[l] /\ l >= rec[o].lo ]_vars

(***************************************************************************)
(* A head enters a checkpoint only if it was really published: an accepted *)
(* push carried it, or a durable adopt record names it.                    *)
(***************************************************************************)
CheckpointsPublished ==
    \A l \in Layers :
      \/ cp[l].head = <<0, l>>
      \/ \E o \in applied : l >= rec[o].lo /\ rec[o].after[l] = cp[l].head
      \/ \E o \in Prepared : l \in rec[o].adopt /\ rec[o].before[l] = cp[l].head

(***************************************************************************)
(* While the operation lock is the only serialization needed (one machine, *)
(* requests die with their sender), the journal stays readable and holds   *)
(* at most one unresolved operation through every crash and retry.         *)
(***************************************************************************)
SerialJournal == ~ Raises /\ Cardinality(Unsettled) <= 1

(***************************************************************************)
(* ... an abandoned operation had no effect, and never has one later ...   *)
(***************************************************************************)
AbandonedHadNoEffect == Abandoned \cap applied = {}

(***************************************************************************)
(* ... and whenever nothing runs and nothing is unresolved, the stored     *)
(* pairs form one linear stack and agree with the remote, except where     *)
(* somebody pushed out of band: perk never leaves drift of its own.        *)
(***************************************************************************)
QuietStackIsLinear ==
    Quiet /\ Unsettled = {} =>
      /\ \A l \in Layers : ref[l] = cp[l].head \/ Foreign(ref[l])
      /\ \A l \in Layers : l > 1 => cp[l].parent = cp[l - 1].head

(***************************************************************************)
(* What the reruns get to: every operation is concluded, unless out-of-band *)
(* edits left its refs in a mixed state.                                   *)
(***************************************************************************)
Mixed(o)  == ~ AllAfter(o, ref) /\ ~ AllBefore(o, ref)
Concluded == \A o \in Ops : o \notin Unsettled \/ Mixed(o)

(***************************************************************************)
(* recover.py: "a still-live remote owner's residual push is detected as   *)
(* drift by the next preflight": when the push of an abandoned operation   *)
(* took effect, some stored checkpoint disagrees with the remote.          *)
(***************************************************************************)
ResidualPushIsDrift ==
    Quiet /\ Abandoned \cap applied # {} => \E l \in Layers : ref[l] # cp[l].head

(***************************************************************************)
(* sync.py's _complete: a crash before completion "reconstructs as         *)
(* roll-forward - merge-writes + idempotent byte-identical appends", so    *)
(* repeating a conclusion never makes the journal unreadable.              *)
(***************************************************************************)
RepeatedConclusionIsIdempotent ==
    \A e, d \in journal :
        e.role = "completed" /\ d.role = "completed" /\ e.id = d.id => e = d
=============================================================================
