-------------------------- MODULE StackSyncProofs --------------------------
(***************************************************************************)
(* Theorems about StackSync for every number of processes, machines,       *)
(* layers, operations and faults.                                          *)
(***************************************************************************)
EXTENDS StackSync, FiniteSetTheorems, TLAPS

\* The types of the constants that the steps below build states from.
LEMMA ConstantTypes ==
    /\ Heads \in [Layers -> Commit]
    /\ Pairs \in [Layers -> PairSet]
    /\ Idle \in SelfSet
    /\ NoRecord \in RecordSet
<1>1. N \in Nat \ {0} /\ MaxOps \in Nat /\ MaxStamp \in Nat
  BY Bounds
<1>2. \A l \in Layers : <<0, l>> \in Commit /\ <<0, l - 1>> \in Commit
  BY <1>1 DEF Layers, Commit
<1>3. Heads \in [Layers -> Commit]
  BY <1>2 DEF Heads
<1>4. Pairs \in [Layers -> PairSet]
  BY <1>2 DEF Pairs, PairSet
<1>5. Idle \in SelfSet
  BY <1>1, <1>3, <1>4 DEF Idle, SelfSet, PCs, Layers
<1>6. NoRecord \in RecordSet
  BY <1>1, <1>3 DEF NoRecord, RecordSet, Layers
<1> QED
  BY <1>3, <1>4, <1>5, <1>6

LEMMA InitTypeOK == Init => TypeOK
<1> SUFFICES ASSUME Init PROVE TypeOK
  OBVIOUS
<1>1. ref \in [0..N -> Commit]
  BY Bounds DEF Init, Commit
<1>2. cp \in [Layers -> PairSet] /\ rec \in [Ops -> RecordSet] /\ self \in [Procs -> SelfSet]
  BY ConstantTypes DEF Init
<1>3. \A p \in Procs : self[p].pc \notin Engaged
  BY DEF Init, Idle, Engaged
<1> QED
  BY <1>1, <1>2, <1>3, Bounds DEF Init, TypeOK

-----------------------------------------------------------------------------
\* The conjuncts of TypeOK about the processes.
SelfOK == /\ self \in [Procs -> SelfSet]
          /\ \A p \in Procs : self[p].pc \in Engaged => self[p].op \in Ops

\* The three ways a process changes its local state keep it well typed.
LEMMA StepKeepsType ==
    ASSUME SelfOK, NEW p \in Procs, NEW s \in SelfSet, Step(p, s),
           s.pc \in Engaged => s.op \in Ops
    PROVE  SelfOK'
  BY DEF SelfOK, Step

LEMMA QuitKeepsType ==
    ASSUME SelfOK, NEW p \in Procs, Quit(p)
    PROVE  SelfOK'
<1>1. Idle.pc \notin Engaged
  BY DEF Idle, Engaged
<1> QED
  BY <1>1, ConstantTypes, StepKeepsType DEF Quit

LEMMA GotoKeepsType ==
    ASSUME SelfOK, NEW p \in Procs, NEW pc \in PCs, NEW idx \in 1..(N + 1),
           Goto(p, pc, idx), pc \in Engaged => self[p].op \in Ops
    PROVE  SelfOK'
<1> DEFINE s == [self[p] EXCEPT !.pc = pc, !.idx = idx, !.obs = Heads, !.stamp = 0]
<1>1. self[p] \in SelfSet
  BY DEF SelfOK
<1>2. 0 \in 0..MaxStamp /\ Heads \in [Layers -> Commit]
  BY ConstantTypes, Bounds
<1>3. s \in SelfSet /\ s.pc = pc /\ s.op = self[p].op
  BY <1>1, <1>2 DEF SelfSet
<1>4. Step(p, s)
  BY DEF Goto
<1> QED
  BY <1>3, <1>4, StepKeepsType

\* What the journal reports are operations, and their records are typed.
LEMMA JournalTypes ==
    ASSUME TypeOK
    PROVE  /\ Prepared \subseteq Ops /\ Unsettled \subseteq Ops
           /\ \A o \in Ops : /\ rec[o] \in RecordSet /\ rec[o].lo \in Layers
                             /\ rec[o].lo \in 1..(N + 1)
<1>1. \A e \in journal : e.id \in Ops
  BY DEF TypeOK, EventSet
<1>2. \A o \in Ops : rec[o] \in RecordSet
  BY DEF TypeOK
<1>3. \A o \in Ops : rec[o].lo \in Layers
  BY <1>2 DEF RecordSet
<1>4. Layers \subseteq 1..(N + 1)
  BY Bounds DEF Layers
<1> QED
  BY <1>1, <1>2, <1>3, <1>4 DEF Prepared, Unsettled, UnresolvedIn, Having

-----------------------------------------------------------------------------
\* The conjuncts of TypeOK about everything else.
SharedOK == /\ ref \in [0..N -> Commit]
            /\ cp \in [Layers -> PairSet]
            /\ journal \subseteq EventSet /\ posts \subseteq EventSet
            /\ rec \in [Ops -> RecordSet] /\ nops \in 0..MaxOps
            /\ pushes \subseteq Ops /\ applied \subseteq Ops /\ refused \subseteq Ops
            /\ edits \in Nat /\ faults \in Nat

LEMMA TypeOKParts == TypeOK <=> SelfOK /\ SharedOK
  BY DEF TypeOK, SelfOK, SharedOK

LEMMA SharedKeepsType ==
    ASSUME TypeOK, UNCHANGED shared, SelfOK'
    PROVE  TypeOK'
  BY DEF TypeOK, SelfOK, shared, log, remote

\* Starting, reading the train, and routing on the journal.
LEMMA BeginType ==
    ASSUME TypeOK, NEW p \in Procs, NEW c \in Cmds, Begin(p, c)
    PROVE  TypeOK'
<1> DEFINE s == [Idle EXCEPT !.pc = "train", !.cmd = c]
<1>1. Step(p, s)
  BY DEF Begin
<1>2. c \in Commands
  BY CmdsAssumption
<1>3. s \in SelfSet /\ s.pc = "train"
  BY <1>2, ConstantTypes DEF SelfSet, PCs
<1>4. SelfOK'
  BY <1>1, <1>3, StepKeepsType, TypeOKParts DEF Engaged
<1> QED
  BY <1>4, SharedKeepsType DEF Begin

LEMMA ReadTrainType ==
    ASSUME TypeOK, NEW p \in Procs, ReadTrain(p)
    PROVE  TypeOK'
<1> DEFINE s == [self[p] EXCEPT !.pc = "fold", !.base = ref[0], !.snap = cp]
<1>1. ref[0] \in Commit /\ cp \in [Layers -> PairSet] /\ self[p] \in SelfSet
  BY Bounds DEF TypeOK
<1>2. s \in SelfSet /\ s.pc = "fold"
  BY <1>1 DEF SelfSet, PCs
<1>3. Step(p, s)
  BY DEF ReadTrain
<1>4. SelfOK'
  BY <1>2, <1>3, StepKeepsType, TypeOKParts DEF Engaged
<1> QED
  BY <1>4, SharedKeepsType DEF ReadTrain

LEMMA RouteType ==
    ASSUME TypeOK, NEW p \in Procs, Route(p)
    PROVE  TypeOK'
<1>0. self[p] \in SelfSet /\ SelfOK /\ 1 \in 1..(N + 1)
  BY TypeOKParts, Bounds DEF SelfOK
<1>1. CASE Quit(p)
  BY <1>0, <1>1, QuitKeepsType, SharedKeepsType DEF Route
<1>2. CASE Goto(p, "adopt", 1)
  <2>1. SelfOK'
    BY <1>0, <1>2, GotoKeepsType DEF PCs, Engaged
  <2> QED
    BY <2>1, SharedKeepsType DEF Route
<1>3. ASSUME NEW o \in Unsettled,
             Step(p, [self[p] EXCEPT !.pc = "classify", !.op = o, !.resumed = TRUE,
                                     !.idx = rec[o].lo])
      PROVE  TypeOK'
  <2> DEFINE s == [self[p] EXCEPT !.pc = "classify", !.op = o, !.resumed = TRUE,
                                  !.idx = rec[o].lo]
  <2>1. o \in Ops /\ rec[o].lo \in 1..(N + 1)
    BY JournalTypes
  <2>2. o \in 0..MaxOps
    BY <2>1, Bounds DEF Ops
  <2>3. s \in SelfSet /\ s.op = o
    BY <1>0, <2>1, <2>2 DEF SelfSet, PCs, Observing
  <2>4. SelfOK'
    BY <1>0, <1>3, <2>1, <2>3, StepKeepsType
  <2> QED
    BY <2>4, SharedKeepsType DEF Route
<1>4. CASE Step(p, [self[p] EXCEPT !.pc = "preflight",
                      !.want = [l \in Layers |-> self[p].snap[l].head]])
  <2> DEFINE w == [l \in Layers |-> self[p].snap[l].head]
             s == [self[p] EXCEPT !.pc = "preflight", !.want = w]
  <2>1. w \in [Layers -> Commit]
    BY <1>0, ZenonT(60) DEF SelfSet, PairSet
  <2>2. s \in SelfSet /\ s.pc = "preflight"
    BY <1>0, <2>1 DEF SelfSet, PCs, Observing
  <2>3. SelfOK'
    BY <1>0, <1>4, <2>2, StepKeepsType DEF Engaged
  <2> QED
    BY <2>3, SharedKeepsType DEF Route
<1> QED
  BY <1>1, <1>2, <1>3, <1>4 DEF Route

-----------------------------------------------------------------------------
\* A step that only moves a process to another step, or ends its command.
Moves(p) == \/ Quit(p)
            \/ \E pc \in PCs, idx \in 1..(N + 1) :
                  Goto(p, pc, idx) /\ (pc \in Engaged => self[p].op \in Ops)

LEMMA MovesType ==
    ASSUME TypeOK, NEW p \in Procs, Moves(p), UNCHANGED shared
    PROVE  TypeOK'
<1>1. SelfOK'
  BY QuitKeepsType, GotoKeepsType, TypeOKParts DEF Moves
<1> QED
  BY <1>1, SharedKeepsType

\* Where an engaged process may go: the first layer, or its record's lowest.
LEMMA Targets ==
    ASSUME TypeOK, NEW p \in Procs
    PROVE  /\ 1 \in 1..(N + 1)
           /\ self[p].pc \in Engaged => /\ self[p].op \in Ops
                                       /\ rec[self[p].op].lo \in 1..(N + 1)
<1>1. 1 \in 1..(N + 1)
  BY Bounds
<1> QED
  BY <1>1, JournalTypes DEF TypeOK

LEMMA ResolveAdoptedType ==
    ASSUME TypeOK, NEW p \in Procs, ResolveAdopted(p)
    PROVE  TypeOK'
<1>1. PICK a \in Layers :
        Step(p, [self[p] EXCEPT !.pc = "preflight",
                  !.want = [l \in Layers |->
                              IF l = a THEN ref[a] ELSE self[p].snap[l].head]])
  BY DEF ResolveAdopted
<1> DEFINE w == [l \in Layers |-> IF l = a THEN ref[a] ELSE self[p].snap[l].head]
           s == [self[p] EXCEPT !.pc = "preflight", !.want = w]
<1>2. self[p] \in SelfSet /\ ref[a] \in Commit
  BY Bounds DEF TypeOK, Layers
<1>3. w \in [Layers -> Commit]
  BY <1>2, ZenonT(60) DEF SelfSet, PairSet
<1>4. s \in SelfSet /\ s.pc = "preflight"
  BY <1>2, <1>3 DEF SelfSet, PCs, Observing
<1>5. SelfOK'
  BY <1>1, <1>4, StepKeepsType, TypeOKParts DEF Engaged
<1> QED
  BY <1>5, SharedKeepsType DEF ResolveAdopted

LEMMA ObserveType ==
    ASSUME TypeOK, NEW p \in Procs, Observe(p)
    PROVE  TypeOK'
<1> DEFINE i == self[p].idx
           s == [self[p] EXCEPT !.obs[i] = ref[i], !.idx = @ + 1]
<1>1. self[p] \in SelfSet /\ i \in Layers
  BY DEF TypeOK, Observe
<1>2. ref[i] \in Commit /\ i + 1 \in 1..(N + 1)
  BY <1>1, Bounds DEF TypeOK, Layers
<1>3. s \in SelfSet /\ s.pc = self[p].pc /\ s.op = self[p].op
  BY <1>1, <1>2 DEF SelfSet
<1>4. Step(p, s)
  BY DEF Observe
<1>5. SelfOK'
  BY <1>3, <1>4, StepKeepsType, TypeOKParts DEF SelfOK
<1> QED
  BY <1>5, SharedKeepsType DEF Observe

LEMMA SimpleMovesType ==
    ASSUME TypeOK, NEW p \in Procs,
           \/ NothingToAdopt(p) \/ Preflight(p) \/ NothingToDo(p) \/ Reobserve(p)
           \/ ReadBack(p) \/ Ambiguous(p) \/ Pushed(p) \/ Rejected(p) \/ Verify(p)
           \/ Classify(p) \/ Reclassify(p)
    PROVE  TypeOK'
<1> USE Targets
<1>1. CASE NothingToAdopt(p) \/ NothingToDo(p) \/ Ambiguous(p)
  BY <1>1, MovesType DEF Moves, NothingToAdopt, NothingToDo, Ambiguous
<1>2. CASE Preflight(p)
  <2>1. Moves(p)
    BY <1>2 DEF Preflight, Moves, PCs, Engaged
  <2> QED
    BY <1>2, <2>1, MovesType DEF Preflight
<1>3. CASE Reobserve(p)
  <2>1. Moves(p)
    BY <1>3 DEF Reobserve, Observed, Moves, PCs, Observing, Engaged
  <2> QED
    BY <1>3, <2>1, MovesType DEF Reobserve
<1>4. CASE ReadBack(p)
  <2>1. Quit(p) \/ Goto(p, "push", 1) \/ Goto(p, "train", 1)
    BY <1>4 DEF ReadBack
  <2>2. self[p].op \in Ops
    BY <1>4 DEF ReadBack, PCs, Engaged
  <2>3. Moves(p)
    BY <2>1, <2>2 DEF Moves, PCs
  <2> QED
    BY <1>4, <2>3, MovesType DEF ReadBack
<1>5. CASE Pushed(p)
  <2>1. Moves(p)
    BY <1>5 DEF Pushed, Moves, PCs, Observing, Engaged
  <2> QED
    BY <1>5, <2>1, MovesType DEF Pushed
<1>6. CASE Rejected(p)
  <2>1. Moves(p)
    BY <1>6 DEF Rejected, Observed, Moves, PCs, Observing, Engaged
  <2> QED
    BY <1>6, <2>1, MovesType DEF Rejected
<1>7. CASE Verify(p)
  <2>1. Moves(p)
    BY <1>7 DEF Verify, Observed, Moves, PCs, Observing, Engaged
  <2> QED
    BY <1>7, <2>1, MovesType DEF Verify
<1>8. CASE Classify(p)
  <2>1. Moves(p)
    BY <1>8 DEF Classify, Observed, Moves, PCs, Observing, Engaged
  <2> QED
    BY <1>8, <2>1, MovesType DEF Classify
<1>9. CASE Reclassify(p)
  <2>1. Moves(p)
    BY <1>9 DEF Reclassify, Observed, Moves, PCs, Observing, Engaged
  <2> QED
    BY <1>9, <2>1, MovesType DEF Reclassify
<1> QED
  BY <1>1, <1>2, <1>3, <1>4, <1>5, <1>6, <1>7, <1>8, <1>9

\* A candidate is a commit: kept, picked up locally, or rebased.
LEMMA LocalHeadType ==
    ASSUME TypeOK, NEW p \in Procs, NEW o \in Ops, NEW lo \in Layers
    PROVE  LocalHeads(p, o, lo) \subseteq Commit
<1>1. <<o, lo>> \in Commit
  BY Bounds DEF Commit, Ops, Layers
<1>2. 1..nops \subseteq Ops
  BY Bounds DEF TypeOK, Ops
<1>3. \A q \in 1..nops : rec[q].after[lo] \in Commit
  BY <1>2, SMTT(60) DEF TypeOK, RecordSet
<1> QED
  BY <1>1, <1>3 DEF LocalHeads

LEMMA CalculateType ==
    ASSUME TypeOK, NEW p \in Procs, Calculate(p)
    PROVE  TypeOK'
<1> DEFINE o == nops + 1
           s == self[p]
           adopted == {l \in Layers : s.want[l] # s.snap[l].head}
           base == IF s.cmd = "base" THEN s.base ELSE NoBase
           source(changed, lo, local) ==
               [l \in Layers |-> IF l \notin changed THEN s.want[l]
                                 ELSE IF l = lo THEN local ELSE <<o, l>>]
           after(changed, lo, local, rebased) ==
               [l \in Layers |-> IF l \in rebased THEN <<o, l>>
                                 ELSE source(changed, lo, local)[l]]
           t == [s EXCEPT !.pc = "reobserve", !.op = o, !.resumed = FALSE, !.idx = 1,
                          !.obs = Heads]
<1>1. PICK changed \in SUBSET Layers, lo \in Layers, rebased \in SUBSET Layers :
        \E local \in LocalHeads(p, o, lo) :
          /\ rec' = [rec EXCEPT ![o] =
                [lo |-> lo, before |-> s.want, after |-> after(changed, lo, local, rebased),
                 base |-> base, adopt |-> adopted]]
          /\ Step(p, t)
  BY ZenonT(60) DEF Calculate
<1>2. PICK local \in LocalHeads(p, o, lo) :
          /\ rec' = [rec EXCEPT ![o] =
                [lo |-> lo, before |-> s.want, after |-> after(changed, lo, local, rebased),
                 base |-> base, adopt |-> adopted]]
          /\ Step(p, t)
  BY <1>1
<1>3. o \in Ops /\ o \in 0..MaxOps /\ nops' \in 0..MaxOps
  BY Bounds DEF Calculate, TypeOK, Ops
<1>4. s \in SelfSet
  BY DEF TypeOK
<1>5. local \in Commit
  BY <1>3, LocalHeadType
<1>6. \A l \in Layers : <<o, l>> \in Commit /\ s.want[l] \in Commit
  <2>1. \A l \in Layers : <<o, l>> \in Commit
    BY <1>3, Bounds DEF Commit, Ops, Layers
  <2>2. s.want \in [Layers -> Commit]
    BY <1>4 DEF SelfSet
  <2> QED
    BY <2>1, <2>2
<1>7. after(changed, lo, local, rebased) \in [Layers -> Commit]
  BY <1>5, <1>6
<1>8. [lo |-> lo, before |-> s.want, after |-> after(changed, lo, local, rebased),
       base |-> base, adopt |-> adopted] \in RecordSet
  <2> HIDE DEF after
  <2> QED
    BY <1>4, <1>7 DEF SelfSet, RecordSet
<1>9. rec' \in [Ops -> RecordSet]
  <2> HIDE DEF after, adopted, base
  <2> QED
    BY <1>2, <1>8 DEF TypeOK
<1>10. t \in SelfSet /\ t.op = o
  BY <1>3, <1>4, ConstantTypes, Targets, ZenonT(60) DEF SelfSet, PCs, Observing
<1>11. SelfOK'
  <2> HIDE DEF t
  <2> QED
    BY <1>2, <1>3, <1>10, StepKeepsType, TypeOKParts
<1> QED
  BY <1>3, <1>9, <1>11, SMTT(60) DEF Calculate, TypeOK, SelfOK, log, remote

LEMMA AppendEventType ==
    ASSUME TypeOK, NEW p \in Procs, AppendEvent(p)
    PROVE  TypeOK'
<1>1. self[p].op \in Ops /\ self[p] \in SelfSet
  BY DEF AppendEvent, TypeOK, PCs, Engaged
<1>2. CASE Quit(p) /\ UNCHANGED posts
  <2>1. SelfOK'
    BY <1>2, QuitKeepsType, TypeOKParts
  <2> QED
    BY <1>2, <2>1 DEF AppendEvent, TypeOK, SelfOK, remote
<1>3. ASSUME NEW n \in Clock(self[p].op, Role(self[p].pc)),
             posts' = posts \cup {Event(self[p].op, Role(self[p].pc), n)},
             Step(p, [self[p] EXCEPT !.pc = Awaiting(self[p].pc), !.stamp = n])
      PROVE  TypeOK'
  <2> DEFINE s == [self[p] EXCEPT !.pc = Awaiting(self[p].pc), !.stamp = n]
  <2>1. n \in 0..MaxStamp
    BY Bounds DEF Clock
  <2>2. Role(self[p].pc) \in Roles /\ Awaiting(self[p].pc) \in PCs
    BY DEF Role, Roles, Awaiting, PCs
  <2>3. Event(self[p].op, Role(self[p].pc), n) \in EventSet
    BY <1>1, <2>1, <2>2 DEF Event, EventSet
  <2>4. s \in SelfSet /\ s.op = self[p].op
    BY <1>1, <2>1, <2>2 DEF SelfSet
  <2>5. SelfOK'
    BY <1>1, <1>3, <2>4, StepKeepsType, TypeOKParts
  <2> QED
    BY <1>3, <2>3, <2>5 DEF AppendEvent, TypeOK, SelfOK, remote
<1> QED
  BY <1>2, <1>3 DEF AppendEvent

LEMMA PushType ==
    ASSUME TypeOK, NEW p \in Procs, Push(p)
    PROVE  TypeOK'
<1>1. self[p].op \in Ops
  BY DEF Push, TypeOK, PCs, Engaged
<1>2. Moves(p)
  BY <1>1, Targets DEF Push, Moves, PCs, Observing, Engaged
<1>3. SelfOK'
  BY <1>2, QuitKeepsType, GotoKeepsType, TypeOKParts DEF Moves
<1> QED
  BY <1>1, <1>3 DEF Push, TypeOK, SelfOK, log

LEMMA WriteCheckpointType ==
    ASSUME TypeOK, NEW p \in Procs, WriteCheckpoint(p)
    PROVE  TypeOK'
<1> DEFINE l == self[p].idx
           r == rec[self[p].op]
<1>1. self[p].op \in Ops /\ l \in 1..(N + 1) /\ self[p] \in SelfSet
  BY DEF WriteCheckpoint, TypeOK, PCs, Engaged, SelfSet
<1>2. r \in RecordSet /\ r.lo \in Layers
  BY <1>1, JournalTypes
<1>3. l \in Layers => ParentEdge(p, l) \in Commit /\ r.after[l] \in Commit
  <2>1. l \in Layers /\ l > r.lo => l - 1 \in Layers
    BY <1>2, Bounds DEF Layers
  <2>2. r.after \in [Layers -> Commit] /\ r.base \in Commit \cup {NoBase}
    BY <1>2 DEF RecordSet
  <2>3. l \in Layers => self[p].snap[l].parent \in Commit
    BY <1>1 DEF SelfSet, PairSet
  <2> QED
    BY <2>1, <2>2, <2>3 DEF ParentEdge
<1>4. cp' \in [Layers -> PairSet]
  BY <1>3 DEF WriteCheckpoint, TypeOK, PairSet
<1>5. Moves(p)
  <2>1. l < N => l + 1 \in 1..(N + 1)
    BY <1>1, Bounds
  <2> QED
    BY <1>1, <2>1, Targets DEF WriteCheckpoint, Moves, PCs
<1>6. SelfOK'
  BY <1>5, QuitKeepsType, GotoKeepsType, TypeOKParts DEF Moves
<1> QED
  BY <1>4, <1>6 DEF WriteCheckpoint, TypeOK, SelfOK, log, remote

\* What the environment does.
LEMMA StopType ==
    ASSUME TypeOK, NEW p \in Procs, Stop(p)
    PROVE  TypeOK'
<1>1. SelfOK'
  BY QuitKeepsType, TypeOKParts DEF Stop
<1> QED
  BY <1>1 DEF Stop, TypeOK, SelfOK, log, remote

LEMMA CarrierType ==
    ASSUME TypeOK, NEW e \in posts, Land(e) \/ Lose(e)
    PROVE  TypeOK'
  BY DEF Land, Lose, TypeOK, remote

LEMMA RemoteType ==
    ASSUME TypeOK, NEW o \in pushes, Serve(o) \/ LosePush(o)
    PROVE  TypeOK'
<1>0. o \in Ops
  BY DEF TypeOK
<1>1. CASE Serve(o)
  <2>1. \A l \in Updates(o) : l \in Layers /\ rec[o].after[l] \in Commit
    <3>1. rec[o].lo \in Layers /\ rec[o] \in RecordSet
      BY <1>0, JournalTypes
    <3>2. Affected(o) \subseteq Layers
      BY <3>1, Bounds DEF Affected, Layers
    <3> QED
      BY <3>1, <3>2 DEF Updates, RecordSet
  <2>2. ref' \in [0..N -> Commit]
    BY <1>1, <2>1 DEF Serve, TypeOK
  <2> QED
    BY <1>0, <1>1, <2>2 DEF Serve, TypeOK, log
<1>2. CASE LosePush(o)
  <2>1. \A q \in Procs : self'[q] \in {Idle, self[q]}
    BY <1>2 DEF LosePush
  <2>2. self' \in [Procs -> SelfSet]
    BY <1>2, ConstantTypes DEF LosePush, TypeOK
  <2>3. Idle.pc \notin Engaged
    BY DEF Idle, Engaged
  <2> QED
    BY <1>2, <2>1, <2>2, <2>3 DEF LosePush, TypeOK, log
<1> QED
  BY <1>1, <1>2

LEMMA ForeignEditType ==
    ASSUME TypeOK, NEW l \in 0..N, ForeignEdit(l)
    PROVE  TypeOK'
<1>1. <<MaxOps + edits + 1, l>> \in Commit
  <2>1. edits \in Nat
    BY DEF TypeOK
  <2> QED
    BY <2>1, Bounds DEF Commit
<1>2. ref' \in [0..N -> Commit] /\ edits' \in Nat
  BY <1>1 DEF ForeignEdit, TypeOK
<1> QED
  BY <1>2 DEF ForeignEdit, TypeOK, log

LEMMA NextTypeOK == TypeOK /\ [Next]_vars => TypeOK'
<1> SUFFICES ASSUME TypeOK, [Next]_vars PROVE TypeOK'
  OBVIOUS
<1>1. ASSUME NEW p \in Procs, Own(p) PROVE TypeOK'
  BY <1>1, ReadTrainType, RouteType, ResolveAdoptedType, ObserveType, SimpleMovesType,
     CalculateType, AppendEventType, PushType, WriteCheckpointType DEF Own
<1>2. ASSUME NEW p \in Procs, Stop(p) PROVE TypeOK'
  BY <1>2, StopType
<1>3. ASSUME NEW p \in Procs, NEW c \in Cmds, Begin(p, c) PROVE TypeOK'
  BY <1>3, BeginType
<1>4. ASSUME NEW e \in posts, Land(e) \/ Lose(e) PROVE TypeOK'
  BY <1>4, CarrierType
<1>5. ASSUME NEW o \in pushes, Serve(o) \/ LosePush(o) PROVE TypeOK'
  BY <1>5, RemoteType
<1>6. ASSUME NEW l \in 0..N, ForeignEdit(l) PROVE TypeOK'
  BY <1>6, ForeignEditType
<1>7. CASE UNCHANGED vars
  BY <1>7 DEF vars, TypeOK
<1> QED
  BY <1>1, <1>2, <1>3, <1>4, <1>5, <1>6, <1>7 DEF Next

(***************************************************************************)
(* Type correctness of synchronization and recovery, for every number of   *)
(* processes, machines, layers and faults: in particular no process ever   *)
(* acts on an operation that was not recorded.                             *)
(***************************************************************************)
THEOREM TypeCorrect == Spec => []TypeOK
  BY InitTypeOK, NextTypeOK, PTL DEF Spec

-----------------------------------------------------------------------------
\* Comments are only ever added, so a durable record stays durable.
LEMMA JournalGrows == [Next]_vars => Prepared \subseteq Prepared'
<1> SUFFICES ASSUME [Next]_vars PROVE journal \subseteq journal'
  BY ZenonT(60) DEF Prepared, Having
<1>1. ASSUME NEW p \in Procs, Own(p) PROVE journal' = journal
  BY <1>1 DEF Own, ReadTrain, Route, ResolveAdopted, NothingToAdopt, Observe, Preflight,
     Calculate, NothingToDo, Reobserve, AppendEvent, ReadBack, Ambiguous, Push, Pushed,
     Rejected, Verify, WriteCheckpoint, Classify, Reclassify, shared, log
<1>2. ASSUME NEW p \in Procs, Stop(p) PROVE journal' = journal
  BY <1>2 DEF Stop, log
<1>3. ASSUME NEW p \in Procs, NEW c \in Cmds, Begin(p, c) PROVE journal' = journal
  BY <1>3 DEF Begin, shared, log
<1>4. ASSUME NEW e \in posts, Land(e) \/ Lose(e) PROVE journal \subseteq journal'
  BY <1>4 DEF Land, Lose
<1>5. ASSUME NEW o \in pushes, Serve(o) \/ LosePush(o) PROVE journal' = journal
  BY <1>5 DEF Serve, LosePush, log
<1>6. ASSUME NEW l \in 0..N, ForeignEdit(l) PROVE journal' = journal
  BY <1>6 DEF ForeignEdit, log
<1>7. CASE UNCHANGED vars
  BY <1>7 DEF vars
<1> QED
  BY <1>1, <1>2, <1>3, <1>4, <1>5, <1>6, <1>7 DEF Next

\* The two conjuncts of JournalFirst, against the journal of the earlier state.
Requested == pushes \cup applied \cup refused
PushersRecorded == \A q \in Procs : self[q].pc \in {"push", "pushing"} => self[q].op \in Prepared
PushersStay     == \A q \in Procs : self'[q].pc \in {"push", "pushing"} => self'[q].op \in Prepared

LEMMA StepRecorded ==
    ASSUME self \in [Procs -> SelfSet], PushersRecorded, NEW p \in Procs, NEW s, Step(p, s),
           s.pc \in {"push", "pushing"} => s.op \in Prepared
    PROVE  PushersStay
  BY DEF Step, PushersRecorded, PushersStay

\* A move that is not to the push keeps the requirement vacuously.
LEMMA MoveRecorded ==
    ASSUME self \in [Procs -> SelfSet], PushersRecorded, NEW p \in Procs,
           \/ Quit(p)
           \/ \E pc \in PCs, idx \in 1..(N + 1) :
                /\ Goto(p, pc, idx)
                /\ pc \in {"push", "pushing"} => self[p].op \in Prepared
    PROVE  PushersStay
<1>1. CASE Quit(p)
  <2>1. Idle.pc \notin {"push", "pushing"}
    BY DEF Idle
  <2> QED
    BY <1>1, <2>1, StepRecorded DEF Quit
<1>2. ASSUME NEW pc \in PCs, NEW idx \in 1..(N + 1), Goto(p, pc, idx),
             pc \in {"push", "pushing"} => self[p].op \in Prepared
      PROVE  PushersStay
  <2> DEFINE s == [self[p] EXCEPT !.pc = pc, !.idx = idx, !.obs = Heads, !.stamp = 0]
  <2>1. s.pc = pc /\ s.op = self[p].op
    BY DEF SelfSet
  <2>2. Step(p, s)
    BY <1>2 DEF Goto
  <2> HIDE DEF s
  <2> QED
    BY <1>2, <2>1, <2>2, StepRecorded
<1> QED
  BY <1>1, <1>2

\* Only the read-back of one's own prepared record leads to the push.
LEMMA ReadBackRecorded ==
    ASSUME TypeOK, JournalFirst, NEW p \in Procs, ReadBack(p)
    PROVE  PushersStay
<1>1. self[p].pc = "prepared?" => self[p].op \in Prepared
  <2>1. self[p].pc = "prepared?" => Mine(p).id = self[p].op /\ Mine(p).role = "prepared"
    BY DEF Mine, Role, Event
  <2> QED
    BY <2>1 DEF ReadBack, Prepared, Having
<1>2. \/ Quit(p) \/ Goto(p, "train", 1)
      \/ self[p].pc = "prepared?" /\ Goto(p, "push", 1)
  BY DEF ReadBack
<1>3. self \in [Procs -> SelfSet] /\ PushersRecorded
  BY DEF TypeOK, JournalFirst, PushersRecorded
<1>4. "train" \in PCs /\ "push" \in PCs
  BY DEF PCs
<1> QED
  BY <1>1, <1>2, <1>3, <1>4, MoveRecorded, Targets

\* The other steps of a process: none but Push and Pushed is near a push.
LEMMA OwnRecorded ==
    ASSUME TypeOK, JournalFirst, NEW p \in Procs, Own(p)
    PROVE  PushersStay
<1>0. self \in [Procs -> SelfSet] /\ PushersRecorded /\ self[p] \in SelfSet
  BY DEF TypeOK, JournalFirst, PushersRecorded
<1> USE <1>0, Targets
<1>1. CASE ReadTrain(p) \/ Observe(p)
  <2>1. PICK s : Step(p, s) /\ s.pc \notin {"push", "pushing"}
    <3>1. CASE ReadTrain(p)
      <4> WITNESS [self[p] EXCEPT !.pc = "fold", !.base = ref[0], !.snap = cp]
      <4> QED
        BY <3>1 DEF ReadTrain, SelfSet
    <3>2. CASE Observe(p)
      <4> WITNESS [self[p] EXCEPT !.obs[self[p].idx] = ref[self[p].idx], !.idx = @ + 1]
      <4> QED
        BY <3>2 DEF Observe, Observing, SelfSet
    <3> QED
      BY <1>1, <3>1, <3>2
  <2> QED
    BY <2>1, StepRecorded
<1>2. CASE ResolveAdopted(p)
  <2>1. PICK w : Step(p, [self[p] EXCEPT !.pc = "preflight", !.want = w])
    BY <1>2 DEF ResolveAdopted
  <2>2. [self[p] EXCEPT !.pc = "preflight", !.want = w].pc = "preflight"
    BY DEF SelfSet
  <2> QED
    BY <2>1, <2>2, StepRecorded
<1>3. CASE Calculate(p)
  <2> DEFINE s == [self[p] EXCEPT !.pc = "reobserve", !.op = nops + 1, !.resumed = FALSE,
                                  !.idx = 1, !.obs = Heads]
  <2>1. Step(p, s)
    BY <1>3 DEF Calculate
  <2>2. s.pc = "reobserve"
    BY DEF SelfSet
  <2> HIDE DEF s
  <2> QED
    BY <2>1, <2>2, StepRecorded
<1>4. CASE Route(p)
  <2>1. CASE Quit(p) \/ Goto(p, "adopt", 1)
    BY <2>1, MoveRecorded DEF PCs
  <2>2. ASSUME NEW o, NEW i,
               Step(p, [self[p] EXCEPT !.pc = "classify", !.op = o, !.resumed = TRUE,
                                       !.idx = i])
        PROVE  PushersStay
    <3>1. [self[p] EXCEPT !.pc = "classify", !.op = o, !.resumed = TRUE,
                          !.idx = i].pc = "classify"
      BY DEF SelfSet
    <3> QED
      BY <2>2, <3>1, StepRecorded
  <2>3. ASSUME NEW w, Step(p, [self[p] EXCEPT !.pc = "preflight", !.want = w])
        PROVE  PushersStay
    <3>1. [self[p] EXCEPT !.pc = "preflight", !.want = w].pc = "preflight"
      BY DEF SelfSet
    <3> QED
      BY <2>3, <3>1, StepRecorded
  <2> QED
    BY <1>4, <2>1, <2>2, <2>3 DEF Route
<1>5. CASE NothingToAdopt(p) \/ NothingToDo(p) \/ Ambiguous(p)
  BY <1>5, MoveRecorded DEF NothingToAdopt, NothingToDo, Ambiguous
<1>6. CASE Preflight(p) \/ Reobserve(p) \/ Rejected(p) \/ Reclassify(p)
  BY <1>6, MoveRecorded DEF Preflight, Reobserve, Rejected, Reclassify, PCs, Observing
<1>7. CASE Verify(p) \/ Classify(p)
  BY <1>7, MoveRecorded DEF Verify, Classify, Observed, PCs, Observing, Engaged
<1>8. CASE ReadBack(p)
  BY <1>8, ReadBackRecorded
<1>9. CASE AppendEvent(p)
  <2>1. ASSUME NEW n, Step(p, [self[p] EXCEPT !.pc = Awaiting(self[p].pc), !.stamp = n])
        PROVE  PushersStay
    <3>1. [self[p] EXCEPT !.pc = Awaiting(self[p].pc), !.stamp = n].pc \notin {"push", "pushing"}
      BY DEF SelfSet, Awaiting
    <3> QED
      BY <2>1, <3>1, StepRecorded
  <2> QED
    BY <1>9, <2>1, MoveRecorded DEF AppendEvent
<1>10. CASE Push(p) \/ Pushed(p)
  BY <1>10, MoveRecorded DEF Push, Pushed, PushersRecorded, PCs, Observing, Engaged
<1>11. CASE WriteCheckpoint(p)
  <2>1. self[p].idx < N => self[p].idx + 1 \in 1..(N + 1)
    BY Bounds DEF SelfSet
  <2> QED
    BY <1>11, <2>1, MoveRecorded, SMTT(60) DEF WriteCheckpoint, PCs
<1> QED
  BY <1>1, <1>2, <1>3, <1>4, <1>5, <1>6, <1>7, <1>8, <1>9, <1>10, <1>11 DEF Own

LEMMA InitJournalFirst == Init => JournalFirst
  BY DEF Init, JournalFirst, Idle

LEMMA NextJournalFirst == TypeOK /\ JournalFirst /\ [Next]_vars => JournalFirst'
<1> SUFFICES ASSUME TypeOK, JournalFirst, [Next]_vars
             PROVE  Requested' \subseteq Prepared /\ PushersStay
  BY JournalGrows DEF JournalFirst, Requested, PushersStay
<1>0. self \in [Procs -> SelfSet] /\ PushersRecorded /\ Requested \subseteq Prepared
  BY DEF TypeOK, JournalFirst, PushersRecorded, Requested
<1>1. ASSUME NEW p \in Procs, Own(p) PROVE Requested' \subseteq Prepared /\ PushersStay
  <2>1. CASE Push(p)
    BY <1>0, <1>1, <2>1, OwnRecorded, SMTT(60) DEF Push, PushersRecorded, Requested
  <2>2. ASSUME ~ Push(p) PROVE Requested' = Requested
    BY <1>1, <2>2 DEF Own, ReadTrain, Route, ResolveAdopted, NothingToAdopt, Observe,
       Preflight, Calculate, NothingToDo, Reobserve, AppendEvent, ReadBack, Ambiguous,
       Pushed, Rejected, Verify, WriteCheckpoint, Classify, Reclassify,
       shared, remote, Requested
  <2> QED
    BY <1>0, <1>1, <2>1, <2>2, OwnRecorded
<1>2. ASSUME NEW p \in Procs, Stop(p) PROVE Requested' \subseteq Prepared /\ PushersStay
  BY <1>0, <1>2, MoveRecorded DEF Stop, remote, Requested
<1>3. ASSUME NEW p \in Procs, NEW c \in Cmds, Begin(p, c)
      PROVE  Requested' \subseteq Prepared /\ PushersStay
  <2>1. Step(p, [Idle EXCEPT !.pc = "train", !.cmd = c])
    BY <1>3 DEF Begin
  <2>2. [Idle EXCEPT !.pc = "train", !.cmd = c].pc = "train"
    BY DEF Idle
  <2> QED
    BY <1>0, <1>3, <2>1, <2>2, StepRecorded DEF Begin, shared, remote, Requested
<1>4. ASSUME NEW e \in posts, Land(e) \/ Lose(e)
      PROVE  Requested' \subseteq Prepared /\ PushersStay
  BY <1>0, <1>4 DEF Land, Lose, remote, Requested, PushersRecorded, PushersStay
<1>5. ASSUME NEW o \in pushes, Serve(o) \/ LosePush(o)
      PROVE  Requested' \subseteq Prepared /\ PushersStay
  <2>1. CASE Serve(o)
    BY <1>0, <2>1 DEF Serve, Requested, PushersRecorded, PushersStay
  <2>2. CASE LosePush(o)
    BY <1>0, <2>2 DEF LosePush, Idle, Requested, PushersRecorded, PushersStay
  <2> QED
    BY <1>5, <2>1, <2>2
<1>6. ASSUME NEW l \in 0..N, ForeignEdit(l)
      PROVE  Requested' \subseteq Prepared /\ PushersStay
  BY <1>0, <1>6 DEF ForeignEdit, Requested, PushersRecorded, PushersStay
<1>7. CASE UNCHANGED vars
  BY <1>0, <1>7 DEF vars, Requested, PushersRecorded, PushersStay
<1> QED
  BY <1>1, <1>2, <1>3, <1>4, <1>5, <1>6, <1>7 DEF Next

(***************************************************************************)
(* Journal first, for any number of machines and any schedule of crashes,  *)
(* lost and late requests: sync.py pushes nothing whose prepared record    *)
(* is not durable, so every push that ever happens can be classified and   *)
(* concluded by another machine.                                           *)
(***************************************************************************)
THEOREM JournalFirstHolds == Spec => []JournalFirst
  BY InitTypeOK, NextTypeOK, InitJournalFirst, NextJournalFirst, PTL DEF Spec

-----------------------------------------------------------------------------
\* Only the remote serving an atomic push, or an edit out of band, moves a ref.
LEMMA WhoMovesRefs ==
    ASSUME TypeOK, [Next]_vars, NEW l \in Layers, ref'[l] # ref[l], edits' = edits
    PROVE  \E o \in pushes : Serve(o)
<1>1. ASSUME NEW p \in Procs, Own(p) PROVE ref' = ref
  BY <1>1 DEF Own, ReadTrain, Route, ResolveAdopted, NothingToAdopt, Observe, Preflight,
     Calculate, NothingToDo, Reobserve, AppendEvent, ReadBack, Ambiguous, Push, Pushed,
     Rejected, Verify, WriteCheckpoint, Classify, Reclassify, shared, remote
<1>2. ASSUME NEW p \in Procs, Stop(p) \/ \E c \in Cmds : Begin(p, c) PROVE ref' = ref
  BY <1>2 DEF Stop, Begin, shared, remote
<1>3. ASSUME NEW e \in posts, Land(e) \/ Lose(e) PROVE ref' = ref
  BY <1>3 DEF Land, Lose, remote
<1>4. ASSUME NEW o \in pushes, LosePush(o) PROVE ref' = ref
  BY <1>4 DEF LosePush
<1>5. ASSUME NEW k \in 0..N, ForeignEdit(k) PROVE FALSE
  <2>1. edits \in Nat
    BY DEF TypeOK
  <2>2. edits' = edits + 1
    BY <1>5 DEF ForeignEdit
  <2> QED
    BY <2>1, <2>2
<1>6. CASE UNCHANGED vars
  BY <1>6 DEF vars
<1> QED
  BY <1>1, <1>2, <1>3, <1>4, <1>5, <1>6, ZenonT(60) DEF Next

(***************************************************************************)
(* No out-of-band edit is lost, for every number of layers and machines:   *)
(* the leases of the atomic push and journal first together mean that a    *)
(* head pushed by somebody else is replaced only by an operation that      *)
(* durably recorded that very head.                                        *)
(***************************************************************************)
THEOREM NoEditLost == Spec => EditsNotLost
<1> DEFINE A == \A l \in Layers : Foreign(ref[l]) /\ ref'[l] # ref[l] /\ edits' = edits
                  => \E o \in Prepared : rec[o].before[l] = ref[l] /\ l >= rec[o].lo
<1>1. ASSUME TypeOK, JournalFirst, [Next]_vars PROVE A
  <2> SUFFICES ASSUME NEW l \in Layers, ref'[l] # ref[l], edits' = edits
               PROVE  \E o \in Prepared : rec[o].before[l] = ref[l] /\ l >= rec[o].lo
    OBVIOUS
  <2>1. PICK o \in pushes : Serve(o)
    BY <1>1, WhoMovesRefs
  <2>2. l \in 0..N
    BY Bounds DEF Layers
  <2>3. /\ l \in Updates(o) /\ ref'[l] = rec[o].after[l]
        /\ ref[l] \in {rec[o].before[l], rec[o].after[l]}
    BY <2>1, <2>2 DEF Serve
  <2>4. o \in Prepared /\ o \in Ops
    BY <1>1 DEF JournalFirst, TypeOK
  <2>5. l >= rec[o].lo
    BY <1>1, <2>3, <2>4, JournalTypes, Bounds DEF Updates, Affected, Layers
  <2> QED
    BY <2>3, <2>4, <2>5
<1>2. TypeOK /\ JournalFirst /\ [Next]_vars => [A]_vars
  BY <1>1
<1> QED
  BY <1>2, InitTypeOK, NextTypeOK, InitJournalFirst, NextJournalFirst, PTL
     DEF Spec, EditsNotLost

-----------------------------------------------------------------------------
(***************************************************************************)
(* Every head that enters a checkpoint was really published.               *)
(***************************************************************************)

(* What each way of changing a process leaves in its fields. *)

Others(p) == \A q \in Procs : q # p => self'[q] = self[q]

LEMMA StepFields ==
    ASSUME self \in [Procs -> SelfSet], NEW p \in Procs, NEW s, Step(p, s)
    PROVE  self'[p] = s /\ Others(p)
  BY DEF Step, Others

LEMMA QuitFields ==
    ASSUME self \in [Procs -> SelfSet], NEW p \in Procs, Quit(p)
    PROVE  self'[p] = Idle /\ Others(p)
  BY StepFields DEF Quit

LEMMA IdleFields ==
    /\ Idle.pc = "idle" /\ Idle.snap = Pairs /\ Idle.want = Heads /\ Idle.obs = Heads
    /\ Idle.idx = 1 /\ Idle.op = 0 /\ Idle.cmd = "none"
    /\ Idle.base = NoBase /\ Idle.stamp = 0
  BY DEF Idle

LEMMA GotoFields ==
    ASSUME self \in [Procs -> SelfSet], NEW p \in Procs, NEW pc, NEW idx, Goto(p, pc, idx)
    PROVE  /\ Others(p)
           /\ self'[p].pc = pc /\ self'[p].idx = idx /\ self'[p].obs = Heads
           /\ self'[p].stamp = 0
           /\ self'[p].cmd = self[p].cmd /\ self'[p].op = self[p].op
           /\ self'[p].base = self[p].base /\ self'[p].snap = self[p].snap
           /\ self'[p].want = self[p].want /\ self'[p].resumed = self[p].resumed
<1> DEFINE s == [self[p] EXCEPT !.pc = pc, !.idx = idx, !.obs = Heads, !.stamp = 0]
<1>1. self'[p] = s /\ Others(p)
  BY StepFields DEF Goto
<1>2. self[p] \in SelfSet
  OBVIOUS
<1> QED
  BY <1>1, <1>2 DEF SelfSet

LEMMA BeginFields ==
    ASSUME self \in [Procs -> SelfSet], NEW p \in Procs, NEW c \in Cmds, Begin(p, c)
    PROVE  /\ Others(p) /\ self'[p].pc = "train" /\ self'[p].snap = Pairs
           /\ self'[p].want = Heads /\ self'[p].obs = Heads /\ self'[p].idx = 1
           /\ self'[p].base = NoBase
<1>1. self'[p] = [Idle EXCEPT !.pc = "train", !.cmd = c] /\ Others(p)
  BY StepFields DEF Begin
<1> QED
  BY <1>1 DEF Idle

LEMMA ReadTrainFields ==
    ASSUME self \in [Procs -> SelfSet], NEW p \in Procs, ReadTrain(p)
    PROVE  /\ Others(p)
           /\ self'[p].pc = "fold" /\ self'[p].snap = cp /\ self'[p].base = ref[0]
           /\ self'[p].want = self[p].want /\ self'[p].obs = self[p].obs
<1>1. self'[p] = [self[p] EXCEPT !.pc = "fold", !.base = ref[0], !.snap = cp] /\ Others(p)
  BY StepFields DEF ReadTrain
<1>2. self[p] \in SelfSet
  OBVIOUS
<1> QED
  BY <1>1, <1>2 DEF SelfSet

\* The outcomes of Route: give up, conclude an unresolved operation, look for
\* what to adopt, or start the preflight.
Resumes(p, o) == /\ o \in Unsettled /\ Others(p)
                 /\ self'[p].pc = "classify" /\ self'[p].op = o
                 /\ self'[p].idx = rec[o].lo
                 /\ self'[p].snap = self[p].snap /\ self'[p].want = self[p].want
                 /\ self'[p].obs = self[p].obs

Starts(p) == /\ Unsettled = {} /\ Others(p)
             /\ self'[p].pc = "preflight" /\ self'[p].snap = self[p].snap
             /\ self'[p].want = [l \in Layers |-> self[p].snap[l].head]
             /\ self'[p].obs = self[p].obs

LEMMA RouteFields ==
    ASSUME self \in [Procs -> SelfSet], NEW p \in Procs, Route(p)
    PROVE  \/ Quit(p)
           \/ \E o \in Unsettled : Resumes(p, o)
           \/ Unsettled = {} /\ Goto(p, "adopt", 1)
           \/ Starts(p)
<1>0. self[p] \in SelfSet
  OBVIOUS
<1>1. ASSUME NEW o \in Unsettled,
             Step(p, [self[p] EXCEPT !.pc = "classify", !.op = o, !.resumed = TRUE,
                                     !.idx = rec[o].lo])
      PROVE  Resumes(p, o)
  <2>1. self'[p] = [self[p] EXCEPT !.pc = "classify", !.op = o, !.resumed = TRUE,
                                   !.idx = rec[o].lo] /\ Others(p)
    BY <1>1, StepFields
  <2> QED
    BY <1>0, <2>1 DEF SelfSet, Resumes
<1>2. ASSUME Unsettled = {},
             Step(p, [self[p] EXCEPT !.pc = "preflight",
                        !.want = [l \in Layers |-> self[p].snap[l].head]])
      PROVE  Starts(p)
  <2>1. self'[p] = [self[p] EXCEPT !.pc = "preflight",
                      !.want = [l \in Layers |-> self[p].snap[l].head]] /\ Others(p)
    BY <1>2, StepFields
  <2> QED
    BY <1>0, <1>2, <2>1 DEF SelfSet, Starts
<1> QED
  BY <1>1, <1>2 DEF Route

LEMMA ResolveAdoptedFields ==
    ASSUME self \in [Procs -> SelfSet], NEW p \in Procs, ResolveAdopted(p)
    PROVE  /\ Others(p)
           /\ self'[p].pc = "preflight" /\ self'[p].snap = self[p].snap
           /\ self'[p].obs = self[p].obs
           /\ \E a \in Layers :
                /\ ref[a] # self[p].snap[a].head
                /\ self'[p].want = [l \in Layers |-> IF l = a THEN ref[a]
                                                     ELSE self[p].snap[l].head]
<1>0. self[p] \in SelfSet
  OBVIOUS
<1>1. PICK a \in Layers :
         /\ ref[a] # self[p].snap[a].head
         /\ Step(p, [self[p] EXCEPT !.pc = "preflight",
                  !.want = [l \in Layers |-> IF l = a THEN ref[a]
                                             ELSE self[p].snap[l].head]])
  BY DEF ResolveAdopted
<1> DEFINE w == [l \in Layers |-> IF l = a THEN ref[a] ELSE self[p].snap[l].head]
<1>2. self'[p] = [self[p] EXCEPT !.pc = "preflight", !.want = w] /\ Others(p)
  BY <1>1, StepFields
<1>3. self'[p].want = w
  BY <1>0, <1>2 DEF SelfSet
<1>4. /\ self'[p].pc = "preflight" /\ self'[p].snap = self[p].snap
      /\ self'[p].obs = self[p].obs
  BY <1>0, <1>2 DEF SelfSet
<1> QED
  BY <1>1, <1>2, <1>3, <1>4

LEMMA ObserveFields ==
    ASSUME self \in [Procs -> SelfSet], NEW p \in Procs, Observe(p)
    PROVE  /\ Others(p)
           /\ self[p].idx \in Layers
           /\ self'[p].pc = self[p].pc /\ self'[p].op = self[p].op
           /\ self'[p].idx = self[p].idx + 1
           /\ self'[p].snap = self[p].snap /\ self'[p].want = self[p].want
           /\ self'[p].obs = [self[p].obs EXCEPT ![self[p].idx] = ref[self[p].idx]]
<1>0. self[p] \in SelfSet
  OBVIOUS
<1>1. self'[p] = [self[p] EXCEPT !.obs[self[p].idx] = ref[self[p].idx], !.idx = @ + 1]
      /\ Others(p)
  BY StepFields DEF Observe
<1> QED
  BY <1>0, <1>1 DEF Observe, SelfSet

\* What Calculate records: its candidates, layer by layer.
LEMMA CalculateFields ==
    ASSUME TypeOK, NEW p \in Procs, Calculate(p)
    PROVE  /\ Others(p) /\ nops + 1 \in Ops /\ nops' = nops + 1
           /\ self'[p].pc = "reobserve" /\ self'[p].op = nops + 1 /\ self'[p].idx = 1
           /\ self'[p].snap = self[p].snap /\ self'[p].want = self[p].want
           /\ self'[p].obs = Heads
           /\ \A o \in Ops \ {nops + 1} : rec'[o] = rec[o]
           /\ rec'[nops + 1].lo \in Layers
           /\ rec'[nops + 1].before = self[p].want
           /\ rec'[nops + 1].adopt = {l \in Layers : self[p].want[l] # self[p].snap[l].head}
           /\ rec'[nops + 1].base # NoBase => rec'[nops + 1].lo = 1
           /\ \A l \in Layers :
                \/ rec'[nops + 1].after[l] = <<nops + 1, l>>
                \/ rec'[nops + 1].after[l] = self[p].want[l]
                \/ \E q \in 1..nops : /\ rec[q].before[l] = self[p].want[l]
                                      /\ rec'[nops + 1].after[l] = rec[q].after[l]
<1> DEFINE o == nops + 1
           s == self[p]
           adopted == {l \in Layers : s.want[l] # s.snap[l].head}
           base == IF s.cmd = "base" THEN s.base ELSE NoBase
           source(changed, lo, local) ==
               [l \in Layers |-> IF l \notin changed THEN s.want[l]
                                 ELSE IF l = lo THEN local ELSE <<o, l>>]
           after(changed, lo, local, rebased) ==
               [l \in Layers |-> IF l \in rebased THEN <<o, l>>
                                 ELSE source(changed, lo, local)[l]]
           t == [s EXCEPT !.pc = "reobserve", !.op = o, !.resumed = FALSE, !.idx = 1,
                          !.obs = Heads]
<1>1. PICK changed \in SUBSET Layers, lo \in Layers, rebased \in SUBSET Layers :
        /\ base # NoBase => lo = 1
        /\ \E local \in LocalHeads(p, o, lo) :
             /\ rec' = [rec EXCEPT ![o] =
                   [lo |-> lo, before |-> s.want,
                    after |-> after(changed, lo, local, rebased),
                    base |-> base, adopt |-> adopted]]
             /\ Step(p, t)
  BY ZenonT(60) DEF Calculate
<1>2. PICK local \in LocalHeads(p, o, lo) :
          /\ rec' = [rec EXCEPT ![o] =
                [lo |-> lo, before |-> s.want, after |-> after(changed, lo, local, rebased),
                 base |-> base, adopt |-> adopted]]
          /\ Step(p, t)
  BY <1>1
<1>3. o \in Ops /\ nops' = nops + 1
  BY Bounds DEF Calculate, TypeOK, Ops
<1>4. s \in SelfSet /\ self \in [Procs -> SelfSet] /\ rec \in [Ops -> RecordSet]
  BY DEF TypeOK
<1>5. self'[p] = t /\ Others(p)
  <2> HIDE DEF t
  <2> QED
    BY <1>2, <1>4, StepFields
<1>6. /\ t.pc = "reobserve" /\ t.op = o /\ t.idx = 1 /\ t.snap = s.snap
      /\ t.want = s.want /\ t.obs = Heads
  BY <1>4 DEF SelfSet
<1>7. /\ \A k \in Ops \ {o} : rec'[k] = rec[k]
      /\ rec'[o] = [lo |-> lo, before |-> s.want,
                    after |-> after(changed, lo, local, rebased),
                    base |-> base, adopt |-> adopted]
  <2> HIDE DEF after, adopted, base
  <2> QED
    BY <1>2, <1>3, <1>4
<1>8. ASSUME NEW l \in Layers
      PROVE  \/ rec'[o].after[l] = <<o, l>>
             \/ rec'[o].after[l] = s.want[l]
             \/ \E q \in 1..nops : /\ rec[q].before[l] = s.want[l]
                                   /\ rec'[o].after[l] = rec[q].after[l]
  <2>1. \/ rec'[o].after[l] \in {<<o, l>>, s.want[l]}
        \/ l = lo /\ rec'[o].after[l] = local
    <3>1. rec'[o].after[l] = after(changed, lo, local, rebased)[l]
      <4> HIDE DEF after
      <4> QED
        BY <1>7
    <3>2. \/ after(changed, lo, local, rebased)[l] \in {<<o, l>>, s.want[l]}
          \/ l = lo /\ after(changed, lo, local, rebased)[l] = local
      OBVIOUS
    <3> HIDE DEF after
    <3> QED
      BY <3>1, <3>2
  <2>2. \/ local = <<o, lo>>
        \/ \E q \in 1..nops : rec[q].before[lo] = s.want[lo] /\ local = rec[q].after[lo]
    BY DEF LocalHeads
  <2> HIDE DEF after
  <2> QED
    BY <2>1, <2>2
<1>9. /\ rec'[o].lo = lo /\ rec'[o].before = s.want /\ rec'[o].adopt = adopted
      /\ rec'[o].base = base
  <2> HIDE DEF after, adopted, base
  <2> QED
    BY <1>7, SMTT(60)
<1> QED
  <2> HIDE DEF t, after
  <2> QED
    BY <1>1, <1>3, <1>5, <1>6, <1>7, <1>8, <1>9, SMTT(60)

LEMMA AppendEventFields ==
    ASSUME TypeOK, NEW p \in Procs, AppendEvent(p)
    PROVE  \/ Quit(p) /\ posts' = posts
           \/ /\ ~ Gated(p) /\ Others(p)
              /\ self'[p].pc = Awaiting(self[p].pc)
              /\ self'[p].op = self[p].op /\ self'[p].snap = self[p].snap
              /\ self'[p].want = self[p].want /\ self'[p].obs = self[p].obs
              /\ posts' = posts \cup {Event(self[p].op, Role(self[p].pc), self'[p].stamp)}
<1>1. ASSUME NEW n, Step(p, [self[p] EXCEPT !.pc = Awaiting(self[p].pc), !.stamp = n])
      PROVE  /\ Others(p)
             /\ self'[p].pc = Awaiting(self[p].pc) /\ self'[p].stamp = n
             /\ self'[p].op = self[p].op /\ self'[p].snap = self[p].snap
             /\ self'[p].want = self[p].want /\ self'[p].obs = self[p].obs
  <2>1. self'[p] = [self[p] EXCEPT !.pc = Awaiting(self[p].pc), !.stamp = n] /\ Others(p)
    BY <1>1, StepFields DEF TypeOK
  <2>2. self[p] \in SelfSet
    BY DEF TypeOK
  <2> QED
    BY <2>1, <2>2 DEF SelfSet
<1> QED
  BY <1>1 DEF AppendEvent

-----------------------------------------------------------------------------
(* The steps that only send a process on, or end its command. *)

Turns == {<<"preflight", "calculate">>, <<"reobserve", "prepare">>,
          <<"prepared?", "push">>, <<"abandoned?", "train">>, <<"completed?", "train">>,
          <<"pushing", "verify">>, <<"pushing", "rejected">>, <<"rejected", "abandon">>,
          <<"verify", "checkpoint">>, <<"classify", "verify">>,
          <<"classify", "reclassify">>, <<"classify", "abandon">>,
          <<"reclassify", "abandon">>}

TurnsAside(p) == \/ NothingToAdopt(p) \/ Preflight(p) \/ NothingToDo(p) \/ Reobserve(p)
                 \/ ReadBack(p) \/ Ambiguous(p) \/ Pushed(p) \/ Rejected(p) \/ Verify(p)
                 \/ Classify(p) \/ Reclassify(p)

\* They touch nothing that is shared, and follow the control flow.
LEMMA TurnFields ==
    ASSUME NEW p \in Procs, TurnsAside(p)
    PROVE  /\ UNCHANGED shared
           /\ \/ Quit(p)
              \/ \E t \in Turns, i \in {1, rec[self[p].op].lo} :
                    self[p].pc = t[1] /\ Goto(p, t[2], i)
<1>1. CASE NothingToAdopt(p) \/ NothingToDo(p) \/ Ambiguous(p)
  BY <1>1 DEF NothingToAdopt, NothingToDo, Ambiguous
<1>2. CASE Preflight(p)
  BY <1>2 DEF Preflight, Observed, Turns
<1>3. CASE Reobserve(p)
  BY <1>3 DEF Reobserve, Observed, Turns
<1>4. CASE ReadBack(p)
  BY <1>4 DEF ReadBack, Turns
<1>5. CASE Pushed(p)
  BY <1>5 DEF Pushed, Turns
<1>6. CASE Rejected(p)
  BY <1>6 DEF Rejected, Observed, Turns
<1>7. CASE Verify(p)
  BY <1>7 DEF Verify, Observed, Turns
<1>8. CASE Classify(p)
  BY <1>8 DEF Classify, Observed, Turns
<1>9. CASE Reclassify(p)
  BY <1>9 DEF Reclassify, Observed, Turns
<1> QED
  BY <1>1, <1>2, <1>3, <1>4, <1>5, <1>6, <1>7, <1>8, <1>9 DEF TurnsAside

\* Every step of a process is one of these or changes something of its own.
LEMMA OwnSteps ==
    ASSUME NEW p \in Procs, Own(p)
    PROVE  \/ TurnsAside(p) \/ ReadTrain(p) \/ Route(p) \/ ResolveAdopted(p)
           \/ Observe(p) \/ Calculate(p) \/ AppendEvent(p) \/ Push(p) \/ WriteCheckpoint(p)
  BY DEF Own, TurnsAside

-----------------------------------------------------------------------------
(***************************************************************************)
(* Operations are minted before anybody names them: every event and every  *)
(* engaged process belongs to one of the operations 1..nops.               *)
(***************************************************************************)
Minted == /\ \A e \in journal \cup posts : e.id \in 1..nops
          /\ \A p \in Procs : self[p].pc \in Engaged => self[p].op \in 1..nops

LEMMA InitMinted == Init => Minted
  BY DEF Init, Minted, Idle, Engaged

\* One process changes, and what it names is minted.
LEMMA OneMinted ==
    ASSUME TypeOK, Minted, NEW p \in Procs, Others(p),
           nops' \in Nat, nops <= nops',
           \A e \in journal' \cup posts' : e.id \in 1..nops',
           self'[p].pc \in Engaged => self'[p].op \in 1..nops'
    PROVE  Minted'
<1>1. 1..nops \subseteq 1..nops'
  BY DEF TypeOK
<1> QED
  BY <1>1 DEF Minted, Others

LEMMA OwnMinted ==
    ASSUME TypeOK, Minted, NEW p \in Procs, Own(p)
    PROVE  Minted'
<1>0. /\ self \in [Procs -> SelfSet] /\ nops \in Nat
      /\ \A e \in journal \cup posts : e.id \in 1..nops
      /\ self[p].pc \in Engaged => self[p].op \in 1..nops
  BY Bounds DEF TypeOK, Minted
<1>1. ASSUME Quit(p), nops' = nops, journal' = journal, posts' = posts PROVE Minted'
  <2>1. self'[p].pc \notin Engaged /\ Others(p)
    BY <1>0, <1>1, QuitFields, IdleFields DEF Engaged
  <2> QED
    BY <1>0, <1>1, <2>1, OneMinted
<1>2. ASSUME NEW pc, NEW i, Goto(p, pc, i), pc \in Engaged => self[p].pc \in Engaged,
             nops' = nops, journal' = journal, posts' = posts
      PROVE  Minted'
  <2>1. self'[p].pc = pc /\ self'[p].op = self[p].op /\ Others(p)
    BY <1>0, <1>2, GotoFields
  <2> QED
    BY <1>0, <1>2, <2>1, OneMinted
<1>3. CASE TurnsAside(p)
  <2>1. nops' = nops /\ journal' = journal /\ posts' = posts
    BY <1>3, TurnFields DEF shared, log
  <2>2. \A t \in Turns : t[2] \in Engaged => t[1] \in Engaged
    BY DEF Turns, Engaged, PCs, Observing
  <2>3. \/ Quit(p)
        \/ \E t \in Turns, i \in {1, rec[self[p].op].lo} :
              self[p].pc = t[1] /\ Goto(p, t[2], i)
    BY <1>3, TurnFields
  <2>4. ASSUME NEW t \in Turns, NEW i, self[p].pc = t[1], Goto(p, t[2], i) PROVE Minted'
    <3>1. t[2] \in Engaged => self[p].pc \in Engaged
      BY <2>2, <2>4
    <3> QED
      BY <1>2, <2>1, <2>4, <3>1
  <2> QED
    BY <1>1, <2>1, <2>3, <2>4
<1>4. CASE ReadTrain(p) \/ ResolveAdopted(p)
  <2>1. Others(p) /\ self'[p].pc \notin Engaged
    BY <1>0, <1>4, ReadTrainFields, ResolveAdoptedFields, ZenonT(60) DEF Engaged
  <2>2. nops' = nops /\ journal' = journal /\ posts' = posts
    BY <1>4 DEF ReadTrain, ResolveAdopted, shared, log
  <2> QED
    BY <1>0, <2>1, <2>2, OneMinted
<1>5. CASE Route(p)
  <2>1. nops' = nops /\ journal' = journal /\ posts' = posts
    BY <1>5 DEF Route, shared, log
  <2>2. ASSUME NEW o \in Unsettled, Resumes(p, o) PROVE Minted'
    <3>1. o \in 1..nops
      BY <1>0, <2>2 DEF Unsettled, UnresolvedIn, Having
    <3> QED
      BY <1>0, <2>1, <2>2, <3>1, OneMinted DEF Resumes
  <2>3. CASE Starts(p)
    BY <1>0, <2>1, <2>3, OneMinted DEF Starts, Engaged
  <2>4. CASE Goto(p, "adopt", 1)
    BY <1>2, <2>1, <2>4 DEF Engaged
  <2>5. \/ Quit(p) \/ Goto(p, "adopt", 1) \/ Starts(p)
        \/ \E o \in Unsettled : Resumes(p, o)
    BY <1>0, <1>5, RouteFields
  <2> QED
    BY <1>1, <2>1, <2>2, <2>3, <2>4, <2>5
<1>6. CASE Observe(p)
  <2>1. nops' = nops /\ journal' = journal /\ posts' = posts
    BY <1>6 DEF Observe, shared, log
  <2>2. Others(p) /\ self'[p].pc = self[p].pc /\ self'[p].op = self[p].op
    BY <1>0, <1>6, ObserveFields
  <2> QED
    BY <1>0, <2>1, <2>2, OneMinted
<1>7. CASE Calculate(p)
  <2>1. /\ nops' = nops + 1 /\ journal' = journal /\ posts' = posts
        /\ self'[p].op = nops + 1 /\ Others(p)
    BY <1>7, CalculateFields DEF Calculate, log
  <2>2. 1..nops \subseteq 1..nops' /\ nops + 1 \in 1..nops' /\ nops <= nops' /\ nops' \in Nat
    BY <1>0, <2>1
  <2> QED
    BY <1>0, <2>1, <2>2, OneMinted
<1>8. CASE AppendEvent(p)
  <2>1. nops' = nops /\ journal' = journal /\ self[p].pc \in Engaged
    BY <1>8 DEF AppendEvent, Engaged, PCs
  <2>2. CASE Quit(p) /\ posts' = posts
    BY <1>1, <2>1, <2>2
  <2>3. ASSUME Others(p), self'[p].op = self[p].op,
               posts' = posts \cup {Event(self[p].op, Role(self[p].pc), self'[p].stamp)}
        PROVE  Minted'
    <3> DEFINE new == Event(self[p].op, Role(self[p].pc), self'[p].stamp)
    <3>0. new.id \in 1..nops
      BY <1>0, <2>1 DEF Event
    <3> HIDE DEF new
    <3>1. \A e \in journal' \cup posts' : e.id \in 1..nops'
      BY <1>0, <2>1, <2>3, <3>0 DEF new
    <3>2. Others(p) /\ self'[p].op \in 1..nops' /\ nops' \in Nat /\ nops <= nops'
      BY <1>0, <2>1, <2>3
    <3> QED
      BY <3>1, <3>2, OneMinted
  <2>4. \/ Quit(p) /\ posts' = posts
        \/ /\ Others(p) /\ self'[p].op = self[p].op
           /\ posts' = posts \cup {Event(self[p].op, Role(self[p].pc), self'[p].stamp)}
    BY <1>8, AppendEventFields
  <2> QED
    BY <2>2, <2>3, <2>4
<1>9. CASE Push(p)
  <2>1. nops' = nops /\ journal' = journal /\ posts' = posts /\ self[p].pc \in Engaged
    BY <1>9 DEF Push, log, Engaged, PCs
  <2> QED
    BY <1>2, <1>9, <2>1 DEF Push
<1>10. CASE WriteCheckpoint(p)
  <2>1. nops' = nops /\ journal' = journal /\ posts' = posts /\ self[p].pc \in Engaged
    BY <1>10 DEF WriteCheckpoint, log, Engaged, PCs
  <2> QED
    BY <1>2, <1>10, <2>1 DEF WriteCheckpoint
<1> QED
  BY <1>3, <1>4, <1>5, <1>6, <1>7, <1>8, <1>9, <1>10, OwnSteps

LEMMA NextMinted == TypeOK /\ Minted /\ [Next]_vars => Minted'
<1> SUFFICES ASSUME TypeOK, Minted, [Next]_vars PROVE Minted'
  OBVIOUS
<1>0. /\ self \in [Procs -> SelfSet] /\ nops \in Nat
      /\ \A e \in journal \cup posts : e.id \in 1..nops
      /\ \A q \in Procs : self[q].pc \in Engaged => self[q].op \in 1..nops
  BY Bounds DEF TypeOK, Minted
<1>1. ASSUME NEW p \in Procs, Stop(p) PROVE Minted'
  <2>1. self'[p].pc \notin Engaged /\ Others(p)
    BY <1>0, <1>1, QuitFields, IdleFields DEF Stop, Engaged
  <2> QED
    BY <1>0, <1>1, <2>1, OneMinted DEF Stop, log
<1>2. ASSUME NEW p \in Procs, NEW c \in Cmds, Begin(p, c) PROVE Minted'
  <2>1. self'[p].pc \notin Engaged /\ Others(p)
    BY <1>0, <1>2, BeginFields DEF Engaged
  <2> QED
    BY <1>0, <1>2, <2>1, OneMinted DEF Begin, shared, log
<1>3. ASSUME NEW e \in posts, Land(e) \/ Lose(e) PROVE Minted'
  BY <1>0, <1>3 DEF Land, Lose, Minted
<1>4. ASSUME NEW o \in pushes, Serve(o) PROVE Minted'
  BY <1>0, <1>4 DEF Serve, log, Minted
<1>5. ASSUME NEW o \in pushes, LosePush(o) PROVE Minted'
  <2>1. \A q \in Procs : self'[q] \in {Idle, self[q]}
    BY <1>5 DEF LosePush
  <2> QED
    BY <1>0, <1>5, <2>1 DEF LosePush, log, Minted, Idle, Engaged
<1>6. ASSUME NEW l \in 0..N, ForeignEdit(l) PROVE Minted'
  BY <1>0, <1>6 DEF ForeignEdit, log, Minted
<1>7. CASE UNCHANGED vars
  BY <1>0, <1>7 DEF vars, Minted
<1> QED
  BY <1>1, <1>2, <1>3, <1>4, <1>5, <1>6, <1>7, OwnMinted DEF Next

-----------------------------------------------------------------------------
(* What is known of a commit, and where commits come from. *)

\* CheckpointsPublished, of one commit of layer l.
PublishedIn(done, durable, records, l, c) ==
    \/ c = <<0, l>>
    \/ \E o \in done : l >= records[o].lo /\ records[o].after[l] = c
    \/ \E o \in durable : l \in records[o].adopt /\ records[o].before[l] = c
Published(l, c) == PublishedIn(applied, Prepared, rec, l, c)

Known(l, c) == Foreign(c) \/ Published(l, c)

\* A record takes what it does not adopt from published heads, and carries a
\* foreign commit only where it leaves it in place.
RecordsTrue ==
    \A o \in 1..nops : \A l \in Layers :
        /\ l \notin rec[o].adopt => Published(l, rec[o].before[l])
        /\ Foreign(rec[o].after[l]) => rec[o].after[l] = rec[o].before[l]

\* Of the local state s of a process: it has seen nothing but known commits,
\* and it writes the checkpoints of an operation whose heads were published.
Seeing(s)  == \A l \in Layers : Published(l, s.snap[l].head) /\ Known(l, s.obs[l])
Holding(s) == s.pc \in {"classify", "verify"} => s.op \in Prepared
Writing(s) == s.pc = "checkpoint" =>
                 /\ s.idx >= rec[s.op].lo
                 /\ \A l \in Affected(s.op) : Published(l, rec[s.op].after[l])
Truthful(s) == Seeing(s) /\ Holding(s) /\ Writing(s)

\* The inductive invariant.
AllPublished ==
    /\ \A l \in Layers : Known(l, ref[l])
    /\ CheckpointsPublished
    /\ RecordsTrue
    /\ \A p \in Procs : Truthful(self[p])

LEMMA CheckpointHeads == CheckpointsPublished <=> \A l \in Layers : Published(l, cp[l].head)
  BY DEF CheckpointsPublished, Published, PublishedIn

LEMMA StartsPublished ==
    \A l \in Layers : /\ Published(l, Heads[l]) /\ Published(l, Pairs[l].head)
                      /\ Known(l, Heads[l])
  BY DEF Published, PublishedIn, Known, Heads, Pairs

LEMMA IdleTruthful == Truthful(Idle)
  BY StartsPublished, IdleFields DEF Truthful, Seeing, Holding, Writing

LEMMA InitAllPublished == Init => AllPublished
<1> SUFFICES ASSUME Init PROVE AllPublished
  OBVIOUS
<1>1. \A l \in Layers : ref[l] = Heads[l] /\ cp[l] = Pairs[l]
  BY Bounds DEF Init, Heads, Layers
<1>2. 1..nops = {}
  BY DEF Init
<1>3. \A p \in Procs : self[p] = Idle
  BY DEF Init
<1> QED
  BY <1>1, <1>2, <1>3, StartsPublished, IdleTruthful, CheckpointHeads
     DEF AllPublished, RecordsTrue

-----------------------------------------------------------------------------
\* Operations keep their records, and what was applied or prepared stays so.
Grows == /\ nops' \in Nat /\ nops <= nops'
         /\ \A o \in 1..nops : rec'[o] = rec[o]
         /\ applied \subseteq applied' /\ Prepared \subseteq Prepared'

LEMMA SharedGrows ==
    ASSUME TypeOK, [Next]_vars
    PROVE  Grows
<1>0. nops \in Nat
  BY Bounds DEF TypeOK
<1> DEFINE G == /\ nops' \in Nat /\ nops <= nops'
                /\ \A o \in 1..nops : rec'[o] = rec[o]
                /\ applied \subseteq applied'
<1>1. ASSUME NEW p \in Procs, Own(p) PROVE G
  <2>1. CASE Calculate(p)
    <3>1. /\ nops' = nops + 1 /\ applied' = applied
          /\ \A o \in Ops \ {nops + 1} : rec'[o] = rec[o]
      BY <2>1, CalculateFields DEF Calculate, remote
    <3>2. 1..nops \subseteq Ops \ {nops + 1}
      BY Bounds DEF TypeOK, Ops
    <3> QED
      BY <1>0, <3>1, <3>2, SMTT(60)
  <2>2. CASE ~ Calculate(p)
    <3>1. nops' = nops /\ rec' = rec /\ applied' = applied
      BY <1>1, <2>2 DEF Own, ReadTrain, Route, ResolveAdopted, NothingToAdopt, Observe,
         Preflight, NothingToDo, Reobserve, AppendEvent, ReadBack, Ambiguous, Push, Pushed,
         Rejected, Verify, WriteCheckpoint, Classify, Reclassify, shared, remote
    <3> QED
      BY <1>0, <3>1, SMTT(60)
  <2> QED
    BY <2>1, <2>2
<1> DEFINE Same == nops' = nops /\ rec' = rec /\ applied' = applied
<1>2. ASSUME NEW p \in Procs, Stop(p) \/ \E c \in Cmds : Begin(p, c) PROVE Same
  BY <1>2 DEF Stop, Begin, shared, remote
<1>3. ASSUME NEW e \in posts, Land(e) \/ Lose(e) PROVE Same
  BY <1>3 DEF Land, Lose, remote
<1>4. ASSUME NEW o \in pushes, LosePush(o) PROVE Same
  BY <1>4 DEF LosePush
<1>5. ASSUME NEW o \in pushes, Serve(o)
      PROVE  nops' = nops /\ rec' = rec /\ applied \subseteq applied'
  BY <1>5 DEF Serve
<1>6. ASSUME UNCHANGED vars \/ \E l \in 0..N : ForeignEdit(l) PROVE Same
  BY <1>6 DEF vars, ForeignEdit
<1>7. G
  <2>1. nops' = nops /\ rec' = rec /\ applied \subseteq applied' => G
    BY <1>0
  <2> HIDE DEF G
  <2> QED
    BY <1>1, <1>2, <1>3, <1>4, <1>5, <1>6, <2>1 DEF Next
<1> QED
  BY <1>7, JournalGrows DEF Grows

\* What is named anywhere has been minted.
LEMMA NamedMinted ==
    ASSUME JournalFirst, Minted
    PROVE  applied \subseteq 1..nops /\ Prepared \subseteq 1..nops
           /\ pushes \subseteq 1..nops /\ Unsettled \subseteq 1..nops
<1>1. Prepared \subseteq 1..nops
  BY DEF Minted, Prepared, Having
<1>2. pushes \subseteq Prepared /\ applied \subseteq Prepared
  BY DEF JournalFirst
<1>3. Unsettled \subseteq Prepared
  BY DEF Unsettled, UnresolvedIn, Prepared
<1> QED
  BY <1>1, <1>2, <1>3

\* So a published commit stays published.
LEMMA PublishedStays ==
    ASSUME Grows, JournalFirst, Minted, NEW l \in Layers, NEW c, Published(l, c)
    PROVE  Published(l, c)'
<1>1. applied \subseteq 1..nops /\ Prepared \subseteq 1..nops
  BY NamedMinted
<1>2. CASE c = <<0, l>>
  BY <1>2 DEF Published, PublishedIn
<1>3. ASSUME NEW o \in applied, l >= rec[o].lo, rec[o].after[l] = c
      PROVE  Published(l, c)'
  <2>1. o \in applied' /\ rec'[o] = rec[o]
    BY <1>1 DEF Grows
  <2> QED
    BY <1>3, <2>1 DEF Published, PublishedIn
<1>4. ASSUME NEW o \in Prepared, l \in rec[o].adopt, rec[o].before[l] = c
      PROVE  Published(l, c)'
  <2>1. o \in Prepared' /\ rec'[o] = rec[o]
    BY <1>1 DEF Grows
  <2> QED
    BY <1>4, <2>1 DEF Published, PublishedIn
<1> QED
  BY <1>2, <1>3, <1>4 DEF Published, PublishedIn

LEMMA KnownStays ==
    ASSUME Grows, JournalFirst, Minted, NEW l \in Layers, NEW c, Known(l, c)
    PROVE  Known(l, c)'
  BY PublishedStays DEF Known, Foreign

\* A process that has only seen the truth has still only seen the truth.
LEMMA TruthfulStays ==
    ASSUME TypeOK, Grows, JournalFirst, Minted, NEW q \in Procs, Truthful(self'[q]),
           self'[q].pc = "checkpoint" => self'[q].op \in 1..nops
    PROVE  Truthful(self[q])'
<1>1. \A l \in Layers : \A c : Published(l, c) => Published(l, c)'
  BY PublishedStays
<1>2. \A l \in Layers : \A c : Known(l, c) => Known(l, c)'
  BY KnownStays
<1>3. Seeing(self[q])'
  BY <1>1, <1>2 DEF Truthful, Seeing, Published, Known, Foreign
<1>4. Holding(self[q])'
  BY DEF Truthful, Holding, Grows
<1>5. Writing(self[q])'
  <2> SUFFICES ASSUME self'[q].pc = "checkpoint" PROVE Writing(self[q])'
    BY DEF Writing
  <2>1. rec'[self'[q].op] = rec[self'[q].op]
    BY DEF Grows
  <2>2. Affected(self[q].op)' = Affected(self'[q].op) /\ Affected(self'[q].op) \subseteq Layers
    <3>1. rec[self'[q].op].lo \in Layers
      <4>1. self'[q].op \in Ops
        BY Bounds DEF TypeOK, Ops
      <4> QED
        BY <4>1, JournalTypes
    <3> QED
      BY <2>1, <3>1 DEF Affected, Layers
  <2> QED
    BY <1>1, <2>1, <2>2 DEF Truthful, Writing, Published
<1> QED
  BY <1>3, <1>4, <1>5 DEF Truthful

-----------------------------------------------------------------------------
\* Sent on, a process forgets what it observed; it has to know its operation
\* recorded where that is relied on.
LEMMA GotoTruthful ==
    ASSUME TypeOK, NEW p \in Procs, Truthful(self[p]), NEW pc, NEW i, Goto(p, pc, i),
           pc \in {"classify", "verify"} => self[p].op \in Prepared,
           pc = "checkpoint" =>
               /\ i >= rec[self[p].op].lo
               /\ \A l \in Affected(self[p].op) : Published(l, rec[self[p].op].after[l])
    PROVE  Truthful(self'[p]) /\ Others(p)
<1>1. /\ self'[p].pc = pc /\ self'[p].idx = i /\ self'[p].obs = Heads
      /\ self'[p].op = self[p].op /\ self'[p].snap = self[p].snap /\ Others(p)
  BY GotoFields DEF TypeOK
<1>2. Seeing(self'[p])
  BY <1>1, StartsPublished DEF Truthful, Seeing
<1>3. Holding(self'[p]) /\ Writing(self'[p])
  BY <1>1 DEF Holding, Writing
<1> QED
  BY <1>1, <1>2, <1>3 DEF Truthful

LEMMA QuitTruthful ==
    ASSUME TypeOK, NEW p \in Procs, Quit(p)
    PROVE  Truthful(self'[p]) /\ Others(p)
  BY QuitFields, IdleTruthful DEF TypeOK

\* The heads that a verification found in place were published: a foreign one
\* stands there only because the operation adopted it.
LEMMA VerifyTruthful ==
    ASSUME TypeOK, JournalFirst, Minted, AllPublished, NEW p \in Procs, Verify(p)
    PROVE  Truthful(self'[p]) /\ Others(p)
<1> DEFINE o == self[p].op
<1>1. self[p].pc = "verify" /\ o \in Prepared /\ o \in 1..nops /\ o \in Ops
  BY NamedMinted, Bounds DEF Verify, Observed, AllPublished, Truthful, Holding, TypeOK, Ops
<1>2. CASE Quit(p)
  BY <1>2, QuitTruthful
<1>3. CASE AllAfter(o, self[p].obs) /\ Goto(p, "checkpoint", rec[o].lo)
  <2>1. Affected(o) \subseteq Layers /\ rec[o].lo \in Nat
    BY <1>1, JournalTypes DEF Affected, Layers
  <2>2. ASSUME NEW l \in Affected(o) PROVE Published(l, rec[o].after[l])
    <3>0. l \in Layers
      BY <2>1
    <3>1. Known(l, rec[o].after[l])
      BY <1>3, <3>0 DEF AllAfter, AllPublished, Truthful, Seeing
    <3>2. /\ l \notin rec[o].adopt => Published(l, rec[o].before[l])
          /\ Foreign(rec[o].after[l]) => rec[o].after[l] = rec[o].before[l]
      BY <1>1, <3>0 DEF AllPublished, RecordsTrue
    <3>3. l \in rec[o].adopt => Published(l, rec[o].before[l])
      BY <1>1 DEF Published, PublishedIn
    <3> QED
      BY <3>1, <3>2, <3>3 DEF Known
  <2>3. Truthful(self[p])
    BY DEF AllPublished
  <2>4. rec[o].lo >= rec[o].lo
    BY <2>1
  <2> QED
    BY <1>3, <2>2, <2>3, <2>4, GotoTruthful
<1> QED
  BY <1>2, <1>3 DEF Verify

LEMMA TurnTruthful ==
    ASSUME TypeOK, JournalFirst, Minted, AllPublished, NEW p \in Procs, TurnsAside(p)
    PROVE  Truthful(self'[p]) /\ Others(p)
<1>1. CASE Verify(p)
  BY <1>1, VerifyTruthful
<1>2. CASE Quit(p)
  BY <1>2, QuitTruthful
<1>3. CASE self[p].pc # "verify"
  <2>1. /\ self[p].pc \in {"push", "pushing"} => self[p].op \in Prepared
        /\ self[p].pc = "classify" => self[p].op \in Prepared
        /\ Truthful(self[p])
    BY DEF JournalFirst, AllPublished, Truthful, Holding
  <2>2. ASSUME NEW t \in Turns, NEW i, self[p].pc = t[1], Goto(p, t[2], i)
        PROVE  Truthful(self'[p]) /\ Others(p)
    <3>1. /\ t[2] # "checkpoint"
          /\ t[2] \in {"classify", "verify"} => t[1] \in {"pushing", "classify"}
      BY <1>3, <2>2 DEF Turns
    <3> QED
      BY <2>1, <2>2, <3>1, GotoTruthful
  <2> QED
    BY <1>2, <2>2, TurnFields
<1>4. self[p].pc = "verify" => Verify(p)
  BY DEF TurnsAside, NothingToAdopt, Preflight, NothingToDo, Reobserve, ReadBack, Ambiguous,
         Pushed, Rejected, Classify, Reclassify, Observed
<1> QED
  BY <1>1, <1>3, <1>4

LEMMA OwnTruthful ==
    ASSUME TypeOK, JournalFirst, Minted, AllPublished, NEW p \in Procs, Own(p)
    PROVE  Truthful(self'[p]) /\ Others(p)
<1>0. /\ self \in [Procs -> SelfSet] /\ Truthful(self[p]) /\ Seeing(self[p])
      /\ \A l \in Layers : Known(l, ref[l]) /\ Published(l, cp[l].head)
      /\ self[p].pc \in {"push", "pushing"} => self[p].op \in Prepared
  BY CheckpointHeads DEF TypeOK, AllPublished, Truthful, JournalFirst
<1>1. CASE TurnsAside(p)
  BY <1>1, TurnTruthful
<1>2. CASE ReadTrain(p)
  BY <1>0, <1>2, ReadTrainFields DEF Truthful, Seeing, Holding, Writing
<1>3. CASE ResolveAdopted(p)
  BY <1>0, <1>3, ResolveAdoptedFields DEF Truthful, Seeing, Holding, Writing
<1>4. CASE Route(p)
  <2>1. ASSUME NEW o \in Unsettled, Resumes(p, o) PROVE Truthful(self'[p]) /\ Others(p)
    <3>1. o \in Prepared
      BY DEF Unsettled, UnresolvedIn, Prepared
    <3> QED
      BY <1>0, <2>1, <3>1 DEF Resumes, Truthful, Seeing, Holding, Writing
  <2>2. CASE Starts(p)
    BY <1>0, <2>2 DEF Starts, Truthful, Seeing, Holding, Writing
  <2>3. CASE Goto(p, "adopt", 1)
    BY <1>0, <2>3, GotoTruthful
  <2>4. CASE Quit(p)
    BY <2>4, QuitTruthful
  <2>5. \/ Quit(p) \/ Goto(p, "adopt", 1) \/ Starts(p)
        \/ \E o \in Unsettled : Resumes(p, o)
    BY <1>0, <1>4, RouteFields
  <2> QED
    BY <2>1, <2>2, <2>3, <2>4, <2>5
<1>5. CASE Observe(p)
  <2> DEFINE i == self[p].idx
  <2>1. /\ Others(p) /\ i \in Layers /\ self'[p].pc = self[p].pc /\ self'[p].op = self[p].op
        /\ self'[p].snap = self[p].snap /\ self'[p].obs = [self[p].obs EXCEPT ![i] = ref[i]]
    BY <1>0, <1>5, ObserveFields
  <2>2. self[p].obs \in [Layers -> Commit]
    BY <1>0 DEF SelfSet
  <2>3. \A l \in Layers : self'[p].obs[l] = IF l = i THEN ref[i] ELSE self[p].obs[l]
    BY <2>1, <2>2
  <2>4. Seeing(self'[p])
    BY <1>0, <2>1, <2>3 DEF Seeing
  <2>5. self[p].pc # "checkpoint"
    BY <1>5 DEF Observe, Observing
  <2> QED
    BY <1>0, <2>1, <2>4, <2>5 DEF Truthful, Holding, Writing
<1>6. CASE Calculate(p)
  <2>1. /\ Others(p) /\ self'[p].pc = "reobserve" /\ self'[p].snap = self[p].snap
        /\ self'[p].obs = Heads
    BY <1>6, CalculateFields
  <2> QED
    BY <1>0, <2>1, StartsPublished DEF Truthful, Seeing, Holding, Writing
<1>7. CASE AppendEvent(p)
  <2>1. \/ Quit(p)
        \/ /\ Others(p) /\ self'[p].pc = Awaiting(self[p].pc)
           /\ self'[p].snap = self[p].snap /\ self'[p].obs = self[p].obs
    BY <1>7, AppendEventFields
  <2>2. Awaiting(self[p].pc) \notin {"classify", "verify", "checkpoint"}
    BY DEF Awaiting
  <2> QED
    BY <1>0, <2>1, <2>2, QuitTruthful DEF Truthful, Seeing, Holding, Writing
<1>8. CASE Push(p)
  <2>1. /\ self[p].op \in Prepared
        /\ \/ Goto(p, "verify", rec[self[p].op].lo)
           \/ Goto(p, "pushing", 1)
    BY <1>0, <1>8 DEF Push
  <2> QED
    BY <1>0, <2>1, GotoTruthful
<1>9. CASE WriteCheckpoint(p)
  <2>1. /\ self[p].pc = "checkpoint" /\ self[p].idx \in Nat
        /\ \/ Goto(p, "checkpoint", self[p].idx + 1)
           \/ Goto(p, "complete", 1)
    BY <1>0, <1>9, Bounds DEF WriteCheckpoint, SelfSet
  <2>2. /\ self[p].idx >= rec[self[p].op].lo
        /\ \A l \in Affected(self[p].op) : Published(l, rec[self[p].op].after[l])
    BY <1>0, <2>1 DEF Truthful, Writing
  <2>3. self[p].idx + 1 >= rec[self[p].op].lo
    <3>1. self[p].op \in Ops
      BY <2>1 DEF TypeOK, Engaged, PCs
    <3>2. rec[self[p].op].lo \in Nat
      BY <3>1, JournalTypes DEF Layers
    <3> QED
      BY <2>1, <2>2, <3>2
  <2> QED
    BY <1>0, <2>1, <2>2, <2>3, GotoTruthful
<1> QED
  BY <1>1, <1>2, <1>3, <1>4, <1>5, <1>6, <1>7, <1>8, <1>9, OwnSteps

-----------------------------------------------------------------------------
(* The conjuncts about what is shared. *)

\* Only Calculate mints an operation.
LEMMA WhoMints == [Next]_vars => nops' = nops \/ \E p \in Procs : Calculate(p)
<1> SUFFICES ASSUME [Next]_vars PROVE nops' = nops \/ \E p \in Procs : Calculate(p)
  BY ZenonT(60)
<1>1. ASSUME NEW p \in Procs, Own(p), ~ Calculate(p) PROVE nops' = nops
  BY <1>1 DEF Own, ReadTrain, Route, ResolveAdopted, NothingToAdopt, Observe,
     Preflight, NothingToDo, Reobserve, AppendEvent, ReadBack, Ambiguous, Push, Pushed,
     Rejected, Verify, WriteCheckpoint, Classify, Reclassify, shared
<1>2. ASSUME NEW p \in Procs, Stop(p) \/ \E c \in Cmds : Begin(p, c) PROVE nops' = nops
  BY <1>2 DEF Stop, Begin, shared
<1>3. ASSUME NEW e \in posts, Land(e) \/ Lose(e) PROVE nops' = nops
  BY <1>3 DEF Land, Lose
<1>4. ASSUME NEW o \in pushes, Serve(o) \/ LosePush(o) PROVE nops' = nops
  BY <1>4 DEF Serve, LosePush
<1>5. ASSUME UNCHANGED vars \/ \E l \in 0..N : ForeignEdit(l) PROVE nops' = nops
  BY <1>5 DEF vars, ForeignEdit
<1> QED
  BY <1>1, <1>2, <1>3, <1>4, <1>5 DEF Next

\* What a process records is true: it leaves alone whatever is not its own.
LEMMA RecordsStayTrue ==
    ASSUME TypeOK, JournalFirst, Minted, AllPublished, Grows, [Next]_vars
    PROVE  RecordsTrue'
<1>0. nops \in Nat /\ \A l \in Layers : \A c : Published(l, c) => Published(l, c)'
  BY PublishedStays, Bounds DEF TypeOK
<1>1. ASSUME NEW o \in 1..nops, NEW l \in Layers
      PROVE  /\ l \notin rec'[o].adopt
                   => PublishedIn(applied', Prepared', rec', l, rec'[o].before[l])
             /\ Foreign(rec'[o].after[l]) => rec'[o].after[l] = rec'[o].before[l]
  BY <1>0 DEF Grows, AllPublished, RecordsTrue, Published
<1>2. CASE nops' = nops
  BY <1>1, <1>2 DEF RecordsTrue, Foreign, Published
<1>3. ASSUME NEW p \in Procs, Calculate(p), NEW l \in Layers
      PROVE  /\ nops' = nops + 1
             /\ l \notin rec'[nops + 1].adopt
                  => PublishedIn(applied', Prepared', rec', l, rec'[nops + 1].before[l])
             /\ Foreign(rec'[nops + 1].after[l])
                   => rec'[nops + 1].after[l] = rec'[nops + 1].before[l]
  <2> DEFINE r == rec'[nops + 1]
  <2>1. /\ nops' = nops + 1 /\ nops + 1 \in Ops
        /\ r.before = self[p].want
        /\ r.adopt = {k \in Layers : self[p].want[k] # self[p].snap[k].head}
        /\ \/ r.after[l] = <<nops + 1, l>>
           \/ r.after[l] = self[p].want[l]
           \/ \E q \in 1..nops : /\ rec[q].before[l] = self[p].want[l]
                                 /\ r.after[l] = rec[q].after[l]
    BY <1>3, CalculateFields
  <2>2. Published(l, self[p].snap[l].head)
    BY DEF AllPublished, Truthful, Seeing
  <2> HIDE DEF r
  <2>3. l \notin r.adopt => r.before[l] = self[p].snap[l].head
    BY <2>1
  <2>4. l \notin r.adopt => PublishedIn(applied', Prepared', rec', l, r.before[l])
    BY <1>0, <2>2, <2>3 DEF Published
  <2>5. ~ Foreign(<<nops + 1, l>>)
    BY <1>0, <2>1, Bounds DEF Foreign, Ops
  <2>6. Foreign(r.after[l]) => r.after[l] = r.before[l]
    <3>1. CASE r.after[l] = <<nops + 1, l>>
      BY <2>5, <3>1
    <3>2. CASE r.after[l] = self[p].want[l]
      BY <2>1, <3>2
    <3>3. ASSUME NEW q \in 1..nops, rec[q].before[l] = self[p].want[l],
                 r.after[l] = rec[q].after[l]
          PROVE  Foreign(r.after[l]) => r.after[l] = r.before[l]
      <4>1. Foreign(rec[q].after[l]) => rec[q].after[l] = rec[q].before[l]
        BY DEF AllPublished, RecordsTrue
      <4> QED
        BY <2>1, <3>3, <4>1
    <3> QED
      BY <2>1, <3>1, <3>2, <3>3
  <2> QED
    BY <2>1, <2>4, <2>6 DEF r
<1>4. CASE \E p \in Procs : Calculate(p)
  <2>1. PICK p \in Procs : Calculate(p)
    BY <1>4
  <2>2. nops' = nops + 1
    BY <2>1, CalculateFields
  <2>3. \A o \in 1..nops' : o \in 1..nops \/ o = nops + 1
    BY <1>0, <2>2
  <2> QED
    BY <1>1, <1>3, <2>1, <2>3 DEF RecordsTrue, Foreign, Published
<1> QED
  BY <1>2, <1>4, WhoMints

\* Checkpoints are written by one step only, from the operation's own heads.
LEMMA CheckpointsStayPublished ==
    ASSUME TypeOK, JournalFirst, Minted, AllPublished, Grows, [Next]_vars
    PROVE  CheckpointsPublished'
<1>0. \A l \in Layers : \A c : Published(l, c) => Published(l, c)'
  BY PublishedStays
<1>1. \A l \in Layers : Published(l, cp[l].head)
  BY CheckpointHeads DEF AllPublished
<1>2. ASSUME NEW l \in Layers PROVE Published(l, cp'[l].head)
  <2>1. CASE cp' = cp
    BY <1>1, <2>1
  <2>2. ASSUME NEW p \in Procs, WriteCheckpoint(p) PROVE Published(l, cp'[l].head)
    <3> DEFINE k == self[p].idx
               pair == [parent |-> ParentEdge(p, k), head |-> rec[self[p].op].after[k]]
    <3>1. cp' = [cp EXCEPT ![k] = pair] /\ cp \in [Layers -> PairSet]
      BY <2>2 DEF WriteCheckpoint, TypeOK
    <3>2. CASE l # k
      BY <1>1, <3>1, <3>2
    <3>3. CASE l = k
      <4>1. cp'[l].head = rec[self[p].op].after[l]
        BY <3>1, <3>3
      <4>2. self[p].pc = "checkpoint" /\ self[p].op \in Ops
        BY <2>2 DEF WriteCheckpoint, TypeOK, Engaged, PCs
      <4>3. /\ l >= rec[self[p].op].lo
            /\ \A m \in Affected(self[p].op) : Published(m, rec[self[p].op].after[m])
        BY <3>3, <4>2 DEF AllPublished, Truthful, Writing
      <4>4. l \in Affected(self[p].op)
        BY <4>2, <4>3, JournalTypes, Bounds DEF Affected, Layers
      <4> QED
        BY <4>1, <4>3, <4>4
    <3> QED
      BY <3>2, <3>3
  <2>3. cp' = cp \/ \E p \in Procs : WriteCheckpoint(p)
    <3>1. ASSUME NEW p \in Procs, Own(p), ~ WriteCheckpoint(p) PROVE cp' = cp
      BY <3>1 DEF Own, ReadTrain, Route, ResolveAdopted, NothingToAdopt, Observe,
         Preflight, Calculate, NothingToDo, Reobserve, AppendEvent, ReadBack, Ambiguous,
         Push, Pushed, Rejected, Verify, Classify, Reclassify, shared
    <3>2. ASSUME NEW p \in Procs, Stop(p) \/ \E c \in Cmds : Begin(p, c) PROVE cp' = cp
      BY <3>2 DEF Stop, Begin, shared
    <3>3. ASSUME NEW e \in posts, Land(e) \/ Lose(e) PROVE cp' = cp
      BY <3>3 DEF Land, Lose
    <3>4. ASSUME NEW o \in pushes, Serve(o) \/ LosePush(o) PROVE cp' = cp
      BY <3>4 DEF Serve, LosePush
    <3>5. ASSUME UNCHANGED vars \/ \E m \in 0..N : ForeignEdit(m) PROVE cp' = cp
      BY <3>5 DEF vars, ForeignEdit
    <3> QED
      BY <3>1, <3>2, <3>3, <3>4, <3>5, ZenonT(60) DEF Next
  <2> QED
    BY <2>1, <2>2, <2>3
<1>3. \A l \in Layers : PublishedIn(applied', Prepared', rec', l, cp'[l].head)
  BY <1>0, <1>2 DEF Published
<1> QED
  BY <1>3 DEF CheckpointsPublished, PublishedIn

\* A ref shows what an accepted push carried, or what somebody else pushed.
LEMMA RefsStayKnown ==
    ASSUME TypeOK, JournalFirst, Minted, AllPublished, Grows, [Next]_vars, NEW l \in Layers
    PROVE  Known(l, ref[l])'
<1>0. \A c : Known(l, c) => Known(l, c)'
  BY KnownStays
<1>1. Known(l, ref[l])
  BY DEF AllPublished
<1>2. CASE ref'[l] = ref[l]
  BY <1>0, <1>1, <1>2 DEF Known, Published, Foreign
<1>3. ASSUME NEW k \in 0..N, ForeignEdit(k), ref'[l] # ref[l] PROVE Known(l, ref[l])'
  <2>1. ref'[l] = <<MaxOps + edits + 1, k>>
    BY <1>3 DEF ForeignEdit, TypeOK
  <2>2. ref'[l][1] > MaxOps
    <3>1. edits \in Nat
      BY DEF TypeOK
    <3> QED
      BY <2>1, <3>1, Bounds
  <2> QED
    BY <2>2 DEF Known, Foreign
<1>4. ASSUME NEW o \in pushes, Serve(o), ref'[l] # ref[l] PROVE Known(l, ref[l])'
  <2>1. l \in 0..N
    BY Bounds DEF Layers
  <2>2. ref'[l] = rec[o].after[l] /\ l \in Updates(o) /\ o \in applied' /\ rec' = rec
    BY <1>4, <2>1 DEF Serve
  <2>3. l >= rec'[o].lo
    <3>1. o \in Ops
      BY DEF TypeOK
    <3> QED
      BY <2>2, <3>1, JournalTypes, Bounds DEF Updates, Affected, Layers
  <2> QED
    BY <2>2, <2>3 DEF Known, Published, PublishedIn
<1>5. CASE edits' = edits /\ ref'[l] # ref[l]
  BY <1>4, <1>5, WhoMovesRefs
<1>6. CASE edits' # edits
  <2>1. ASSUME NEW p \in Procs, Own(p) PROVE edits' = edits
    BY <2>1 DEF Own, ReadTrain, Route, ResolveAdopted, NothingToAdopt, Observe,
       Preflight, Calculate, NothingToDo, Reobserve, AppendEvent, ReadBack, Ambiguous, Push,
       Pushed, Rejected, Verify, WriteCheckpoint, Classify, Reclassify, shared
  <2>2. ASSUME NEW p \in Procs, Stop(p) \/ \E c \in Cmds : Begin(p, c) PROVE edits' = edits
    BY <2>2 DEF Stop, Begin, shared
  <2>3. ASSUME NEW e \in posts, Land(e) \/ Lose(e) PROVE edits' = edits
    BY <2>3 DEF Land, Lose
  <2>4. ASSUME NEW o \in pushes, Serve(o) \/ LosePush(o) PROVE edits' = edits
    BY <2>4 DEF Serve, LosePush
  <2>5. UNCHANGED vars => edits' = edits
    BY DEF vars
  <2>6. PICK k \in 0..N : ForeignEdit(k)
    BY <1>6, <2>1, <2>2, <2>3, <2>4, <2>5 DEF Next
  <2> QED
    BY <1>2, <1>3, <2>6
<1> QED
  BY <1>2, <1>5, <1>6

\* No step but a process's own gives it anything new to be wrong about.
LEMMA ProcessesStayTruthful ==
    ASSUME TypeOK, JournalFirst, Minted, AllPublished, Grows, [Next]_vars, TypeOK', Minted',
           NEW q \in Procs
    PROVE  Truthful(self[q])'
<1>0. \A p \in Procs : Truthful(self[p])
  BY DEF AllPublished
<1>1. ASSUME NEW p \in Procs, Own(p) \/ Stop(p) \/ \E c \in Cmds : Begin(p, c)
      PROVE  Truthful(self'[p]) /\ Others(p)
  <2>1. CASE Own(p)
    BY <2>1, OwnTruthful
  <2>2. CASE Stop(p)
    BY <2>2, QuitTruthful DEF Stop
  <2>3. ASSUME NEW c \in Cmds, Begin(p, c) PROVE Truthful(self'[p]) /\ Others(p)
    <3>1. /\ Others(p) /\ self'[p].pc = "train" /\ self'[p].snap = Pairs
          /\ self'[p].obs = Heads
      BY <2>3, BeginFields DEF TypeOK
    <3> QED
      BY <3>1, StartsPublished DEF Truthful, Seeing, Holding, Writing
  <2> QED
    BY <1>1, <2>1, <2>2, <2>3
<1>2. ASSUME NEW o \in pushes, LosePush(o) PROVE Truthful(self'[q])
  <2>1. self'[q] \in {Idle, self[q]}
    BY <1>2 DEF LosePush
  <2> QED
    BY <1>0, <2>1, IdleTruthful
<1>3. ASSUME self' = self PROVE Truthful(self'[q])
  BY <1>0, <1>3
<1>4. ASSUME \/ \E e \in posts : Land(e) \/ Lose(e)
             \/ \E o \in pushes : Serve(o)
             \/ \E l \in 0..N : ForeignEdit(l)
             \/ UNCHANGED vars
      PROVE  self' = self
  BY <1>4 DEF Land, Lose, Serve, ForeignEdit, vars
<1>5. Truthful(self'[q])
  <2>1. ASSUME NEW p \in Procs, Truthful(self'[p]), Others(p) PROVE Truthful(self'[q])
    BY <1>0, <2>1 DEF Others
  <2> QED
    BY <1>1, <1>2, <1>3, <1>4, <2>1 DEF Next
<1>6. self'[q].pc = "checkpoint" => self'[q].op \in 1..nops
  <2>1. ASSUME NEW p \in Procs, Calculate(p), self'[q].pc = "checkpoint"
        PROVE  self'[q].op \in 1..nops
    <3>1. self'[p].pc = "reobserve" /\ Others(p)
      BY <2>1, CalculateFields
    <3>2. self'[q] = self[q]
      BY <2>1, <3>1 DEF Others
    <3> QED
      BY <2>1, <3>2 DEF Minted, Engaged, PCs
  <2>2. CASE nops' = nops
    <3>1. self'[q].pc = "checkpoint" => self'[q].op \in 1..nops'
      BY DEF Minted, Engaged, PCs
    <3> QED
      BY <2>2, <3>1
  <2> QED
    BY <2>1, <2>2, WhoMints
<1> QED
  BY <1>5, <1>6, TruthfulStays

LEMMA NextAllPublished ==
    TypeOK /\ JournalFirst /\ Minted /\ AllPublished /\ [Next]_vars => AllPublished'
<1> SUFFICES ASSUME TypeOK, JournalFirst, Minted, AllPublished, [Next]_vars
             PROVE  AllPublished'
  OBVIOUS
<1>1. TypeOK' /\ Minted' /\ Grows
  BY NextTypeOK, NextMinted, SharedGrows
<1>2. RecordsTrue' /\ CheckpointsPublished'
  BY <1>1, RecordsStayTrue, CheckpointsStayPublished
<1>3. \A l \in Layers : Known(l, ref[l])'
  BY <1>1, RefsStayKnown
<1>4. \A q \in Procs : Truthful(self[q])'
  BY <1>1, ProcessesStayTruthful
<1> QED
  BY <1>2, <1>3, <1>4 DEF AllPublished

(***************************************************************************)
(* Every checkpoint was really published, for any number of machines and   *)
(* any schedule of crashes, lost and late requests: whatever               *)
(* _persist_completion writes into a plan header is the starting head, a   *)
(* head that an accepted push carried, or one that a durable adopt record  *)
(* names, although it is derived from refs that were observed one by one   *)
(* while others kept pushing.                                              *)
(***************************************************************************)
THEOREM OnlyPublishedHeads == Spec => []CheckpointsPublished
<1>1. Init => TypeOK /\ JournalFirst /\ Minted /\ AllPublished
  BY InitTypeOK, InitJournalFirst, InitMinted, InitAllPublished
<1>2. TypeOK /\ JournalFirst /\ Minted /\ AllPublished /\ [Next]_vars
        => (TypeOK /\ JournalFirst /\ Minted /\ AllPublished)'
  BY NextTypeOK, NextJournalFirst, NextMinted, NextAllPublished
<1>3. AllPublished => CheckpointsPublished
  BY DEF AllPublished
<1> QED
  BY <1>1, <1>2, <1>3, PTL DEF Spec

-----------------------------------------------------------------------------
(***************************************************************************)
(* What the operation lock alone is enough for: when every process runs on *)
(* one machine and no request outlives its sender, the journal holds at    *)
(* most one unresolved operation, an abandoned operation never has an      *)
(* effect, and a quiet stack is linear - for every number of processes,    *)
(* layers, operations, out-of-band edits and crashes.                      *)
(***************************************************************************)

\* The hypotheses of the theorems.
LockIsEnough == /\ \A p, q \in Procs : MachineOf[p] = MachineOf[q]
                /\ ~ Late

-----------------------------------------------------------------------------
(* One at a time: the lock holder owns everything in flight. *)

Alone == \A p, q \in Procs : self[p].pc # "idle" /\ self[q].pc # "idle" => p = q

Awaits == {"prepared?", "completed?", "abandoned?"}

Held == /\ \A e \in posts : \E p \in Procs : self[p].pc \in Awaits /\ e = Mine(p)
        /\ \A o \in pushes : \E p \in Procs : self[p].pc = "pushing" /\ self[p].op = o

Apart == pushes \cap (applied \cup refused) = {} /\ applied \cap refused = {}

-----------------------------------------------------------------------------
(* The journal: at most one event of each role, at most one outcome, none   *)
(* without its prepared record, and at most one operation without outcome.  *)

Tidy == /\ \A e \in journal \cup posts : e = Event(e.id, e.role, e.text)
        /\ \A e, d \in journal :
             /\ e.id = d.id
             /\ e.role = d.role \/ (e.role # "prepared" /\ d.role # "prepared")
             => e = d
        /\ \A e \in journal : e.id \in Prepared
        /\ \A o, q \in Unsettled : o = q

\* A request in flight still says what the journal needs.
PostsFit == \A e \in posts :
    /\ e.role = "prepared" => Unsettled = {} /\ e.id \notin Prepared
    /\ e.role # "prepared" => e.id \in Unsettled

-----------------------------------------------------------------------------
(* Commits: an out-of-band edit never repeats a commit that is known. *)

Recent(c) == c[1] <= MaxOps + edits

AllRecent ==
    \A l \in Layers :
      /\ Recent(ref[l]) /\ Recent(cp[l].head)
      /\ \A o \in 1..nops : Recent(rec[o].before[l]) /\ Recent(rec[o].after[l])
      /\ \A p \in Procs : Recent(self[p].snap[l].head) /\ Recent(self[p].want[l])

BasesAreLow == \A o \in 1..nops : rec[o].base # NoBase => rec[o].lo = 1

-----------------------------------------------------------------------------
(* The stack: clean, with an operation prepared on it, or with the effect   *)
(* of an operation that is not concluded yet.                               *)

InPlace == \A l \in Layers : ref[l] = cp[l].head \/ Foreign(ref[l])
Linear  == \A l \in Layers : l > 1 => cp[l].parent = cp[l - 1].head
Clean   == InPlace /\ Linear

\* Nothing of the operation has happened: its leases are the checkpoints,
\* except where it adopts what somebody else pushed.
Fresh(o) == /\ Clean
            /\ \A l \in Affected(o) : l \notin rec[o].adopt => cp[l].head = rec[o].before[l]
            /\ \A l \in Layers : l \in rec[o].adopt => Foreign(ref[l])

\* The remote has what the operation wanted, up to later edits out of band;
\* no ref it meant to move is where it was.
Done(o) == \A l \in Affected(o) :
              /\ ref[l] = rec[o].after[l] \/ Foreign(ref[l])
              /\ l \in Updates(o) => ref[l] # rec[o].before[l]

\* Its push was accepted, or its checkpoints are being written.
Effective(o) == o \in applied \/ ~ Fresh(o)

\* Below its lowest layer the stack is as it was.
LowClean(o) == \A l \in Layers :
    /\ l < rec[o].lo => ref[l] = cp[l].head \/ Foreign(ref[l])
    /\ l > 1 /\ l <= rec[o].lo => cp[l].parent = cp[l - 1].head

Pending == \A o \in Unsettled : LowClean(o) /\ (Effective(o) => Done(o))
Settled == Unsettled = {} => Clean

-----------------------------------------------------------------------------
(* The process: what its local state s says about all this.  *)

Reading == {"fold", "adopt", "preflight", "calculate", "reobserve", "prepare", "prepared?",
            "push", "pushing", "rejected", "verify", "classify", "reclassify"}

\* What it observed of the refs of its operation still tells before from after.
Seen(s) == \A l \in Affected(s.op) : l < s.idx =>
    /\ s.obs[l] = ref[l] \/ (Foreign(ref[l]) /\ ref[l] # rec[s.op].before[l])
    /\ Effective(s.op) /\ l \in Updates(s.op) => s.obs[l] # rec[s.op].before[l]

EdgeOf(s, l) == LET r == rec[s.op] IN
    IF l > r.lo THEN r.after[l - 1] ELSE IF r.base # NoBase THEN r.base ELSE s.snap[l].parent

\* The checkpoints from the lowest layer up to the one it is at are written.
Written(s) == /\ s.idx \in Layers /\ s.idx >= rec[s.op].lo
              /\ \A l \in Affected(s.op) : l < s.idx =>
                    cp[l] = [parent |-> EdgeOf(s, l), head |-> rec[s.op].after[l]]
              /\ rec[s.op].lo > 1 =>
                    s.snap[rec[s.op].lo].parent = cp[rec[s.op].lo - 1].head

\* Before its operation is prepared.
Planning(s) ==
    /\ s.pc \in Reading => s.snap = cp
    /\ s.pc \in {"adopt", "preflight", "calculate", "reobserve", "prepare"} => Unsettled = {}
    /\ s.pc \in {"preflight", "calculate"} =>
         \A l \in Layers : s.want[l] = cp[l].head \/ Foreign(ref[l])
    /\ s.pc \in {"reobserve", "prepare"} => s.op \notin Prepared
    /\ s.pc \in {"reobserve", "prepare", "prepared?", "push"} =>
         s.op \notin pushes \cup applied \cup refused

\* From there to the push and its answer.
Pushing(s) ==
    /\ s.pc \in {"reobserve", "prepare", "prepared?", "push", "pushing", "rejected"} =>
         s.op \in applied \/ Fresh(s.op)
    /\ s.pc = "rejected" => s.op \notin applied
    /\ s.pc = "prepared?" => s.op \notin Having(journal, Terminal)
    /\ s.pc \in {"push", "pushing", "rejected", "verify", "checkpoint", "classify",
                 "reclassify", "complete", "abandon"} => s.op \in Unsettled

\* From the observation of the result to the conclusion.
Concluding(s) ==
    /\ s.pc \in {"verify", "classify", "reclassify"} => Seen(s)
    /\ s.pc = "checkpoint" => Done(s.op) /\ Written(s)
    /\ s.pc \in {"complete", "completed?", "abandon", "abandoned?"} => Clean
    /\ s.pc \in {"abandon", "abandoned?"} => s.op \notin applied

Fits(s) == Planning(s) /\ Pushing(s) /\ Concluding(s)

\* The inductive invariant.
Serial == /\ Alone /\ Held /\ Apart
          /\ Tidy /\ PostsFit
          /\ AllRecent /\ BasesAreLow
          /\ Pending /\ Settled /\ AbandonedHadNoEffect
          /\ \A p \in Procs : Fits(self[p])

-----------------------------------------------------------------------------
(* The journal fold on a tidy journal. *)

LEMMA EventFields ==
    ASSUME NEW o, NEW r, NEW n
    PROVE  /\ Event(o, r, n).id = o /\ Event(o, r, n).role = r /\ Event(o, r, n).text = n
           /\ Event(o, r, n).carrier = "active"
           /\ r = "prepared" => Event(o, r, n).kind = "sync" /\ Event(o, r, n).lineage = Lineage
  BY DEF Event

\* A tidy journal has no two events that contradict each other.
LEMMA TidyReadable ==
    ASSUME TypeOK, Tidy
    PROVE  ~ Raises
<1>1. \A e \in journal : /\ e.role \in Roles /\ e.carrier = "active"
                         /\ e.role = "prepared" => e.lineage = Lineage
  <2> SUFFICES ASSUME NEW e \in journal
               PROVE  /\ e.role \in Roles /\ e.carrier = "active"
                      /\ e.role = "prepared" => e.lineage = Lineage
    OBVIOUS
  <2>1. e.role \in Roles
    BY DEF TypeOK, EventSet
  <2>2. e = Event(e.id, e.role, e.text)
    BY DEF Tidy
  <2> QED
    BY <2>1, <2>2, EventFields
<1>2. ASSUME NEW c \in journal, NEW d \in journal PROVE ~ Contradict(c, d)
  <2>1. c.role # "stamp" /\ d.role # "stamp" /\ d.role # "accepted"
    BY <1>1 DEF Roles
  <2>2. Key(c) = Key(d) => c = d
    BY <2>1 DEF Key, IsStamp, Tidy
  <2>3. ~ (c.id = d.id /\ c.role = "completed" /\ d.role = "abandoned")
    BY DEF Tidy
  <2> QED
    BY <1>1, <2>1, <2>2, <2>3 DEF Contradict
<1>3. Having(journal, Terminal \cup {"accepted"}) \subseteq Having(journal, {"prepared"})
  <2>1. \A e \in journal : e.id \in Having(journal, {"prepared"})
    BY DEF Tidy, Prepared
  <2> QED
    BY <2>1 DEF Having
<1>4. \A c \in journal : c.role \in {"prepared", "stamp"} => c.lineage = Lineage
  BY <1>1 DEF Roles
<1> QED
  BY <1>2, <1>3, <1>4 DEF Raises, Coherent

LEMMA TidySerial ==
    ASSUME TypeOK, Tidy
    PROVE  SerialJournal
<1>1. Cardinality(Unsettled) <= 1
  <2>1. CASE Unsettled = {}
    BY <2>1, FS_EmptySet
  <2>2. ASSUME NEW o \in Unsettled PROVE Cardinality(Unsettled) <= 1
    <3>1. Unsettled = {o}
      BY DEF Tidy
    <3> QED
      BY <3>1, FS_Singleton
  <2> QED
    BY <2>1, <2>2
<1> QED
  BY <1>1, TidyReadable DEF SerialJournal

-----------------------------------------------------------------------------
(* Frames: what a step leaves true by leaving variables alone. *)

LEMMA SameStack ==
    ASSUME UNCHANGED <<ref, cp, rec, applied>>
    PROVE  /\ Clean' <=> Clean
           /\ \A o : Fresh(o)' <=> Fresh(o)
           /\ \A o : Done(o)' <=> Done(o)
           /\ \A o : Effective(o)' <=> Effective(o)
           /\ \A o : LowClean(o)' <=> LowClean(o)
           /\ \A s : Seen(s)' <=> Seen(s)
           /\ \A s : Written(s)' <=> Written(s)
<1>1. Clean' <=> Clean
  BY DEF Clean, InPlace, Linear, Foreign
<1>2. \A o : Affected(o)' = Affected(o) /\ Updates(o)' = Updates(o)
  BY DEF Affected, Updates
<1>3. \A o : Fresh(o)' <=> Fresh(o)
  BY <1>1, <1>2 DEF Fresh, Foreign
<1>4. \A o : Done(o)' <=> Done(o)
  BY <1>2 DEF Done, Foreign
<1>5. \A o : Effective(o)' <=> Effective(o)
  BY <1>3 DEF Effective
<1>6. \A o : LowClean(o)' <=> LowClean(o)
  BY DEF LowClean, Foreign
<1>7. \A s : Seen(s)' <=> Seen(s)
  BY <1>2, <1>5 DEF Seen, Foreign
<1>8. \A s : Written(s)' <=> Written(s)
  BY <1>2 DEF Written, EdgeOf
<1> QED
  BY <1>1, <1>3, <1>4, <1>5, <1>6, <1>7, <1>8

LEMMA SameJournal ==
    ASSUME journal' = journal
    PROVE  /\ Unsettled' = Unsettled /\ Prepared' = Prepared /\ Abandoned' = Abandoned
           /\ Having(journal, Terminal)' = Having(journal, Terminal)
  BY DEF Unsettled, Prepared, Abandoned

\* A process that runs no command, or has read nothing yet, fits everything.
LEMMA IdleFits ==
    ASSUME NEW s, s.pc \in {"idle", "train"}
    PROVE  Fits(s)
  BY DEF Fits, Planning, Pushing, Concluding, Reading

LEMMA IdleFitsNext ==
    ASSUME NEW q \in Procs, self'[q].pc \in {"idle", "train"}
    PROVE  Fits(self[q])'
  BY DEF Fits, Planning, Pushing, Concluding, Reading

\* The lock holder is alone: everybody else is idle.
LEMMA OthersIdle ==
    ASSUME Alone, NEW p \in Procs, self[p].pc # "idle", NEW q \in Procs, q # p
    PROVE  self[q].pc = "idle"
  BY DEF Alone

\* With nothing of its own in flight, there is nothing in flight.
LEMMA NothingInFlight ==
    ASSUME Alone, Held, NEW p \in Procs, self[p].pc # "idle",
           self[p].pc \in Awaits => Mine(p) \notin posts,
           self[p].pc = "pushing" => self[p].op \notin pushes
    PROVE  posts = {} /\ pushes = {}
<1>1. \A q \in Procs : q # p => self[q].pc \notin Awaits /\ self[q].pc # "pushing"
  BY OthersIdle DEF Awaits
<1>2. ASSUME NEW e \in posts PROVE FALSE
  <2>1. PICK q \in Procs : self[q].pc \in Awaits /\ e = Mine(q)
    BY DEF Held
  <2> QED
    BY <1>1, <2>1
<1>3. ASSUME NEW o \in pushes PROVE FALSE
  <2>1. PICK q \in Procs : self[q].pc = "pushing" /\ self[q].op = o
    BY DEF Held
  <2> QED
    BY <1>1, <2>1
<1> QED
  BY <1>2, <1>3

\* A step of one process after which nothing is in flight, and that changes
\* nothing else that is shared.
LEMMA LocalStep ==
    ASSUME TypeOK, Serial, NEW p \in Procs, Others(p),
           UNCHANGED <<cp, journal, rec, nops, ref, applied, refused, edits>>,
           \A q \in Procs : q # p => self[q].pc = "idle",
           posts' = {}, pushes' = {},
           \A l \in Layers : Recent(self'[p].snap[l].head) /\ Recent(self'[p].want[l]),
           Fits(self'[p])
    PROVE  Serial'
<1> USE DEF Serial
<1>0. /\ ref' = ref /\ cp' = cp /\ journal' = journal /\ rec' = rec
      /\ nops' = nops /\ applied' = applied /\ refused' = refused
      /\ edits' = edits
  OBVIOUS
<1>1. \A q \in Procs : q # p => self'[q] = self[q]
  BY DEF Others
<1>2. Alone'
  BY <1>1 DEF Alone
<1>3. Held' /\ Apart' /\ PostsFit'
  BY <1>0 DEF Held, Apart, PostsFit
<1>4. Tidy'
  BY <1>0 DEF Tidy, Unsettled, Prepared, Event
<1>5. AllRecent' /\ BasesAreLow'
  <2>1. AllRecent'
    BY <1>0, <1>1 DEF AllRecent, Recent
  <2> QED
    BY <1>0, <2>1 DEF BasesAreLow
<1>6. Pending' /\ Settled' /\ AbandonedHadNoEffect'
  BY <1>0, SameStack, SameJournal DEF Pending, Settled, AbandonedHadNoEffect
<1>7. ASSUME NEW q \in Procs PROVE Fits(self[q])'
  <2>1. CASE q # p
    BY <1>1, <2>1, IdleFitsNext
  <2>2. CASE q = p
    <3>1. Planning(self'[p]) /\ Pushing(self'[p]) /\ Concluding(self'[p])
      BY DEF Fits
    <3>2. Planning(self[p])'
      BY <1>0, <3>1, SameJournal DEF Planning, Foreign
    <3>3. Pushing(self[p])'
      BY <1>0, <3>1, SameStack, SameJournal DEF Pushing
    <3>4. Concluding(self[p])'
      BY <1>0, <3>1, SameStack, SameJournal DEF Concluding
    <3> QED
      BY <2>2, <3>2, <3>3, <3>4 DEF Fits
  <2> QED
    BY <2>1, <2>2
<1> QED
  BY <1>2, <1>3, <1>4, <1>5, <1>6, <1>7

-----------------------------------------------------------------------------
(* The steps that change nothing shared: what the process may rely on next. *)

\* The range of the layers an engaged process deals with.
LEMMA Ranges ==
    ASSUME TypeOK, NEW o \in Ops
    PROVE  /\ rec[o].lo \in Nat /\ rec[o].lo >= 1 /\ rec[o].lo <= N /\ N \in Nat
           /\ rec[o] \in RecordSet /\ Affected(o) \subseteq Layers
           /\ \A l : l \in Affected(o) <=> l \in Layers /\ l >= rec[o].lo
           /\ Updates(o) \subseteq Affected(o)
<1>1. rec[o] \in RecordSet /\ rec[o].lo \in Layers
  BY JournalTypes
<1> QED
  BY <1>1, Bounds DEF Layers, Affected, Updates

\* An observation that starts at the lowest layer has seen nothing yet.
LEMMA NothingSeen ==
    ASSUME TypeOK, NEW s, s.op \in Ops, s.idx = rec[s.op].lo
    PROVE  Seen(s)
  BY Ranges DEF Seen, Layers

\* What is known when every affected head was seen at its lease: nothing of
\* the operation has happened.
LEMMA AllBeforeIsFresh ==
    ASSUME TypeOK, NEW s, s.op \in Ops, s.idx = N + 1, Seen(s), AllBefore(s.op, s.obs)
    PROVE  ~ Effective(s.op)
<1>1. PICK l \in Affected(s.op) : s.obs[l] # rec[s.op].after[l]
  BY DEF AllBefore, AllAfter
<1>2. s.obs[l] = rec[s.op].before[l]
  BY DEF AllBefore
<1>3. l \in Updates(s.op) /\ l < s.idx
  BY <1>1, <1>2, Ranges DEF Updates, Layers
<1> QED
  BY <1>2, <1>3 DEF Seen

\* What is known when every affected head was seen at its candidate: the remote
\* has what the operation wanted.
LEMMA AllAfterIsDone ==
    ASSUME TypeOK, NEW s, s.op \in Ops, s.idx = N + 1, Seen(s), AllAfter(s.op, s.obs)
    PROVE  Done(s.op)
<1> SUFFICES ASSUME NEW l \in Affected(s.op)
             PROVE  /\ ref[l] = rec[s.op].after[l] \/ Foreign(ref[l])
                    /\ l \in Updates(s.op) => ref[l] # rec[s.op].before[l]
  BY DEF Done
<1>1. l < s.idx
  BY Ranges DEF Layers
<1>2. s.obs[l] = rec[s.op].after[l]
  BY DEF AllAfter
<1> QED
  BY <1>1, <1>2 DEF Seen, Updates

LEMMA VerifyFits ==
    ASSUME TypeOK, Serial, NEW p \in Procs, Verify(p), AllAfter(self[p].op, self[p].obs)
    PROVE  Fits(self'[p])
<1> DEFINE o == self[p].op
<1>1. self[p].pc = "verify" /\ self[p].idx = N + 1 /\ Goto(p, "checkpoint", rec[o].lo)
  BY DEF Verify, Observed
<1>2. /\ o \in Unsettled /\ Seen(self[p]) /\ self[p].snap = cp
  BY <1>1 DEF Serial, Fits, Planning, Pushing, Concluding, Reading
<1>3. o \in Ops
  BY <1>2, JournalTypes
<1>4. Done(o)
  BY <1>1, <1>2, <1>3, AllAfterIsDone
<1>5. /\ self'[p].pc = "checkpoint" /\ self'[p].idx = rec[o].lo /\ self'[p].op = o
      /\ self'[p].snap = cp
  BY <1>1, <1>2, GotoFields, SMTT(60) DEF TypeOK
<1>6. Written(self'[p])
  <2>1. LowClean(o)
    BY <1>2 DEF Serial, Pending
  <2>2. rec[o].lo \in Layers /\ rec[o].lo >= rec[o].lo
    BY <1>3, Ranges DEF Layers
  <2>3. \A l \in Affected(o) : ~ (l < rec[o].lo)
    BY <1>3, Ranges DEF Layers
  <2>4. rec[o].lo > 1 => cp[rec[o].lo].parent = cp[rec[o].lo - 1].head
    BY <2>1, <2>2 DEF LowClean, Layers
  <2> QED
    BY <1>5, <2>2, <2>3, <2>4 DEF Written
<1> QED
  BY <1>2, <1>4, <1>5, <1>6 DEF Fits, Planning, Pushing, Concluding, Reading

LEMMA ConcludeFits ==
    ASSUME TypeOK, Serial, NEW p \in Procs, Classify(p) \/ Reclassify(p)
    PROVE  Quit(p) \/ Fits(self'[p])
<1> DEFINE o == self[p].op
<1>1. self[p].pc \in {"classify", "reclassify"} /\ self[p].idx = N + 1
  BY DEF Classify, Reclassify, Observed
<1>2. /\ o \in Unsettled /\ Seen(self[p]) /\ self[p].snap = cp
  BY <1>1 DEF Serial, Fits, Planning, Pushing, Concluding, Reading
<1>3. o \in Ops
  BY <1>2, JournalTypes
<1>4. ASSUME NEW pc \in {"verify", "reclassify"}, Goto(p, pc, rec[o].lo)
      PROVE  Fits(self'[p])
  <2>1. /\ self'[p].pc = pc /\ self'[p].idx = rec[o].lo /\ self'[p].op = o
        /\ self'[p].snap = cp
    BY <1>2, <1>4, GotoFields DEF TypeOK
  <2>2. Seen(self'[p])
    BY <1>3, <2>1, NothingSeen
  <2> QED
    BY <1>2, <2>1, <2>2 DEF Fits, Planning, Pushing, Concluding, Reading
<1>5. ASSUME AllBefore(o, self[p].obs), Goto(p, "abandon", 1)
      PROVE  Fits(self'[p])
  <2>1. self'[p].pc = "abandon" /\ self'[p].op = o
    BY <1>5, GotoFields DEF TypeOK
  <2>2. ~ Effective(o)
    BY <1>1, <1>2, <1>3, <1>5, AllBeforeIsFresh
  <2>3. o \notin applied /\ Clean
    BY <2>2 DEF Effective, Fresh
  <2> QED
    BY <1>2, <2>1, <2>3 DEF Fits, Planning, Pushing, Concluding, Reading
<1>6. \/ Quit(p)
      \/ AllBefore(o, self[p].obs) /\ Goto(p, "abandon", 1)
      \/ Goto(p, "verify", rec[o].lo) \/ Goto(p, "reclassify", rec[o].lo)
  BY DEF Classify, Reclassify
<1> QED
  BY <1>4, <1>5, <1>6

\* The read-back of a prepared record finds the one unresolved operation.
LEMMA ReadBackFits ==
    ASSUME TypeOK, Serial, NEW p \in Procs, ReadBack(p)
    PROVE  Quit(p) \/ Fits(self'[p])
<1>1. CASE self[p].pc = "prepared?" /\ Goto(p, "push", 1)
  <2>1. Mine(p).id = self[p].op /\ Mine(p).role = "prepared" /\ Mine(p) \in journal
    BY <1>1, EventFields DEF Mine, Role, ReadBack
  <2>2. self[p].op \in Prepared
    BY <2>1 DEF Prepared, Having
  <2>3. /\ self[p].op \notin Having(journal, Terminal) /\ self[p].snap = cp
        /\ self[p].op \notin pushes \cup applied \cup refused
        /\ self[p].op \in applied \/ Fresh(self[p].op)
    BY <1>1 DEF Serial, Fits, Planning, Pushing, Reading
  <2>4. self[p].op \in Unsettled
    BY <2>2, <2>3 DEF Unsettled, UnresolvedIn, Prepared
  <2>5. self'[p].pc = "push" /\ self'[p].op = self[p].op /\ self'[p].snap = self[p].snap
    BY <1>1, GotoFields DEF TypeOK
  <2> QED
    BY <2>3, <2>4, <2>5 DEF Fits, Planning, Pushing, Concluding, Reading
<1>2. CASE Goto(p, "train", 1)
  <2>1. self'[p].pc = "train"
    BY <1>2, GotoFields DEF TypeOK
  <2> QED
    BY <2>1, IdleFits
<1> QED
  BY <1>1, <1>2 DEF ReadBack

LEMMA PushedFits ==
    ASSUME TypeOK, Serial, NEW p \in Procs, Pushed(p)
    PROVE  Fits(self'[p])
<1> DEFINE o == self[p].op
<1>1. /\ self[p].pc = "pushing" /\ o \in Unsettled /\ self[p].snap = cp
      /\ o \in applied \/ Fresh(o)
  BY DEF Pushed, Serial, Fits, Planning, Pushing, Reading
<1>2. o \in Ops
  BY <1>1, JournalTypes
<1>3. ASSUME NEW pc, Goto(p, pc, rec[o].lo)
      PROVE  /\ self'[p].pc = pc /\ self'[p].idx = rec[o].lo /\ self'[p].op = o
             /\ self'[p].snap = cp
  BY <1>1, <1>3, GotoFields DEF TypeOK
<1>4. CASE Goto(p, "verify", rec[o].lo)
  <2>1. Seen(self'[p])
    BY <1>2, <1>3, <1>4, NothingSeen
  <2> QED
    BY <1>1, <1>3, <1>4, <2>1 DEF Fits, Planning, Pushing, Concluding, Reading
<1>5. CASE o \in refused /\ Goto(p, "rejected", rec[o].lo)
  <2>1. o \notin applied
    BY <1>5 DEF Serial, Apart
  <2> QED
    BY <1>1, <1>3, <1>5, <2>1 DEF Fits, Planning, Pushing, Concluding, Reading
<1> QED
  BY <1>4, <1>5 DEF Pushed

LEMMA RejectedFits ==
    ASSUME TypeOK, Serial, NEW p \in Procs, Rejected(p), Goto(p, "abandon", 1)
    PROVE  Fits(self'[p])
<1>1. /\ self[p].pc = "rejected" /\ self[p].op \in Unsettled /\ self[p].op \notin applied
      /\ Fresh(self[p].op)
  BY DEF Rejected, Observed, Serial, Fits, Pushing
<1>2. self'[p].pc = "abandon" /\ self'[p].op = self[p].op
  BY GotoFields DEF TypeOK
<1>3. Clean
  BY <1>1 DEF Fresh
<1> QED
  BY <1>1, <1>2, <1>3 DEF Fits, Planning, Pushing, Concluding, Reading

LEMMA FreshTurnFits ==
    ASSUME TypeOK, Serial, NEW p \in Procs,
           \/ Preflight(p) /\ Goto(p, "calculate", 1)
           \/ Reobserve(p) /\ Goto(p, "prepare", 1)
    PROVE  Fits(self'[p])
<1>1. Fits(self[p])
  BY DEF Serial
<1>2. CASE Preflight(p) /\ Goto(p, "calculate", 1)
  <2>1. /\ self'[p].pc = "calculate" /\ self'[p].snap = self[p].snap
        /\ self'[p].want = self[p].want
    BY <1>2, GotoFields DEF TypeOK
  <2> QED
    BY <1>1, <1>2, <2>1 DEF Preflight, Observed, Fits, Planning, Pushing, Concluding, Reading
<1>3. CASE Reobserve(p) /\ Goto(p, "prepare", 1)
  <2>1. /\ self'[p].pc = "prepare" /\ self'[p].snap = self[p].snap
        /\ self'[p].op = self[p].op
    BY <1>3, GotoFields DEF TypeOK
  <2> QED
    BY <1>1, <1>3, <2>1 DEF Reobserve, Observed, Fits, Planning, Pushing, Concluding, Reading
<1> QED
  BY <1>2, <1>3

\* The starting heads are no edits.
LEMMA StartsRecent ==
    ASSUME TypeOK
    PROVE  \A l \in Layers : Recent(Pairs[l].head) /\ Recent(Heads[l])
<1>1. MaxOps + edits >= 0
  BY Bounds DEF TypeOK
<1>2. \A l \in Layers : Pairs[l].head = <<0, l>> /\ Heads[l] = <<0, l>>
  BY DEF Pairs, Heads
<1> QED
  BY <1>1, <1>2 DEF Recent

\* All the turns together.
LEMMA TurnFits ==
    ASSUME TypeOK, Serial, NEW p \in Procs, TurnsAside(p)
    PROVE  /\ Fits(self'[p]) /\ Others(p)
           /\ \A l \in Layers : Recent(self'[p].snap[l].head) /\ Recent(self'[p].want[l])
<1>1. CASE Quit(p)
  <2>1. self'[p] = Idle /\ Others(p)
    BY <1>1, QuitFields DEF TypeOK
  <2>2. Idle.snap = Pairs /\ Idle.want = Heads /\ Fits(Idle)
    BY IdleFits, IdleFields
  <2> QED
    BY <2>1, <2>2, StartsRecent
<1>2. ASSUME ~ Quit(p) PROVE Fits(self'[p])
  BY <1>2, VerifyFits, ConcludeFits, ReadBackFits, PushedFits, RejectedFits, FreshTurnFits
     DEF TurnsAside, NothingToAdopt, NothingToDo, Ambiguous, Verify, Rejected, Preflight,
         Reobserve
<1>3. ASSUME NEW pc, NEW i, Goto(p, pc, i)
      PROVE  /\ Others(p)
             /\ \A l \in Layers : Recent(self'[p].snap[l].head) /\ Recent(self'[p].want[l])
  <2>1. Others(p) /\ self'[p].snap = self[p].snap /\ self'[p].want = self[p].want
    BY <1>3, GotoFields DEF TypeOK
  <2> QED
    BY <2>1 DEF Serial, AllRecent
<1>4. Quit(p) \/ \E t \in Turns, i \in {1, rec[self[p].op].lo} : Goto(p, t[2], i)
  BY TurnFields
<1> QED
  BY <1>1, <1>2, <1>3, <1>4

\* Starting, reading the train, and routing.
LEMMA RouteFits ==
    ASSUME TypeOK, Serial, NEW p \in Procs, Route(p)
    PROVE  /\ Fits(self'[p]) /\ Others(p)
           /\ \A l \in Layers : Recent(self'[p].snap[l].head) /\ Recent(self'[p].want[l])
<1>0. /\ self[p].pc = "fold" /\ self[p].snap = cp /\ self \in [Procs -> SelfSet]
      /\ \A l \in Layers : Recent(self[p].snap[l].head) /\ Recent(self[p].want[l])
  BY DEF Route, TypeOK, Serial, AllRecent, Fits, Planning, Reading
<1>1. CASE Quit(p)
  BY <1>0, <1>1, QuitFields, IdleFits, IdleFields, StartsRecent
<1>2. ASSUME NEW o \in Unsettled, Resumes(p, o)
      PROVE  Fits(self'[p])
  <2>1. o \in Ops
    BY JournalTypes
  <2>2. Seen(self'[p])
    BY <1>2, <2>1, NothingSeen DEF Resumes
  <2> QED
    BY <1>0, <1>2, <2>2 DEF Resumes, Fits, Planning, Pushing, Concluding, Reading
<1>3. CASE Unsettled = {} /\ Goto(p, "adopt", 1)
  <2>1. /\ self'[p].pc = "adopt" /\ self'[p].snap = cp /\ Others(p)
        /\ self'[p].want = self[p].want
    BY <1>0, <1>3, GotoFields
  <2> QED
    BY <1>0, <1>3, <2>1 DEF Fits, Planning, Pushing, Concluding, Reading
<1>4. CASE Starts(p)
  <2>1. \A l \in Layers : self'[p].want[l] = cp[l].head
    BY <1>0, <1>4 DEF Starts
  <2>2. Fits(self'[p])
    BY <1>0, <1>4, <2>1 DEF Starts, Fits, Planning, Pushing, Concluding, Reading
  <2> QED
    BY <1>0, <1>4, <2>1, <2>2 DEF Starts
<1>5. ASSUME NEW o \in Unsettled, Resumes(p, o)
      PROVE  /\ Others(p)
             /\ \A l \in Layers : Recent(self'[p].snap[l].head) /\ Recent(self'[p].want[l])
  BY <1>0, <1>5 DEF Resumes
<1>6. \/ Quit(p) \/ (Unsettled = {} /\ Goto(p, "adopt", 1)) \/ Starts(p)
      \/ \E o \in Unsettled : Resumes(p, o)
  BY <1>0, RouteFields
<1> QED
  BY <1>1, <1>2, <1>3, <1>4, <1>5, <1>6, SMTT(60)

\* With a clean stack, a head that is not the checkpoint was pushed by others.
LEMMA ResolveFits ==
    ASSUME TypeOK, Serial, NEW p \in Procs, ResolveAdopted(p)
    PROVE  /\ Fits(self'[p]) /\ Others(p)
           /\ \A l \in Layers : Recent(self'[p].snap[l].head) /\ Recent(self'[p].want[l])
<1>0. /\ self[p].snap = cp /\ Unsettled = {}
      /\ \A l \in Layers : Recent(self[p].snap[l].head) /\ Recent(ref[l])
  BY DEF ResolveAdopted, Serial, AllRecent, Fits, Planning, Reading
<1>1. /\ Others(p) /\ self'[p].pc = "preflight" /\ self'[p].snap = cp
  BY <1>0, ResolveAdoptedFields DEF TypeOK
<1>2. PICK a \in Layers :
         /\ ref[a] # self[p].snap[a].head
         /\ self'[p].want = [l \in Layers |-> IF l = a THEN ref[a] ELSE self[p].snap[l].head]
  BY ResolveAdoptedFields DEF TypeOK
<1>3. Foreign(ref[a])
  BY <1>0, <1>2 DEF Serial, Settled, Clean, InPlace
<1>4. \A l \in Layers : self'[p].want[l] = IF l = a THEN ref[a] ELSE cp[l].head
  BY <1>0, <1>2
<1> QED
  BY <1>0, <1>1, <1>3, <1>4 DEF Fits, Planning, Pushing, Concluding, Reading

\* An observation sees a ref as it is.
LEMMA ObserveFits ==
    ASSUME TypeOK, Serial, NEW p \in Procs, Observe(p)
    PROVE  /\ Fits(self'[p]) /\ Others(p)
           /\ \A l \in Layers : Recent(self'[p].snap[l].head) /\ Recent(self'[p].want[l])
<1> DEFINE o == self[p].op
           i == self[p].idx
<1>0. /\ Fits(self[p]) /\ self[p].pc \in Observing /\ self[p].obs \in [Layers -> Commit]
      /\ \A l \in Layers : Recent(self[p].snap[l].head) /\ Recent(self[p].want[l])
  BY DEF Observe, Serial, AllRecent, TypeOK, SelfSet
<1>1. /\ Others(p) /\ i \in Layers /\ self'[p].pc = self[p].pc /\ self'[p].op = o
      /\ self'[p].idx = i + 1 /\ self'[p].snap = self[p].snap /\ self'[p].want = self[p].want
      /\ self'[p].obs = [self[p].obs EXCEPT ![i] = ref[i]]
  BY ObserveFields DEF TypeOK
<1>2. \A l \in Layers : self'[p].obs[l] = IF l = i THEN ref[i] ELSE self[p].obs[l]
  BY <1>0, <1>1
<1>3. ASSUME self[p].pc \in {"verify", "classify", "reclassify"} PROVE Seen(self'[p])
  <2>1. o \in Unsettled /\ Seen(self[p])
    BY <1>0, <1>3 DEF Fits, Pushing, Concluding
  <2>2. o \in Ops /\ Affected(o) \subseteq Layers
    BY <2>1, JournalTypes, Ranges
  <2>3. Effective(o) => \A l \in Affected(o) : l \in Updates(o) => ref[l] # rec[o].before[l]
    BY <2>1 DEF Serial, Pending, Done
  <2>4. ASSUME NEW l \in Affected(o), l < i + 1
        PROVE  /\ self'[p].obs[l] = ref[l] \/ (Foreign(ref[l]) /\ ref[l] # rec[o].before[l])
               /\ Effective(o) /\ l \in Updates(o) => self'[p].obs[l] # rec[o].before[l]
    <3>1. CASE l = i
      BY <1>1, <1>2, <2>3, <3>1
    <3>2. CASE l # i
      <4>1. l < i /\ self'[p].obs[l] = self[p].obs[l]
        BY <1>1, <1>2, <2>2, <2>4, <3>2 DEF Layers
      <4> QED
        BY <2>1, <4>1 DEF Seen
    <3> QED
      BY <3>1, <3>2
  <2> QED
    BY <1>1, <2>4 DEF Seen
<1>4. Fits(self'[p])
  BY <1>0, <1>1, <1>3 DEF Fits, Planning, Pushing, Concluding, Reading, Observing
<1> QED
  BY <1>0, <1>1, <1>4

\* Every step that changes nothing shared keeps the invariant.
LEMMA LocalSteps ==
    ASSUME TypeOK, Serial, NEW p \in Procs,
           TurnsAside(p) \/ ReadTrain(p) \/ Route(p) \/ ResolveAdopted(p) \/ Observe(p)
    PROVE  Serial'
<1>0. UNCHANGED <<cp, journal, rec, nops, ref, applied, refused, edits, posts, pushes>>
  BY TurnFields, ZenonT(60) DEF ReadTrain, Route, ResolveAdopted, Observe, shared, log, remote
<1>1. self[p].pc # "idle"
  BY DEF TurnsAside, ReadTrain, Route, ResolveAdopted, Observe, Observing, NothingToAdopt,
     Preflight, NothingToDo, Reobserve, ReadBack, Ambiguous, Pushed, Rejected, Verify, Classify,
     Reclassify, Observed
<1>2. \A q \in Procs : q # p => self[q].pc = "idle"
  BY <1>1, OthersIdle DEF Serial
<1>3. posts = {} /\ pushes = {}
  <2>1. self[p].pc \in Awaits => Mine(p) \notin posts
    <3>1. ASSUME ReadBack(p) PROVE Mine(p) \notin posts
      <4>1. Mine(p) \in journal
        BY <3>1 DEF ReadBack
      <4>2. ASSUME Mine(p) \in posts PROVE FALSE
        <5>1. CASE Mine(p).role = "prepared"
          BY <4>1, <4>2, <5>1 DEF Serial, PostsFit, Tidy
        <5>2. CASE Mine(p).role # "prepared"
          <6>1. Mine(p).role \in Terminal
            BY <4>1, <5>2 DEF TypeOK, EventSet, Roles, Terminal
          <6> QED
            BY <4>1, <4>2, <5>2, <6>1 DEF Serial, PostsFit, Unsettled, UnresolvedIn, Having
        <5> QED
          BY <5>1, <5>2
      <4> QED
        BY <4>2
    <3> QED
      BY <3>1 DEF TurnsAside, ReadTrain, Route, ResolveAdopted, Observe, Observing,
         NothingToAdopt, Preflight, NothingToDo, Reobserve, Ambiguous, Pushed, Rejected,
         Verify, Classify, Reclassify, Observed, Awaits
  <2>2. self[p].pc = "pushing" => self[p].op \notin pushes
    <3>1. Pushed(p) => self[p].op \in applied \cup refused
      BY DEF Pushed
    <3> QED
      BY <3>1 DEF Serial, Apart, TurnsAside, ReadTrain, Route, ResolveAdopted, Observe,
         Observing, NothingToAdopt, Preflight, NothingToDo, Reobserve, ReadBack, Ambiguous,
         Rejected, Verify, Classify, Reclassify, Observed
  <2> QED
    BY <1>1, <2>1, <2>2, NothingInFlight, ZenonT(60) DEF Serial
<1>4. ASSUME ReadTrain(p)
      PROVE  /\ Fits(self'[p]) /\ Others(p)
             /\ \A l \in Layers : Recent(self'[p].snap[l].head) /\ Recent(self'[p].want[l])
  <2>1. /\ Others(p) /\ self'[p].pc = "fold" /\ self'[p].snap = cp
        /\ self'[p].want = self[p].want
    BY <1>4, ReadTrainFields DEF TypeOK
  <2> QED
    BY <2>1 DEF Serial, AllRecent, Fits, Planning, Pushing, Concluding, Reading
<1>5. /\ Fits(self'[p]) /\ Others(p)
      /\ \A l \in Layers : Recent(self'[p].snap[l].head) /\ Recent(self'[p].want[l])
  BY <1>4, TurnFits, RouteFits, ResolveFits, ObserveFits
<1> QED
  BY <1>0, <1>2, <1>3, <1>5, LocalStep, SMTT(60)

\* A command starts when nobody else runs, so nothing is in flight; one that
\* dies takes its requests along.
LEMMA BeginStep ==
    ASSUME TypeOK, Serial, LockIsEnough, NEW p \in Procs, NEW c \in Cmds, Begin(p, c)
    PROVE  Serial'
<1>1. \A q \in Procs : self[q].pc = "idle"
  BY DEF Begin, LockFree, LockIsEnough
<1>2. posts = {} /\ pushes = {}
  BY <1>1 DEF Serial, Held, Awaits
<1>3. /\ Others(p) /\ self'[p].pc = "train" /\ self'[p].snap = Pairs /\ self'[p].want = Heads
      /\ UNCHANGED <<cp, journal, rec, nops, ref, applied, refused, edits, posts, pushes>>
  BY BeginFields DEF TypeOK, Begin, shared, log, remote
<1>4. Fits(self'[p])
  BY <1>3, IdleFits
<1> QED
  BY <1>1, <1>2, <1>3, <1>4, StartsRecent, LocalStep

LEMMA StopStep ==
    ASSUME TypeOK, Serial, LockIsEnough, NEW p \in Procs, Stop(p)
    PROVE  Serial'
<1>1. self[p].pc # "idle" /\ ~ InFlight(p) /\ Quit(p)
      /\ UNCHANGED <<cp, journal, rec, nops, ref, applied, refused, edits, posts, pushes>>
  BY DEF Stop, LockIsEnough, log, remote
<1>2. posts = {} /\ pushes = {}
  BY <1>1, NothingInFlight DEF InFlight, Awaits, Serial
<1>3. \A q \in Procs : q # p => self[q].pc = "idle"
  BY <1>1, OthersIdle DEF Serial
<1>4. self'[p] = Idle /\ Others(p)
  BY <1>1, QuitFields DEF TypeOK
<1>5. Fits(Idle) /\ Idle.snap = Pairs /\ Idle.want = Heads
  BY IdleFits, IdleFields
<1> QED
  BY <1>1, <1>2, <1>3, <1>4, <1>5, StartsRecent, LocalStep

-----------------------------------------------------------------------------
(* A new record. *)

\* What is said of the operations so far does not change.
LEMMA OldRecords ==
    ASSUME UNCHANGED <<ref, cp, applied>>, NEW o, rec'[o] = rec[o]
    PROVE  /\ Fresh(o)' <=> Fresh(o)
           /\ Done(o)' <=> Done(o)
           /\ Effective(o)' <=> Effective(o)
           /\ LowClean(o)' <=> LowClean(o)
<1>1. Clean' <=> Clean
  BY DEF Clean, InPlace, Linear, Foreign
<1>2. Affected(o)' = Affected(o) /\ Updates(o)' = Updates(o)
  BY DEF Affected, Updates
<1>3. Fresh(o)' <=> Fresh(o)
  BY <1>1, <1>2 DEF Fresh, Foreign
<1>4. Done(o)' <=> Done(o)
  BY <1>2 DEF Done, Foreign
<1> QED
  BY <1>3, <1>4 DEF Effective, LowClean, Foreign

\* The candidates start from a clean stack, so the new operation is fresh.
LEMMA CalculateFits ==
    ASSUME TypeOK, JournalFirst, Minted, Serial, NEW p \in Procs, Calculate(p)
    PROVE  Fits(self[p])'
<1> DEFINE o == nops + 1
<1>0. /\ self[p].pc = "calculate" /\ self[p].snap = cp /\ Unsettled = {}
      /\ \A l \in Layers : self[p].want[l] = cp[l].head \/ Foreign(ref[l])
  BY DEF Calculate, Serial, Fits, Planning, Reading
<1>1. /\ o \in Ops /\ self'[p].pc = "reobserve" /\ self'[p].op = o
      /\ self'[p].snap = self[p].snap /\ rec'[o].lo \in Layers
      /\ rec'[o].before = self[p].want
      /\ rec'[o].adopt = {l \in Layers : self[p].want[l] # self[p].snap[l].head}
  BY CalculateFields, SMTT(60)
<1>2. UNCHANGED <<ref, cp, journal, pushes, applied, refused>>
  BY DEF Calculate, log, remote
<1>3. o \notin 1..nops
  BY Bounds DEF TypeOK
<1>4. o \notin Prepared /\ o \notin pushes \cup applied \cup refused
  BY <1>3, NamedMinted DEF JournalFirst
<1>5. Clean
  BY <1>0 DEF Serial, Settled
<1>6. \A l \in Layers : /\ l \notin rec'[o].adopt => cp[l].head = rec'[o].before[l]
                        /\ l \in rec'[o].adopt => Foreign(ref[l])
  BY <1>0, <1>1
<1>7. Affected(self[p].op)' \subseteq Layers
  BY <1>1, Bounds DEF Affected, Layers
<1>8. Fresh(self[p].op)'
  <2>1. Clean'
    BY <1>2, <1>5 DEF Clean, InPlace, Linear, Foreign
  <2> HIDE DEF o
  <2> QED
    BY <1>1, <1>2, <1>6, <1>7, <2>1 DEF Fresh, Foreign
<1>9. Unsettled' = {} /\ Prepared' = Prepared
  BY <1>0, <1>2, SameJournal
<1> HIDE DEF o
<1> QED
  BY <1>0, <1>1, <1>2, <1>4, <1>8, <1>9, ZenonT(60) DEF Fits, Planning, Pushing, Concluding, Reading

LEMMA CalculateStep ==
    ASSUME TypeOK, JournalFirst, Minted, Serial, NEW p \in Procs, Calculate(p)
    PROVE  Serial'
<1> DEFINE o == nops + 1
<1>0. /\ self[p].pc = "calculate" /\ nops \in Nat
      /\ \A q \in Procs : q # p => self[q].pc = "idle"
      /\ UNCHANGED <<ref, cp, journal, posts, pushes, applied, refused, edits>>
  BY OthersIdle, Bounds DEF Calculate, Serial, log, remote, TypeOK
<1>1. posts = {} /\ pushes = {}
  BY <1>0, NothingInFlight DEF Awaits, Serial
<1>2. /\ Others(p) /\ o \in Ops /\ nops' = o
      /\ self'[p].snap = self[p].snap /\ self'[p].want = self[p].want
      /\ \A k \in Ops \ {o} : rec'[k] = rec[k]
      /\ rec'[o].before = self[p].want
      /\ rec'[o].base # NoBase => rec'[o].lo = 1
      /\ \A l \in Layers :
                \/ rec'[o].after[l] = <<o, l>>
                \/ rec'[o].after[l] = self[p].want[l]
                \/ \E q \in 1..nops : rec'[o].after[l] = rec[q].after[l]
  BY CalculateFields
<1>3. /\ \A k \in 1..nops : rec'[k] = rec[k]
      /\ \A k \in 1..nops' : k \in 1..nops \/ k = o
  BY <1>0, <1>2, Bounds DEF Ops
<1>4. Alone'
  BY <1>0, <1>2 DEF Alone, Others
<1>5. Held' /\ Apart' /\ PostsFit'
  BY <1>0, <1>1 DEF Held, Apart, PostsFit, Serial
<1>6. Tidy'
  BY <1>0 DEF Serial, Tidy, Unsettled, Prepared, Event
<1>7. AllRecent'
  <2> SUFFICES ASSUME NEW l \in Layers
               PROVE  /\ Recent(ref[l])' /\ Recent(cp[l].head)'
                      /\ \A k \in 1..nops' : Recent(rec[k].before[l])' /\ Recent(rec[k].after[l])'
                      /\ \A q \in Procs : Recent(self[q].snap[l].head)' /\ Recent(self[q].want[l])'
    BY DEF AllRecent
  <2>1. \A c : Recent(c)' <=> Recent(c)
    BY <1>0 DEF Recent
  <2>2. /\ Recent(ref[l]) /\ Recent(cp[l].head)
        /\ \A k \in 1..nops : Recent(rec[k].before[l]) /\ Recent(rec[k].after[l])
        /\ \A q \in Procs : Recent(self[q].snap[l].head) /\ Recent(self[q].want[l])
    BY DEF Serial, AllRecent
  <2>3. Recent(<<o, l>>)
    <3>1. o <= MaxOps /\ edits \in Nat
      BY <1>2, Bounds DEF Ops, TypeOK
    <3> QED
      BY <1>0, <3>1, Bounds DEF Recent
  <2>4. Recent(rec'[o].before[l]) /\ Recent(rec'[o].after[l])
    <3> HIDE DEF o
    <3> QED
      BY <1>2, <2>2, <2>3
  <2> HIDE DEF o
  <2> QED
    BY <1>0, <1>2, <1>3, <2>1, <2>2, <2>4 DEF Others
<1>8. BasesAreLow'
  <2> HIDE DEF o
  <2> QED
    BY <1>2, <1>3 DEF BasesAreLow, Serial
<1>9. Pending' /\ Settled' /\ AbandonedHadNoEffect'
  <2>1. Unsettled \subseteq 1..nops /\ Unsettled' = Unsettled /\ Abandoned' = Abandoned
    BY <1>0, NamedMinted, SameJournal
  <2>2. \A k \in Unsettled : /\ Done(k)' <=> Done(k)
                             /\ Effective(k)' <=> Effective(k)
                             /\ LowClean(k)' <=> LowClean(k)
    BY <1>0, <1>3, <2>1, OldRecords
  <2>3. Clean' <=> Clean
    BY <1>0 DEF Clean, InPlace, Linear, Foreign
  <2> QED
    BY <1>0, <2>1, <2>2, <2>3 DEF Serial, Pending, Settled, AbandonedHadNoEffect
<1>10. \A q \in Procs : Fits(self[q])'
  <2>1. ASSUME NEW q \in Procs, q # p PROVE Fits(self[q])'
    BY <1>0, <1>2, <2>1, IdleFitsNext DEF Others
  <2> QED
    BY <2>1, CalculateFits
<1> QED
  BY <1>4, <1>5, <1>6, <1>7, <1>8, <1>9, <1>10, SMTT(60) DEF Serial

-----------------------------------------------------------------------------
(* Requests: a POST or a push goes out. *)

\* The steps that change neither the stack nor the journal nor any record.
LEMMA QuietStep ==
    ASSUME TypeOK, Serial,
           UNCHANGED <<cp, journal, rec, nops, ref, applied, edits>>
    PROVE  /\ Pending' /\ Settled' /\ AbandonedHadNoEffect' /\ BasesAreLow'
           /\ (\A q \in Procs : /\ self'[q].snap = self[q].snap
                                /\ self'[q].want = self[q].want) => AllRecent'
<1>1. Pending' /\ Settled' /\ AbandonedHadNoEffect'
  BY SameStack, SameJournal DEF Serial, Pending, Settled, AbandonedHadNoEffect
<1> QED
  BY <1>1 DEF Serial, BasesAreLow, AllRecent, Recent

LEMMA PushStep ==
    ASSUME TypeOK, JournalFirst, Serial, NEW p \in Procs, Push(p)
    PROVE  Serial'
<1> DEFINE o == self[p].op
<1>0. /\ self[p].pc = "push" /\ o \in Unsettled /\ self[p].snap = cp
      /\ o \notin pushes \cup applied \cup refused /\ (o \in applied \/ Fresh(o))
  BY DEF Push, Serial, Fits, Planning, Pushing, Reading
<1>1. \A q \in Procs : q # p => self[q].pc = "idle"
  BY <1>0, OthersIdle DEF Serial
<1>2. posts = {} /\ pushes = {}
  BY <1>0, NothingInFlight DEF Serial, Awaits
<1>3. UNCHANGED <<cp, journal, posts, rec, nops, ref, applied, refused, edits>>
  BY DEF Push, log
<1>4. ASSUME NEW pc, NEW i, Goto(p, pc, i)
      PROVE  /\ self'[p].pc = pc /\ self'[p].idx = i /\ self'[p].op = o /\ Others(p)
             /\ self'[p].snap = self[p].snap /\ self'[p].want = self[p].want
  BY <1>4, GotoFields DEF TypeOK
<1>5. CASE Goto(p, "verify", rec[o].lo) /\ UNCHANGED pushes
  <2>1. o \in Ops
    BY <1>0, JournalTypes
  <2>2. Seen(self'[p])
    BY <1>4, <1>5, <2>1, NothingSeen
  <2>3. Fits(self'[p])
    BY <1>0, <1>4, <1>5, <2>2 DEF Fits, Planning, Pushing, Concluding, Reading
  <2>4. \A l \in Layers : Recent(self'[p].snap[l].head) /\ Recent(self'[p].want[l])
    BY <1>4, <1>5 DEF Serial, AllRecent
  <2> QED
    BY <1>1, <1>2, <1>3, <1>4, <1>5, <2>3, <2>4, LocalStep
<1>6. CASE pushes' = pushes \cup {o} /\ Goto(p, "pushing", 1)
  <2>1. /\ self'[p].pc = "pushing" /\ self'[p].op = o /\ Others(p)
        /\ self'[p].snap = self[p].snap /\ self'[p].want = self[p].want
    BY <1>4, <1>6
  <2>2. Alone'
    BY <1>0, <1>1, <2>1 DEF Alone, Others
  <2>3. Held' /\ PostsFit'
    BY <1>2, <1>3, <1>6, <2>1 DEF Held, PostsFit
  <2>4. Apart' /\ Tidy'
    <3>1. Apart'
      BY <1>0, <1>2, <1>3, <1>6 DEF Serial, Apart
    <3> QED
      BY <1>3, <3>1 DEF Serial, Tidy, Unsettled, Prepared, Event
  <2>5. \A q \in Procs : self'[q].snap = self[q].snap /\ self'[q].want = self[q].want
    BY <2>1 DEF Others
  <2>6. AllRecent' /\ BasesAreLow' /\ Pending' /\ Settled' /\ AbandonedHadNoEffect'
    BY <1>3, <2>5, QuietStep
  <2>7. Fits(self[p])'
    <3>1. self'[p].op \in applied \/ Fresh(self'[p].op)
      BY <1>0, <2>1
    <3>2. self'[p].op \in applied' \/ Fresh(self[p].op)'
      BY <1>3, <3>1, SameStack
    <3> HIDE DEF o
    <3> QED
      BY <1>0, <1>3, <2>1, <3>2, SameStack, SameJournal
         DEF Fits, Planning, Pushing, Concluding, Reading
  <2>8. \A q \in Procs : q # p => Fits(self[q])'
    BY <1>1, <2>1, IdleFitsNext DEF Others
  <2> QED
    BY <2>2, <2>3, <2>4, <2>6, <2>7, <2>8 DEF Serial
<1> QED
  BY <1>5, <1>6 DEF Push

LEMMA AppendStep ==
    ASSUME TypeOK, JournalFirst, Serial, NEW p \in Procs, AppendEvent(p)
    PROVE  Serial'
<1> DEFINE o == self[p].op
<1>0. self[p].pc \in {"prepare", "complete", "abandon"} /\ Fits(self[p])
  BY DEF AppendEvent, Serial
<1>1. \A q \in Procs : q # p => self[q].pc = "idle"
  BY <1>0, OthersIdle DEF Serial
<1>2. posts = {} /\ pushes = {}
  BY <1>0, NothingInFlight DEF Serial, Awaits
<1>3. UNCHANGED <<cp, journal, rec, nops, ref, pushes, applied, refused, edits>>
  BY DEF AppendEvent, remote
<1>4. CASE Quit(p) /\ posts' = posts
  <2>1. self'[p] = Idle /\ Others(p)
    BY <1>4, QuitFields DEF TypeOK
  <2>2. Fits(Idle) /\ Idle.snap = Pairs /\ Idle.want = Heads
    BY IdleFits, IdleFields
  <2> QED
    BY <1>1, <1>2, <1>3, <1>4, <2>1, <2>2, StartsRecent, LocalStep
<1>5. CASE /\ ~ Gated(p) /\ Others(p)
           /\ self'[p].pc = Awaiting(self[p].pc)
           /\ self'[p].op = self[p].op /\ self'[p].snap = self[p].snap
           /\ self'[p].want = self[p].want /\ self'[p].obs = self[p].obs
           /\ posts' = posts \cup {Event(self[p].op, Role(self[p].pc), self'[p].stamp)}
  <2> DEFINE e == Event(o, Role(self[p].pc), self'[p].stamp)
  <2>1. posts' = {e}
    BY <1>2, <1>5
  <2>2. /\ self[p].pc = "prepare" => Role(self[p].pc) = "prepared"
        /\ self[p].pc # "prepare" => Role(self[p].pc) \in {"completed", "abandoned"}
        /\ Role(Awaiting(self[p].pc)) = Role(self[p].pc)
        /\ Awaiting(self[p].pc) \in Awaits
    BY <1>0 DEF Role, Awaiting, Awaits
  <2>3. e.id = o /\ e.role = Role(self[p].pc) /\ e = Event(e.id, e.role, e.text)
    BY EventFields
  <2>4. Alone'
    BY <1>0, <1>1, <1>5 DEF Alone, Others
  <2>5. Held'
    <3>1. Mine(p)' = e
      BY <1>5, <2>2 DEF Mine
    <3> HIDE DEF e
    <3> QED
      BY <1>2, <1>3, <1>5, <2>1, <2>2, <3>1 DEF Held
  <2>6. Apart' /\ Tidy'
    <3>1. \A d \in journal' \cup posts' : d = Event(d.id, d.role, d.text)
      <4> HIDE DEF e
      <4> QED
        BY <1>3, <2>1, <2>3 DEF Serial, Tidy
    <3> QED
      BY <1>3, <3>1 DEF Serial, Apart, Tidy, Unsettled, Prepared, Event
  <2>7. PostsFit'
    <3>1. self[p].pc = "prepare" => Unsettled = {} /\ o \notin Prepared
      BY <1>0 DEF Fits, Planning
    <3>2. self[p].pc # "prepare" => o \in Unsettled
      BY <1>5 DEF Gated
    <3>3. \A d \in posts' : d.id = o /\ d.role = Role(self[p].pc)
      <4> HIDE DEF e
      <4> QED
        BY <2>1, <2>3
    <3> HIDE DEF o
    <3> QED
      BY <1>3, <2>2, <3>1, <3>2, <3>3, SameJournal DEF PostsFit
  <2>8. \A q \in Procs : self'[q].snap = self[q].snap /\ self'[q].want = self[q].want
    BY <1>5 DEF Others
  <2>9. AllRecent' /\ BasesAreLow' /\ Pending' /\ Settled' /\ AbandonedHadNoEffect'
    BY <1>3, <2>8, QuietStep
  <2>10. Fits(self[p])'
    <3>1. CASE self[p].pc = "prepare"
      <4>1. self'[p].pc = "prepared?"
        BY <1>5, <3>1 DEF Awaiting
      <4>2. /\ self[p].snap = cp /\ o \notin Prepared
            /\ o \notin pushes \cup applied \cup refused /\ (o \in applied \/ Fresh(o))
        BY <1>0, <3>1 DEF Fits, Planning, Pushing, Reading
      <4>3. o \notin Having(journal, Terminal)
        BY <4>2 DEF Serial, Tidy, Having
      <4> HIDE DEF o
      <4>4. o = self[p].op
        BY DEF o
      <4>5. (o \in applied \/ Fresh(o))'
        BY <1>3, <1>5, <4>2, <4>4, SameStack DEF o
      <4> QED
        BY <1>3, <1>5, <4>1, <4>2, <4>3, <4>4, SameStack, SameJournal
           DEF Fits, Planning, Pushing, Concluding, Reading
    <3>2. CASE self[p].pc \in {"complete", "abandon"}
      <4>1. /\ self'[p].pc \in {"completed?", "abandoned?"}
            /\ self'[p].pc = "abandoned?" => self[p].pc = "abandon"
        BY <1>5, <3>2 DEF Awaiting
      <4>2. Clean /\ (self[p].pc = "abandon" => o \notin applied)
        BY <1>0, <3>2 DEF Fits, Concluding
      <4>3. Clean'
        BY <1>3, <4>2, SameStack
      <4> QED
        BY <1>3, <1>5, <4>1, <4>2, <4>3 DEF Fits, Planning, Pushing, Concluding, Reading
    <3> QED
      BY <1>0, <3>1, <3>2
  <2>11. \A q \in Procs : q # p => Fits(self[q])'
    BY <1>1, <1>5, IdleFitsNext DEF Others
  <2> QED
    BY <2>4, <2>5, <2>6, <2>7, <2>9, <2>10, <2>11 DEF Serial
<1> QED
  BY <1>4, <1>5, AppendEventFields

-----------------------------------------------------------------------------
(* A checkpoint is written: from the lowest layer up the pairs become the   *)
(* chain of the candidates, and below it the stack is as it was.            *)

LEMMA CheckpointFields ==
    ASSUME TypeOK, JournalFirst, Minted, Serial, NEW p \in Procs, WriteCheckpoint(p)
    PROVE  /\ self[p].pc = "checkpoint" /\ self[p].op \in Unsettled /\ Done(self[p].op)
           /\ self[p].op \in 1..nops /\ self[p].op \in Ops
           /\ Written(self[p])
           /\ UNCHANGED <<ref, journal, posts, rec, nops, pushes, applied, refused, edits>>
           /\ \A l \in Layers : l # self[p].idx => cp'[l] = cp[l]
           /\ cp'[self[p].idx] = [parent |-> EdgeOf(self[p], self[p].idx),
                                  head |-> rec[self[p].op].after[self[p].idx]]
           /\ self[p].idx \in Layers
           /\ cp'[self[p].idx].parent = EdgeOf(self[p], self[p].idx)
           /\ cp'[self[p].idx].head = rec[self[p].op].after[self[p].idx]
           /\ Others(p)
           /\ self'[p].op = self[p].op /\ self'[p].snap = self[p].snap
           /\ self'[p].want = self[p].want
           /\ IF self[p].idx < N
              THEN self'[p].pc = "checkpoint" /\ self'[p].idx = self[p].idx + 1
              ELSE self'[p].pc = "complete"
<1>1. self[p].pc = "checkpoint" /\ Fits(self[p])
  BY DEF WriteCheckpoint, Serial
<1>2. self[p].op \in Unsettled /\ Done(self[p].op) /\ Written(self[p])
  BY <1>1 DEF Fits, Pushing, Concluding
<1>3. self[p].op \in 1..nops /\ self[p].op \in Ops
  BY <1>2, NamedMinted, JournalTypes
<1>4. self[p].idx \in Layers
  BY <1>2 DEF Written
<1>5. EdgeOf(self[p], self[p].idx) = ParentEdge(p, self[p].idx)
  BY DEF EdgeOf, ParentEdge
<1>6. /\ \A l \in Layers : l # self[p].idx => cp'[l] = cp[l]
      /\ cp'[self[p].idx] = [parent |-> EdgeOf(self[p], self[p].idx),
                             head |-> rec[self[p].op].after[self[p].idx]]
  BY <1>4, <1>5 DEF WriteCheckpoint, TypeOK
<1>7. /\ Others(p)
      /\ self'[p].op = self[p].op /\ self'[p].snap = self[p].snap
      /\ self'[p].want = self[p].want
      /\ IF self[p].idx < N
         THEN self'[p].pc = "checkpoint" /\ self'[p].idx = self[p].idx + 1
         ELSE self'[p].pc = "complete"
  <2>1. CASE self[p].idx < N /\ Goto(p, "checkpoint", self[p].idx + 1)
    BY <2>1, GotoFields DEF TypeOK
  <2>2. CASE ~ (self[p].idx < N) /\ Goto(p, "complete", 1)
    BY <2>2, GotoFields DEF TypeOK
  <2> QED
    BY <2>1, <2>2 DEF WriteCheckpoint
<1>8. UNCHANGED <<ref, journal, posts, rec, nops, pushes, applied, refused, edits>>
  BY DEF WriteCheckpoint, log, remote
<1> QED
  BY <1>1, <1>2, <1>3, <1>4, <1>6, <1>7, <1>8

LEMMA CheckpointStack ==
    ASSUME TypeOK, JournalFirst, Minted, Serial, NEW p \in Procs, WriteCheckpoint(p)
    PROVE  /\ LowClean(self[p].op)'
           /\ self'[p].pc = "checkpoint" => Written(self[p])'
           /\ self'[p].pc = "complete" => Clean'
<1> DEFINE o == self[p].op
           i == self[p].idx
           r == rec[o]
<1>0. /\ o \in Unsettled /\ o \in 1..nops /\ o \in Ops /\ Done(o) /\ Written(self[p])
      /\ ref' = ref /\ rec' = rec
      /\ self'[p].op = o /\ self'[p].snap = self[p].snap
      /\ IF i < N THEN self'[p].pc = "checkpoint" /\ self'[p].idx = i + 1
                  ELSE self'[p].pc = "complete"
  BY CheckpointFields
<1>1. \A l \in Layers : l # i => cp'[l] = cp[l]
  BY CheckpointFields
<1>2. /\ i \in Layers /\ i >= r.lo /\ r.lo \in Nat /\ r.lo >= 1 /\ r.lo <= N /\ N \in Nat
      /\ \A l : l \in Affected(o) <=> l \in Layers /\ l >= r.lo
  BY <1>0, Ranges DEF Written
<1>3. /\ \A l \in Layers : l < i /\ l >= r.lo =>
           cp[l] = [parent |-> EdgeOf(self[p], l), head |-> r.after[l]]
      /\ r.lo > 1 => self[p].snap[r.lo].parent = cp[r.lo - 1].head
  BY <1>0, <1>2 DEF Written
<1>4. \A l \in Layers : l >= r.lo /\ l <= i =>
           cp'[l].parent = EdgeOf(self[p], l) /\ cp'[l].head = r.after[l]
  <2> SUFFICES ASSUME NEW l \in Layers, l >= r.lo, l <= i
               PROVE  cp'[l].parent = EdgeOf(self[p], l) /\ cp'[l].head = r.after[l]
    OBVIOUS
  <2>1. CASE l = i
    BY <2>1, CheckpointFields
  <2>2. CASE l # i
    <3>1. l < i
      BY <1>2, <2>2 DEF Layers
    <3>2. cp'[l] = cp[l]
      BY <1>1, <2>2
    <3>3. cp[l] = [parent |-> EdgeOf(self[p], l), head |-> r.after[l]]
      BY <1>3, <3>1, ZenonT(60)
    <3> QED
      BY <3>2, <3>3
  <2> QED
    BY <2>1, <2>2
<1>5. /\ r.lo > 1 => r.base = NoBase
      /\ \A l \in Layers : l > r.lo => EdgeOf(self[p], l) = r.after[l - 1]
      /\ r.lo > 1 => EdgeOf(self[p], r.lo) = cp[r.lo - 1].head
  <2>1. r.lo > 1 => r.base = NoBase
    BY <1>0, <1>2 DEF Serial, BasesAreLow
  <2> QED
    BY <1>2, <1>3, <2>1 DEF EdgeOf
<1>6. LowClean(o)
  BY <1>0 DEF Serial, Pending
<1>7. /\ \A l \in Layers : l < r.lo => ref[l] = cp'[l].head \/ Foreign(ref[l])
      /\ \A l \in Layers : l > 1 /\ l <= r.lo => cp'[l].parent = cp'[l - 1].head
  <2>1. ASSUME NEW l \in Layers, l < r.lo PROVE ref[l] = cp'[l].head \/ Foreign(ref[l])
    <3>1. l # i
      BY <1>2, <2>1 DEF Layers
    <3>2. ref[l] = cp[l].head \/ Foreign(ref[l])
      BY <1>6, <2>1 DEF LowClean
    <3> QED
      BY <1>1, <3>1, <3>2
  <2>2. ASSUME NEW l \in Layers, l > 1, l <= r.lo PROVE cp'[l].parent = cp'[l - 1].head
    <3>1. l - 1 \in Layers /\ l - 1 # i
      BY <1>2, <2>2 DEF Layers
    <3>2. cp'[l - 1] = cp[l - 1]
      BY <1>1, <3>1
    <3>3. CASE l = i
      <4>1. l = r.lo
        BY <1>2, <2>2, <3>3 DEF Layers
      <4>2. cp'[l].parent = EdgeOf(self[p], r.lo)
        BY <1>2, <1>4, <4>1, <3>3
      <4> HIDE DEF r
      <4> QED
        BY <1>5, <2>2, <3>2, <4>1, <4>2
    <3>4. CASE l # i
      <4>1. cp[l].parent = cp[l - 1].head
        BY <1>6, <2>2 DEF LowClean
      <4> QED
        BY <1>1, <3>2, <3>4, <4>1
    <3> QED
      BY <3>3, <3>4
  <2> QED
    BY <2>1, <2>2
<1>8. LowClean(self[p].op)'
  BY <1>0, <1>7, ZenonT(60) DEF LowClean, Foreign
<1>9. ASSUME self'[p].pc = "checkpoint" PROVE Written(self[p])'
  <2>1. i < N /\ self'[p].idx = i + 1
    BY <1>0, <1>9
  <2>2. i + 1 \in Layers /\ i + 1 >= r.lo
    BY <1>2, <2>1 DEF Layers
  <2>3. \A l \in Affected(o) : l < i + 1 =>
          cp'[l] = [parent |-> EdgeOf(self[p], l), head |-> r.after[l]]
    <3> SUFFICES ASSUME NEW l \in Affected(o), l < i + 1
                 PROVE  cp'[l] = [parent |-> EdgeOf(self[p], l), head |-> r.after[l]]
      OBVIOUS
    <3>1. CASE l = i
      BY <3>1, CheckpointFields
    <3>2. CASE l # i
      <4>1. l < i /\ l \in Layers /\ l >= r.lo
        BY <1>2, <3>2 DEF Layers
      <4> QED
        BY <1>1, <1>3, <3>2, <4>1
    <3> QED
      BY <3>1, <3>2
  <2>4. r.lo > 1 => self[p].snap[r.lo].parent = cp'[r.lo - 1].head
    <3>1. r.lo > 1 => r.lo - 1 \in Layers /\ r.lo - 1 # i
      BY <1>2 DEF Layers
    <3> QED
      BY <1>1, <1>3, <3>1
  <2>5. \A l : EdgeOf(self[p], l)' = EdgeOf(self[p], l)
    BY <1>0 DEF EdgeOf
  <2>6. Affected(self[p].op)' = Affected(o)
    BY <1>0 DEF Affected
  <2> QED
    BY <1>0, <2>1, <2>2, <2>3, <2>4, <2>5, <2>6 DEF Written
<1>10. ASSUME self'[p].pc = "complete" PROVE Clean'
  <2>1. i = N
    BY <1>0, <1>2, <1>10 DEF Layers
  <2>2. InPlace'
    <3>1. ASSUME NEW l \in Layers PROVE ref[l] = cp'[l].head \/ Foreign(ref[l])
      <4>1. CASE l < r.lo
        BY <1>7, <4>1
      <4>2. CASE l >= r.lo /\ l <= N
        <5>1. l \in Affected(o) /\ cp'[l].head = r.after[l]
          BY <1>2, <1>4, <2>1, <4>2
        <5> QED
          BY <1>0, <5>1 DEF Done
      <4> QED
        BY <1>2, <4>1, <4>2 DEF Layers
    <3> QED
      BY <1>0, <3>1 DEF InPlace, Foreign
  <2>3. Linear'
    <3>1. ASSUME NEW l \in Layers, l > 1 PROVE cp'[l].parent = cp'[l - 1].head
      <4>1. CASE l <= r.lo
        BY <1>7, <3>1, <4>1
      <4>2. CASE l > r.lo
        <5>1. l - 1 \in Layers /\ l - 1 >= r.lo /\ l - 1 <= i /\ l <= i /\ l >= r.lo
          BY <1>2, <2>1, <3>1, <4>2 DEF Layers
        <5>2. cp'[l - 1].head = r.after[l - 1] /\ cp'[l].parent = EdgeOf(self[p], l)
          BY <1>4, <5>1
        <5> QED
          BY <1>5, <4>2, <5>2
      <4> QED
        BY <1>2, <4>1, <4>2 DEF Layers
    <3> QED
      BY <3>1 DEF Linear
  <2> QED
    BY <2>2, <2>3 DEF Clean
<1> QED
  BY <1>8, <1>9, <1>10

LEMMA WriteCheckpointStep ==
    ASSUME TypeOK, JournalFirst, Minted, Serial, NEW p \in Procs, WriteCheckpoint(p)
    PROVE  Serial'
<1> DEFINE o == self[p].op
<1>0. /\ self[p].pc = "checkpoint" /\ o \in Unsettled /\ Done(o) /\ o \in 1..nops
      /\ Others(p) /\ self'[p].op = o /\ self'[p].snap = self[p].snap
      /\ self'[p].want = self[p].want /\ self'[p].pc \in {"checkpoint", "complete"}
      /\ self[p].idx \in Layers
      /\ cp'[self[p].idx].head = rec[o].after[self[p].idx]
      /\ \A l \in Layers : l # self[p].idx => cp'[l] = cp[l]
      /\ UNCHANGED <<ref, journal, posts, rec, nops, pushes, applied, refused, edits>>
  BY CheckpointFields
<1>1. \A q \in Procs : q # p => self[q].pc = "idle"
  BY <1>0, OthersIdle DEF Serial
<1>2. posts = {} /\ pushes = {}
  BY <1>0, NothingInFlight DEF Serial, Awaits
<1>3. Alone'
  BY <1>0, <1>1 DEF Alone, Others
<1>4. Held' /\ PostsFit' /\ Apart'
  BY <1>0, <1>2 DEF Held, PostsFit, Apart, Serial
<1>5. Tidy' /\ BasesAreLow' /\ AbandonedHadNoEffect'
  BY <1>0 DEF Serial, Tidy, BasesAreLow, AbandonedHadNoEffect, Unsettled, Prepared,
              Abandoned, Event
<1>6. AllRecent'
  <2> SUFFICES ASSUME NEW l \in Layers
               PROVE  /\ Recent(ref[l])' /\ Recent(cp[l].head)'
                      /\ \A k \in 1..nops' : Recent(rec[k].before[l])' /\ Recent(rec[k].after[l])'
                      /\ \A q \in Procs : Recent(self[q].snap[l].head)' /\ Recent(self[q].want[l])'
    BY DEF AllRecent
  <2>1. /\ Recent(ref[l]) /\ Recent(cp[l].head) /\ Recent(rec[o].after[l])
        /\ \A k \in 1..nops : Recent(rec[k].before[l]) /\ Recent(rec[k].after[l])
        /\ \A q \in Procs : Recent(self[q].snap[l].head) /\ Recent(self[q].want[l])
    BY <1>0 DEF Serial, AllRecent
  <2>2. \A q \in Procs : self'[q].snap = self[q].snap /\ self'[q].want = self[q].want
    BY <1>0 DEF Others
  <2>3. cp'[l].head \in {cp[l].head, rec[o].after[l]}
    BY <1>0
  <2> HIDE DEF o
  <2> QED
    BY <1>0, <2>1, <2>2, <2>3 DEF Recent
<1>7. Unsettled' = {o} /\ Unsettled = {o}
  BY <1>0, SameJournal DEF Serial, Tidy
<1>8. LowClean(self[p].op)' /\ Done(self[p].op)'
  <2>1. Done(self[p].op)' <=> Done(self'[p].op)
    BY <1>0 DEF Done, Affected, Updates, Foreign
  <2> QED
    BY <1>0, <2>1, CheckpointStack
<1>9. Pending' /\ Settled'
  <2>1. self'[p].op = o
    BY <1>0
  <2> HIDE DEF o
  <2> QED
    BY <1>7, <1>8, <2>1 DEF Pending, Settled
<1>10. Fits(self[p])'
  <2>1. /\ self'[p].pc = "checkpoint" => Written(self[p])'
        /\ self'[p].pc = "complete" => Clean'
    BY CheckpointStack
  <2>2. self'[p].op \in Unsettled'
    BY <1>0, <1>7
  <2> QED
    BY <1>0, <1>8, <2>1, <2>2 DEF Fits, Planning, Pushing, Concluding, Reading
<1>11. \A q \in Procs : q # p => Fits(self[q])'
  BY <1>0, <1>1, IdleFitsNext DEF Others
<1> QED
  BY <1>3, <1>4, <1>5, <1>6, <1>9, <1>10, <1>11 DEF Serial

-----------------------------------------------------------------------------
(* The environment: requests take effect or are lost. *)

\* The process that a journal POST in flight belongs to.
LEMMA PostOwner ==
    ASSUME TypeOK, Serial, NEW e \in posts
    PROVE  \E p \in Procs :
             /\ self[p].pc \in Awaits /\ e = Mine(p) /\ e.id = self[p].op
             /\ e.role = Role(self[p].pc)
             /\ \A q \in Procs : q # p => self[q].pc = "idle"
             /\ posts = {e} /\ pushes = {}
<1>1. PICK p \in Procs : self[p].pc \in Awaits /\ e = Mine(p)
  BY DEF Serial, Held
<1>2. \A q \in Procs : q # p => self[q].pc = "idle"
  BY <1>1, OthersIdle DEF Serial, Awaits
<1>3. ASSUME NEW d \in posts PROVE d = e
  <2>1. PICK q \in Procs : self[q].pc \in Awaits /\ d = Mine(q)
    BY DEF Serial, Held
  <2>2. q = p
    BY <1>2, <2>1 DEF Awaits
  <2> QED
    BY <1>1, <2>1, <2>2
<1>4. ASSUME NEW o \in pushes PROVE FALSE
  <2>1. PICK q \in Procs : self[q].pc = "pushing" /\ self[q].op = o
    BY DEF Serial, Held
  <2> QED
    BY <1>1, <1>2, <2>1 DEF Awaits
<1>5. e.id = self[p].op /\ e.role = Role(self[p].pc)
  BY <1>1, EventFields DEF Mine
<1> QED
  BY <1>1, <1>2, <1>3, <1>4, <1>5

\* The process that a push in flight belongs to: nothing of it has happened.
LEMMA PushOwner ==
    ASSUME TypeOK, JournalFirst, Minted, Serial, NEW o \in pushes
    PROVE  \E p \in Procs :
             /\ self[p].pc = "pushing" /\ self[p].op = o /\ self[p].snap = cp
             /\ \A q \in Procs : q # p => self[q].pc = "idle"
             /\ posts = {} /\ pushes = {o}
             /\ o \notin applied \cup refused /\ Fresh(o) /\ Unsettled = {o}
             /\ o \in 1..nops /\ o \in Ops
<1>1. PICK p \in Procs : self[p].pc = "pushing" /\ self[p].op = o
  BY DEF Serial, Held
<1>2. \A q \in Procs : q # p => self[q].pc = "idle"
  BY <1>1, OthersIdle DEF Serial
<1>3. ASSUME NEW k \in pushes PROVE k = o
  <2>1. PICK q \in Procs : self[q].pc = "pushing" /\ self[q].op = k
    BY DEF Serial, Held
  <2> QED
    BY <1>1, <1>2, <2>1
<1>4. ASSUME NEW e \in posts PROVE FALSE
  <2>1. PICK q \in Procs : self[q].pc \in Awaits
    BY DEF Serial, Held
  <2> QED
    BY <1>1, <1>2, <2>1 DEF Awaits
<1>5. o \notin applied \cup refused
  BY DEF Serial, Apart
<1>6. self[p].snap = cp /\ Fresh(o) /\ o \in Unsettled
  BY <1>1, <1>5 DEF Serial, Fits, Planning, Pushing, Reading
<1>7. Unsettled = {o} /\ o \in 1..nops /\ o \in Ops
  BY <1>6, NamedMinted, JournalTypes DEF Serial, Tidy
<1> QED
  BY <1>1, <1>2, <1>3, <1>4, <1>5, <1>6, <1>7

LEMMA LoseStep ==
    ASSUME TypeOK, Serial, NEW e \in posts, Lose(e)
    PROVE  Serial'
<1>1. PICK p \in Procs : /\ \A q \in Procs : q # p => self[q].pc = "idle"
                         /\ posts = {e} /\ pushes = {}
  BY PostOwner
<1>2. /\ posts' = {} /\ pushes' = {} /\ self' = self
      /\ UNCHANGED <<cp, journal, rec, nops, ref, applied, refused, edits>>
  BY <1>1 DEF Lose, remote
<1>3. Others(p) /\ Fits(self'[p])
  BY <1>2 DEF Others, Serial
<1>4. \A l \in Layers : Recent(self'[p].snap[l].head) /\ Recent(self'[p].want[l])
  BY <1>2 DEF Serial, AllRecent
<1> QED
  BY <1>1, <1>2, <1>3, <1>4, LocalStep

LEMMA LosePushStep ==
    ASSUME TypeOK, JournalFirst, Minted, Serial, NEW o \in pushes, LosePush(o)
    PROVE  Serial'
<1>1. PICK p \in Procs : /\ self[p].pc = "pushing" /\ self[p].op = o
                         /\ \A q \in Procs : q # p => self[q].pc = "idle"
                         /\ posts = {} /\ pushes = {o}
  BY PushOwner
<1>2. /\ posts' = {} /\ pushes' = {}
      /\ UNCHANGED <<cp, journal, rec, nops, ref, applied, refused, edits>>
  BY <1>1 DEF LosePush, log
<1>3. self'[p] = Idle /\ Others(p)
  BY <1>1 DEF LosePush, Others
<1>4. Fits(Idle) /\ Idle.snap = Pairs /\ Idle.want = Heads
  BY IdleFits, IdleFields
<1> QED
  BY <1>1, <1>2, <1>3, <1>4, StartsRecent, LocalStep

\* What the journal says once an event is in it.
LEMMA JournalGains ==
    ASSUME NEW e, journal' = journal \cup {e}, NEW R
    PROVE  Having(journal, R)' = IF e.role \in R THEN Having(journal, R) \cup {e.id}
                                 ELSE Having(journal, R)
  BY DEF Having

\* The prepared record becomes durable.
LEMMA PreparedLands ==
    ASSUME TypeOK, JournalFirst, Serial, NEW e \in posts, Land(e), e.role = "prepared"
    PROVE  /\ Tidy' /\ AbandonedHadNoEffect' /\ Unsettled' = {e.id}
           /\ Having(journal, Terminal)' = Having(journal, Terminal)
<1>1. Unsettled = {} /\ e.id \notin Prepared
  BY DEF Serial, PostsFit
<1>2. journal' = journal \cup {e} /\ posts' = posts \ {e} /\ applied' = applied
  BY DEF Land, remote
<1>3. /\ Prepared' = Prepared \cup {e.id}
      /\ Having(journal, Terminal)' = Having(journal, Terminal)
      /\ Abandoned' = Abandoned
  BY <1>2, JournalGains DEF Prepared, Abandoned, Terminal
<1>4. \A d \in journal : d.id \in Prepared
  BY DEF Serial, Tidy
<1>5. e.id \notin Having(journal, Terminal)
  BY <1>1, <1>4 DEF Having
<1>6. Unsettled' = {e.id}
  BY <1>1, <1>3, <1>5 DEF Unsettled, UnresolvedIn, Prepared
<1>7. Tidy'
  <2>1. \A d \in journal' \cup posts' : d = Event(d.id, d.role, d.text)
    BY <1>2 DEF Serial, Tidy
  <2>2. ASSUME NEW c \in journal', NEW d \in journal', c.id = d.id,
               c.role = d.role \/ (c.role # "prepared" /\ d.role # "prepared")
        PROVE  c = d
    <3>1. CASE c \in journal /\ d \in journal
      BY <2>2, <3>1 DEF Serial, Tidy
    <3>2. CASE ~ (c \in journal /\ d \in journal)
      BY <1>1, <1>2, <1>4, <2>2, <3>2
    <3> QED
      BY <3>1, <3>2
  <2>3. \A d \in journal' : d.id \in Prepared'
    BY <1>2, <1>3, <1>4
  <2> QED
    BY <1>6, <2>1, <2>2, <2>3 DEF Tidy, Event
<1> QED
  BY <1>2, <1>3, <1>6, <1>7 DEF AbandonedHadNoEffect, Serial

\* The outcome becomes durable.
LEMMA OutcomeLands ==
    ASSUME TypeOK, JournalFirst, Serial, NEW e \in posts, Land(e), e.role \in Terminal
    PROVE  /\ Tidy' /\ Unsettled' = {} /\ e.id \in Unsettled
           /\ Abandoned' \subseteq Abandoned \cup {e.id}
           /\ e.role = "completed" => Abandoned' = Abandoned
<1>1. e.id \in Unsettled /\ Unsettled = {e.id}
  BY DEF Serial, PostsFit, Terminal, Tidy
<1>2. journal' = journal \cup {e} /\ posts' = posts \ {e}
  BY DEF Land
<1>3. /\ Prepared' = Prepared
      /\ Having(journal, Terminal)' = Having(journal, Terminal) \cup {e.id}
      /\ Abandoned' \subseteq Abandoned \cup {e.id}
      /\ e.role = "completed" => Abandoned' = Abandoned
  BY <1>2, JournalGains DEF Prepared, Abandoned, Terminal
<1>4. Unsettled' = {}
  BY <1>1, <1>3 DEF Unsettled, UnresolvedIn, Prepared
<1>5. \A d \in journal : d.id # e.id \/ d.role \notin Terminal
  BY <1>1 DEF Unsettled, UnresolvedIn, Having
<1>6. Tidy'
  <2>1. \A d \in journal' \cup posts' : d = Event(d.id, d.role, d.text)
    BY <1>2 DEF Serial, Tidy
  <2>2. ASSUME NEW c \in journal', NEW d \in journal', c.id = d.id,
               c.role = d.role \/ (c.role # "prepared" /\ d.role # "prepared")
        PROVE  c = d
    <3>0. \A k \in journal : k.role \in Terminal \/ k.role = "prepared"
      BY DEF TypeOK, EventSet, Roles, Terminal
    <3>1. CASE c \in journal /\ d \in journal
      BY <2>2, <3>1 DEF Serial, Tidy
    <3>2. CASE ~ (c \in journal /\ d \in journal)
      BY <1>2, <1>5, <2>2, <3>0, <3>2 DEF Terminal
    <3> QED
      BY <3>1, <3>2
  <2>3. \A d \in journal' : d.id \in Prepared'
    BY <1>1, <1>2, <1>3 DEF Serial, Tidy, Unsettled, UnresolvedIn, Prepared
  <2> QED
    BY <1>4, <2>1, <2>2, <2>3 DEF Tidy, Event
<1> QED
  BY <1>1, <1>3, <1>4, <1>6

LEMMA LandStep ==
    ASSUME TypeOK, JournalFirst, Serial, NEW e \in posts, Land(e)
    PROVE  Serial'
<1>1. PICK p \in Procs :
             /\ self[p].pc \in Awaits /\ e.id = self[p].op
             /\ e.role = Role(self[p].pc)
             /\ \A q \in Procs : q # p => self[q].pc = "idle"
             /\ posts = {e} /\ pushes = {}
  BY PostOwner
<1>2. /\ posts' = {} /\ pushes' = {} /\ self' = self /\ journal' = journal \cup {e}
      /\ UNCHANGED <<cp, rec, nops, ref, applied, refused, edits>>
  BY <1>1 DEF Land, remote
<1>3. Alone' /\ Held' /\ Apart' /\ PostsFit'
  BY <1>2 DEF Serial, Alone, Held, Apart, PostsFit
<1>4. AllRecent' /\ BasesAreLow'
  BY <1>2 DEF Serial, AllRecent, BasesAreLow, Recent
<1>5. Fits(self[p])
  BY DEF Serial
<1>6. \A q \in Procs : q # p => Fits(self[q])'
  BY <1>1, <1>2, IdleFitsNext
<1>7. CASE self[p].pc = "prepared?"
  <2>1. e.role = "prepared"
    BY <1>1, <1>7 DEF Role
  <2>2. /\ Tidy' /\ AbandonedHadNoEffect' /\ Unsettled' = {e.id}
        /\ Having(journal, Terminal)' = Having(journal, Terminal)
    BY <2>1, PreparedLands
  <2>3. /\ self[p].snap = cp /\ e.id \notin pushes \cup applied \cup refused /\ Fresh(e.id)
        /\ e.id \notin Having(journal, Terminal)
    BY <1>1, <1>5, <1>7 DEF Fits, Planning, Pushing, Reading
  <2>4. Pending' /\ Settled'
    <3>1. Clean
      BY <2>3 DEF Fresh
    <3>2. LowClean(e.id)
      BY <3>1 DEF LowClean, Clean, InPlace, Linear
    <3>3. ~ Effective(e.id)
      BY <2>3 DEF Effective
    <3>4. LowClean(e.id)' /\ ~ Effective(e.id)'
      <4>1. \A k : (LowClean(k)' <=> LowClean(k)) /\ (Effective(k)' <=> Effective(k))
        BY <1>2, SameStack
      <4>2. e' = e
        OBVIOUS
      <4> QED
        BY <3>2, <3>3, <4>1, <4>2
    <3> QED
      BY <2>2, <3>4 DEF Pending, Settled
  <2>5. Fits(self[p])'
    BY <1>1, <1>2, <1>7, <2>2, <2>3, SameStack
       DEF Fits, Planning, Pushing, Concluding, Reading
  <2> QED
    BY <1>3, <1>4, <1>6, <2>2, <2>4, <2>5 DEF Serial
<1>8. CASE self[p].pc \in {"completed?", "abandoned?"}
  <2>1. /\ e.role \in Terminal
        /\ self[p].pc = "completed?" => e.role = "completed"
    BY <1>1, <1>8 DEF Role, Terminal
  <2>2. /\ Tidy' /\ Unsettled' = {} /\ Abandoned' \subseteq Abandoned \cup {e.id}
        /\ e.role = "completed" => Abandoned' = Abandoned
    BY <2>1, OutcomeLands
  <2>3. Clean /\ (self[p].pc = "abandoned?" => self[p].op \notin applied)
    BY <1>5, <1>8 DEF Fits, Concluding
  <2>4. Clean'
    BY <1>2, <2>3, SameStack
  <2>5. Pending' /\ Settled'
    BY <2>2, <2>4 DEF Pending, Settled
  <2>6. AbandonedHadNoEffect'
    BY <1>1, <1>2, <1>8, <2>1, <2>2, <2>3 DEF Serial, AbandonedHadNoEffect
  <2>7. Fits(self[p])'
    BY <1>2, <1>8, <2>3, <2>4 DEF Fits, Planning, Pushing, Concluding, Reading
  <2> QED
    BY <1>3, <1>4, <1>6, <2>2, <2>5, <2>6, <2>7 DEF Serial
<1> QED
  BY <1>1, <1>7, <1>8 DEF Awaits

\* The accepted push: every ref it names is at its candidate, the others are
\* where the leases say.
LEMMA ServedIsDone ==
    ASSUME TypeOK, JournalFirst, Minted, Serial, NEW o \in pushes, Fresh(o), o \in Ops,
           rec' = rec, cp' = cp,
           ref' = [l \in 0..N |-> IF l \in Updates(o) THEN rec[o].after[l] ELSE ref[l]]
    PROVE  LowClean(o)' /\ Done(o)'
<1>0. /\ \A l : l \in Affected(o) <=> l \in Layers /\ l >= rec[o].lo
      /\ rec[o].lo \in Nat /\ N \in Nat /\ Updates(o) \subseteq Affected(o)
  BY Ranges
<1>1. \A l \in Layers : ref'[l] = IF l \in Updates(o) THEN rec[o].after[l] ELSE ref[l]
  BY Bounds DEF Layers
<1>2. /\ \A l \in Layers : ref[l] = cp[l].head \/ Foreign(ref[l])
      /\ \A l \in Layers : l > 1 => cp[l].parent = cp[l - 1].head
      /\ \A l \in Affected(o) : l \notin rec[o].adopt => cp[l].head = rec[o].before[l]
      /\ \A l \in Layers : l \in rec[o].adopt => Foreign(ref[l])
  BY DEF Fresh, Clean, InPlace, Linear
<1>3. ASSUME NEW l \in Layers, l < rec[o].lo PROVE ref'[l] = cp[l].head \/ Foreign(ref'[l])
  <2>1. l \notin Updates(o)
    BY <1>0, <1>3 DEF Layers
  <2> QED
    BY <1>1, <1>2, <2>1
<1>4. LowClean(o)'
  BY <1>2, <1>3 DEF LowClean, Foreign
<1>5. ASSUME NEW l \in Affected(o)
      PROVE  /\ ref'[l] = rec[o].after[l] \/ Foreign(ref'[l])
             /\ l \in Updates(o) => ref'[l] # rec[o].before[l]
  <2>0. l \in Layers
    BY <1>0
  <2>1. CASE l \in Updates(o)
    BY <1>1, <2>0, <2>1 DEF Updates
  <2>2. CASE l \notin Updates(o)
    <3>1. rec[o].after[l] = rec[o].before[l] /\ ref'[l] = ref[l]
      BY <1>1, <2>0, <2>2 DEF Updates
    <3> QED
      BY <1>2, <2>0, <2>2, <3>1
  <2> QED
    BY <2>1, <2>2
<1>6. Done(o)'
  BY <1>5 DEF Done, Affected, Updates, Foreign
<1> QED
  BY <1>4, <1>6

LEMMA ServeStep ==
    ASSUME TypeOK, JournalFirst, Minted, Serial, NEW o \in pushes, Serve(o)
    PROVE  Serial'
<1>1. PICK p \in Procs :
             /\ self[p].pc = "pushing" /\ self[p].op = o /\ self[p].snap = cp
             /\ \A q \in Procs : q # p => self[q].pc = "idle"
             /\ posts = {} /\ pushes = {o}
             /\ o \notin applied \cup refused /\ Fresh(o) /\ Unsettled = {o}
             /\ o \in 1..nops /\ o \in Ops
  BY PushOwner
<1>2. /\ posts' = {} /\ pushes' = {} /\ self' = self
      /\ UNCHANGED <<cp, journal, rec, nops, edits>>
  BY <1>1 DEF Serve, log
<1>3. Alone' /\ Held' /\ Tidy' /\ PostsFit' /\ BasesAreLow'
  BY <1>1, <1>2, ZenonT(60) DEF Serial, Alone, Held, Tidy, PostsFit, BasesAreLow, Unsettled, Prepared,
                    Event
<1>4. \A q \in Procs : q # p => Fits(self[q])'
  BY <1>1, <1>2, IdleFitsNext
<1>5. Unsettled' = {o} /\ Abandoned' = Abandoned /\ o \notin Abandoned
  <2>1. Unsettled' = {o} /\ Abandoned' = Abandoned
    BY <1>1, <1>2, SameJournal
  <2>2. o \notin Abandoned
    BY <1>1 DEF Unsettled, UnresolvedIn, Abandoned, Having, Terminal
  <2> QED
    BY <2>1, <2>2
<1>6. CASE /\ ref' = [l \in 0..N |-> IF l \in Updates(o) THEN rec[o].after[l] ELSE ref[l]]
           /\ applied' = applied \cup {o} /\ refused' = refused
  <2>1. LowClean(o)' /\ Done(o)'
    BY <1>1, <1>2, <1>6, ServedIsDone
  <2>2. Pending' /\ Settled'
    BY <1>5, <2>1 DEF Pending, Settled
  <2>3. Apart' /\ AbandonedHadNoEffect'
    BY <1>1, <1>2, <1>5, <1>6 DEF Serial, Apart, AbandonedHadNoEffect
  <2>4. AllRecent'
    <3>1. \A l \in Layers : ref'[l] \in {ref[l], rec[o].after[l]}
      BY <1>6, Bounds DEF Layers
    <3> QED
      BY <1>1, <1>2, <3>1 DEF Serial, AllRecent, Recent
  <2>5. Fits(self[p])'
    BY <1>1, <1>2, <1>5, <1>6 DEF Fits, Planning, Pushing, Concluding, Reading
  <2> QED
    BY <1>3, <1>4, <2>2, <2>3, <2>4, <2>5 DEF Serial
<1>7. CASE refused' = refused \cup {o} /\ UNCHANGED <<ref, applied>>
  <2>1. AllRecent' /\ Pending' /\ Settled' /\ AbandonedHadNoEffect'
    BY <1>2, <1>7, QuietStep
  <2>2. Apart'
    BY <1>1, <1>2, <1>7 DEF Serial, Apart
  <2>3. Fits(self[p])'
    BY <1>1, <1>2, <1>5, <1>7, SameStack DEF Fits, Planning, Pushing, Concluding, Reading
  <2> QED
    BY <1>3, <1>4, <2>1, <2>2, <2>3 DEF Serial
<1> QED
  BY <1>6, <1>7 DEF Serve

LEMMA CommitTypes ==
    ASSUME TypeOK
    PROVE  \A l \in Layers :
             /\ ref[l] \in Commit /\ cp[l].head \in Commit
             /\ \A o \in 1..nops : rec[o].before[l] \in Commit /\ rec[o].after[l] \in Commit
             /\ \A p \in Procs : self[p].snap[l].head \in Commit /\ self[p].want[l] \in Commit
<1>1. \A l \in Layers : l \in 0..N
  BY Bounds DEF Layers
<1>2. \A o \in 1..nops : rec[o] \in RecordSet
  BY Bounds DEF TypeOK, Ops
<1>3. \A p \in Procs : self[p] \in SelfSet
  BY DEF TypeOK
<1> QED
  BY <1>1, <1>2, <1>3 DEF TypeOK, RecordSet, SelfSet, PairSet

\* What an edit out of band leaves true: it puts a commit that nobody has seen
\* in the place of a head.
LEMMA EditLeaves ==
    ASSUME TypeOK, Serial, NEW k \in 0..N, ForeignEdit(k)
    PROVE  /\ \A c \in Commit : Recent(c) => Recent(c)'
           /\ \A l \in Layers : /\ Recent(ref[l])'
                                /\ Foreign(ref[l]) => Foreign(ref'[l])
                                /\ ref'[l] = ref[l] \/ Foreign(ref'[l])
                                /\ \A c : ref'[l] = ref[l] \/ (Recent(c) => ref'[l] # c)
<1> DEFINE f == <<MaxOps + edits + 1, k>>
<1>0. edits \in Nat /\ MaxOps \in Nat /\ edits' = edits + 1
  BY Bounds DEF TypeOK, ForeignEdit
<1>1. \A l \in Layers : ref'[l] = ref[l] \/ ref'[l] = f
  BY DEF ForeignEdit, TypeOK, Layers
<1>2. Foreign(f) /\ f[1] = MaxOps + edits + 1
  BY <1>0 DEF Foreign
<1>3. \A c : Recent(c) => f # c
  BY <1>0, <1>2 DEF Recent
<1>4. \A l \in Layers : ref[l][1] \in Nat
  BY Bounds DEF TypeOK, Commit, Layers
<1>5. \A c \in Commit : Recent(c) => Recent(c)'
  BY <1>0 DEF Recent, Commit
<1>6. ASSUME NEW l \in Layers PROVE Recent(ref[l])'
  <2>1. Recent(ref[l])
    BY DEF Serial, AllRecent
  <2>2. CASE ref'[l] = ref[l]
    BY <1>0, <1>4, <2>1, <2>2 DEF Recent
  <2>3. CASE ref'[l] = f
    BY <1>0, <1>2, <2>3 DEF Recent
  <2> QED
    BY <1>1, <2>2, <2>3
<1> HIDE DEF f
<1> QED
  BY <1>1, <1>2, <1>3, <1>5, <1>6

LEMMA EditKeepsStack ==
    ASSUME TypeOK, JournalFirst, Minted, Serial, NEW k \in 0..N, ForeignEdit(k)
    PROVE  /\ Clean => Clean'
           /\ \A o : Fresh(o) => Fresh(o)'
           /\ \A o : Effective(o)' => Effective(o)
           /\ \A o : LowClean(o) => LowClean(o)'
           /\ \A o \in 1..nops : Done(o) => Done(o)'
           /\ \A s : s.op \in 1..nops /\ Seen(s) => Seen(s)'
           /\ \A s : Written(s) => Written(s)'
<1>0. /\ cp' = cp /\ rec' = rec /\ applied' = applied
      /\ \A o : Affected(o)' = Affected(o) /\ Updates(o)' = Updates(o)
  BY DEF ForeignEdit, Affected, Updates
<1>1. \A l \in Layers : /\ Foreign(ref[l]) => Foreign(ref'[l])
                        /\ ref'[l] = ref[l] \/ Foreign(ref'[l])
                        /\ \A c : ref'[l] = ref[l] \/ (Recent(c) => ref'[l] # c)
  BY EditLeaves
<1>2. \A o \in 1..nops : o \in Ops /\ Affected(o) \subseteq Layers
  <2>1. 1..nops \subseteq Ops
    BY Bounds DEF TypeOK, Ops
  <2> QED
    BY <2>1, Ranges
<1>3. Clean => Clean'
  BY <1>0, <1>1 DEF Clean, InPlace, Linear, Foreign
<1>4. \A o : Fresh(o) => Fresh(o)'
  BY <1>0, <1>1, <1>3 DEF Fresh, Foreign
<1>5. \A o : Effective(o)' => Effective(o)
  BY <1>0, <1>4 DEF Effective
<1>6. \A o : LowClean(o) => LowClean(o)'
  BY <1>0, <1>1 DEF LowClean, Foreign
<1>7. ASSUME NEW o \in 1..nops, NEW l \in Affected(o)
      PROVE  ref'[l] = ref[l] \/ (Foreign(ref'[l]) /\ ref'[l] # rec[o].before[l])
  <2>1. l \in Layers /\ Recent(rec[o].before[l])
    BY <1>2 DEF Serial, AllRecent
  <2> QED
    BY <1>1, <2>1
<1>8. ASSUME NEW o \in 1..nops, Done(o) PROVE Done(o)'
  <2>1. \A l \in Affected(o) : /\ ref'[l] = rec[o].after[l] \/ Foreign(ref'[l])
                               /\ l \in Updates(o) => ref'[l] # rec[o].before[l]
    BY <1>7, <1>8 DEF Done
  <2> QED
    BY <1>0, <2>1 DEF Done, Foreign
<1>9. ASSUME NEW s, s.op \in 1..nops, Seen(s) PROVE Seen(s)'
  <2>1. \A l \in Affected(s.op) : l < s.idx =>
           /\ s.obs[l] = ref'[l] \/ (Foreign(ref'[l]) /\ ref'[l] # rec[s.op].before[l])
           /\ Effective(s.op)' /\ l \in Updates(s.op) => s.obs[l] # rec[s.op].before[l]
    BY <1>5, <1>7, <1>9 DEF Seen
  <2> QED
    BY <1>0, <2>1 DEF Seen, Foreign
<1>10. \A s : Written(s) => Written(s)'
  BY <1>0 DEF Written, EdgeOf
<1> QED
  BY <1>3, <1>4, <1>5, <1>6, <1>8, <1>9, <1>10

LEMMA ForeignEditStep ==
    ASSUME TypeOK, JournalFirst, Minted, Serial, NEW k \in 0..N, ForeignEdit(k)
    PROVE  Serial'
<1>0. UNCHANGED <<cp, journal, posts, rec, nops, pushes, applied, refused, self>>
  BY DEF ForeignEdit, log
<1>1. Alone' /\ Held' /\ Apart' /\ Tidy' /\ PostsFit' /\ BasesAreLow' /\ AbandonedHadNoEffect'
  <2>1. Alone' /\ Apart' /\ BasesAreLow' /\ AbandonedHadNoEffect'
    BY <1>0, SameJournal DEF Serial, Alone, Apart, BasesAreLow, AbandonedHadNoEffect
  <2>2. Held'
    BY <1>0 DEF Serial, Held, Mine
  <2>3. Tidy' /\ PostsFit'
    BY <1>0 DEF Serial, Tidy, PostsFit, Unsettled, Prepared, Event
  <2> QED
    BY <2>1, <2>2, <2>3
<1>2. AllRecent'
  BY <1>0, CommitTypes, EditLeaves DEF Serial, AllRecent
<1>3. Unsettled' = Unsettled /\ Prepared' = Prepared
      /\ Having(journal, Terminal)' = Having(journal, Terminal)
  BY <1>0, SameJournal
<1>4. Unsettled \subseteq 1..nops
  BY NamedMinted
<1>5. Pending' /\ Settled'
  BY <1>3, <1>4, EditKeepsStack DEF Serial, Pending, Settled
<1>6. ASSUME NEW q \in Procs PROVE Fits(self[q])'
  <2>0. Planning(self[q]) /\ Pushing(self[q]) /\ Concluding(self[q])
    BY DEF Serial, Fits
  <2>1. \A l \in Layers : Foreign(ref[l]) => Foreign(ref[l])'
    <3>1. \A l \in Layers : Foreign(ref[l]) => Foreign(ref'[l])
      BY EditLeaves
    <3> QED
      BY <3>1 DEF Foreign
  <2>2. Planning(self[q])'
    BY <1>0, <1>3, <2>0, <2>1 DEF Planning
  <2>3. Pushing(self[q])'
    <3>1. \A o : Fresh(o) => Fresh(o)'
      BY EditKeepsStack
    <3> QED
      BY <1>0, <1>3, <2>0, <3>1 DEF Pushing
  <2>4. Concluding(self[q])'
    <3>1. /\ Clean => Clean'
          /\ Done(self[q].op) /\ self[q].op \in 1..nops => Done(self[q].op)'
          /\ self[q].op \in 1..nops /\ Seen(self[q]) => Seen(self[q])'
          /\ Written(self[q]) => Written(self[q])'
      BY <1>0, EditKeepsStack
    <3>2. self[q].pc \in {"verify", "classify", "reclassify", "checkpoint"}
             => self[q].op \in 1..nops
      BY <1>4, <2>0 DEF Pushing
    <3> QED
      BY <1>0, <2>0, <3>1, <3>2 DEF Concluding
  <2> QED
    BY <2>2, <2>3, <2>4 DEF Fits
<1> QED
  BY <1>1, <1>2, <1>5, <1>6 DEF Serial

-----------------------------------------------------------------------------
(* The invariant. *)

LEMMA InitSerial == Init => Serial
<1> SUFFICES ASSUME Init PROVE Serial
  OBVIOUS
<1>1. /\ journal = {} /\ posts = {} /\ pushes = {} /\ applied = {} /\ refused = {}
      /\ nops = 0 /\ edits = 0 /\ cp = Pairs
      /\ \A l \in Layers : ref[l] = <<0, l>>
      /\ \A p \in Procs : self[p] = Idle
  BY Bounds DEF Init, Layers
<1>2. \A l \in Layers : /\ cp[l].head = <<0, l>> /\ cp[l].parent = <<0, l - 1>>
                        /\ Heads[l] = <<0, l>> /\ Pairs[l].head = <<0, l>>
  BY <1>1 DEF Pairs, Heads
<1>3. Unsettled = {} /\ Abandoned = {}
  BY <1>1 DEF Unsettled, UnresolvedIn, Abandoned, Having
<1>4. Alone /\ Held /\ Apart /\ Tidy /\ PostsFit
  BY <1>1, <1>3, IdleFields DEF Alone, Held, Apart, Tidy, PostsFit
<1>5. AllRecent
  <2>1. \A l \in Layers : Recent(<<0, l>>)
    BY <1>1, Bounds DEF Recent
  <2>2. 1..nops = {}
    BY <1>1
  <2> QED
    BY <1>1, <1>2, <2>1, <2>2, IdleFields, ZenonT(60) DEF AllRecent
<1>6. BasesAreLow
  BY <1>1 DEF BasesAreLow
<1>7. Clean
  <2>1. InPlace
    BY <1>1, <1>2 DEF InPlace
  <2>2. Linear
    <3>1. \A l \in Layers : l > 1 => l - 1 \in Layers
      BY Bounds DEF Layers
    <3> QED
      BY <1>2, <3>1 DEF Linear
  <2> QED
    BY <2>1, <2>2 DEF Clean
<1>8. Pending /\ Settled /\ AbandonedHadNoEffect
  BY <1>3, <1>7 DEF Pending, Settled, AbandonedHadNoEffect
<1>9. \A p \in Procs : Fits(self[p])
  BY <1>1, IdleFields, IdleFits
<1> QED
  BY <1>4, <1>5, <1>6, <1>8, <1>9 DEF Serial

LEMMA NextSerial ==
    ASSUME TypeOK, JournalFirst, Minted, LockIsEnough, Serial, [Next]_vars
    PROVE  Serial'
<1>1. ASSUME NEW p \in Procs, Own(p) PROVE Serial'
  BY <1>1, OwnSteps, LocalSteps, CalculateStep, AppendStep, PushStep, WriteCheckpointStep
<1>2. ASSUME NEW p \in Procs, Stop(p) PROVE Serial'
  BY <1>2, StopStep
<1>3. ASSUME NEW p \in Procs, NEW c \in Cmds, Begin(p, c) PROVE Serial'
  BY <1>3, BeginStep
<1>4. ASSUME NEW e \in posts, Land(e) \/ Lose(e) PROVE Serial'
  BY <1>4, LandStep, LoseStep
<1>5. ASSUME NEW o \in pushes, Serve(o) \/ LosePush(o) PROVE Serial'
  BY <1>5, ServeStep, LosePushStep
<1>6. ASSUME NEW k \in 0..N, ForeignEdit(k) PROVE Serial'
  BY <1>6, ForeignEditStep
<1>7. CASE UNCHANGED vars
  <2>1. Alone' /\ Held' /\ Apart' /\ BasesAreLow' /\ AllRecent'
    BY <1>7 DEF vars, Serial, Alone, Held, Apart, BasesAreLow, AllRecent, Recent, Mine
  <2>2. Tidy' /\ PostsFit' /\ AbandonedHadNoEffect'
    BY <1>7 DEF vars, Serial, Tidy, PostsFit, AbandonedHadNoEffect, Unsettled, Prepared,
                Abandoned, Event
  <2>3. Pending' /\ Settled'
    BY <1>7, SameStack, SameJournal DEF vars, Serial, Pending, Settled
  <2>4. ASSUME NEW q \in Procs PROVE Fits(self[q])'
    <3>1. Planning(self[q]) /\ Pushing(self[q]) /\ Concluding(self[q])
      BY DEF Serial, Fits
    <3>2. self' = self /\ cp' = cp /\ ref' = ref /\ UNCHANGED <<pushes, applied, refused>>
      BY <1>7 DEF vars
    <3>3. Planning(self[q])'
      BY <1>7, <3>1, <3>2, SameJournal DEF vars, Planning, Foreign
    <3>4. Pushing(self[q])'
      BY <1>7, <3>1, SameStack, SameJournal DEF vars, Pushing
    <3>5. Concluding(self[q])'
      BY <1>7, <3>1, SameStack, SameJournal DEF vars, Concluding
    <3> QED
      BY <3>3, <3>4, <3>5 DEF Fits
  <2> QED
    BY <2>1, <2>2, <2>3, <2>4 DEF Serial
<1> QED
  BY <1>1, <1>2, <1>3, <1>4, <1>5, <1>6, <1>7 DEF Next

\* Under the lock alone, the invariant holds.
THEOREM SpecSerial == LockIsEnough => (Spec => []Serial)
<1> SUFFICES ASSUME LockIsEnough PROVE Spec => []Serial
  OBVIOUS
<1>1. Init => TypeOK /\ JournalFirst /\ Minted /\ Serial
  BY InitTypeOK, InitJournalFirst, InitMinted, InitSerial
<1>2. TypeOK /\ JournalFirst /\ Minted /\ Serial /\ [Next]_vars
        => (TypeOK /\ JournalFirst /\ Minted /\ Serial)'
  BY NextTypeOK, NextJournalFirst, NextMinted, NextSerial
<1> QED
  BY <1>1, <1>2, PTL DEF Spec

(***************************************************************************)
(* journal.py's fold never finds the journal unreadable and never finds    *)
(* two unresolved operations, whatever crashed and was retried, as long as *)
(* the operation lock of one machine serializes the commands: the "at most *)
(* one unresolved operation" that sync.py's routing starts from.           *)
(***************************************************************************)
THEOREM LockKeepsJournalSerial == LockIsEnough => (Spec => []SerialJournal)
<1> SUFFICES ASSUME LockIsEnough PROVE Spec => []SerialJournal
  OBVIOUS
<1>1. Spec => []TypeOK /\ []Serial
  BY TypeCorrect, SpecSerial
<1>2. TypeOK /\ Serial => SerialJournal
  BY TidySerial DEF Serial
<1> QED
  BY <1>1, <1>2, PTL

(***************************************************************************)
(* recover --abandon and the resume path of sync write "abandoned" only    *)
(* for operations whose push never took effect, although they decide from  *)
(* heads that were read one by one while others pushed out of band: an     *)
(* edit never brings a lease back, so a head seen at its lease rules the   *)
(* whole atomic push out.                                                  *)
(***************************************************************************)
THEOREM LockKeepsAbandonedUndone == LockIsEnough => (Spec => []AbandonedHadNoEffect)
<1> SUFFICES ASSUME LockIsEnough PROVE Spec => []AbandonedHadNoEffect
  OBVIOUS
<1>1. Spec => []Serial
  BY SpecSerial
<1>2. Serial => AbandonedHadNoEffect
  BY DEF Serial
<1> QED
  BY <1>1, <1>2, PTL

(***************************************************************************)
(* perk leaves no drift of its own: when nothing runs and every operation  *)
(* is concluded, the stored checkpoint pairs chain from layer to layer and *)
(* every published head is its checkpoint or was pushed out of band -      *)
(* through crashes between the push, each checkpoint and the outcome.      *)
(***************************************************************************)
THEOREM LockKeepsQuietStackLinear == LockIsEnough => (Spec => []QuietStackIsLinear)
<1> SUFFICES ASSUME LockIsEnough PROVE Spec => []QuietStackIsLinear
  OBVIOUS
<1>1. Spec => []Serial
  BY SpecSerial
<1>2. Serial => QuietStackIsLinear
  BY DEF Serial, Settled, Clean, InPlace, Linear, QuietStackIsLinear
<1> QED
  BY <1>1, <1>2, PTL
=============================================================================
