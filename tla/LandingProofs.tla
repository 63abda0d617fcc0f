---------------------------- MODULE LandingProofs ----------------------------
(***************************************************************************)
(* Proofs about the landing of a stack: what completed LAND operations     *)
(* record was merged as approved, what was abandoned never merges, and an  *)
(* objective is closed on whole evidence, for every number of layers,      *)
(* operations, out-of-band changes and faults.                             *)
(***************************************************************************)
EXTENDS Landing, WellFoundedInduction, TLAPS

-----------------------------------------------------------------------------
(* The journal and the layers it covers. *)

\* The command that prepares holds the lock and found nothing unresolved.
Sole == \A o, q \in Unresolved : o = q

Unminted == \A o \in Ops : o > nops => /\ op[o] = NoOp
                                       /\ job[o].st = "none" /\ merges[o] = {}

\* The layers S lie on top of covered ones.
OnTop(S) == \A k \in Layers \ S : k \in Covered /\ \A l \in S : k < l

\* An unresolved operation approved the published heads of the layers that
\* were left to land.
Stacked == \A o \in Unresolved : op[o].heads = cp /\ OnTop(op[o].layers)

Bottom == \A l \in Covered, k \in Layers : k < l => k \in Covered

Verified == \A o \in Ops : op[o].st = "completed" =>
               \A l \in op[o].landed : l \in op[o].layers /\ MergedAsApproved(o, l)

-----------------------------------------------------------------------------
(* The merge requests. *)

Merging == \A o \in Ops : \A l \in merges[o] : l \in op[o].layers /\ pr[l].st = "MERGED"

\* What is abandoned or aged is dead; a direct merge is never queued.
Dying == \A o \in Ops :
    /\ op[o].st = "abandoned" => merges[o] = {} /\ ~ Live(o)
    /\ op[o].aged => ~ Live(o)
    /\ Singleton(o) => job[o].st \notin {"pending", "enqueued"}

-----------------------------------------------------------------------------
(* Plans, nodes, the objective and its evidence. *)

\* A layer may be finalized: it is covered, or it was merged as an unresolved
\* operation approved it, whose completion could not be journaled.
Earned(l) == \/ l \in Covered
             \/ \E o \in Unresolved : l \in op[o].layers /\ MergedAsApproved(o, l)

Finished == \A l \in plan \cup node : Earned(l)

-----------------------------------------------------------------------------
(* The command. *)

Sending     == {"submit", "reply", "accept", "poll"}
Classifying == {"classify", "conclude", "reclassify", "reconclude"}
Disproving  == {"disprove", "abandon_op"}
Reads       == {"verify", "complete_op"} \cup Disproving \cup Classifying
Recovering  == {"fold", "probe", "reprobe"} \cup Classifying
Acting      == {"probe", "reprobe"} \cup Sending \cup Reads

\* The handle evidence that proves that a request is dead.
DeadHandles == {"failed", "expired", "none-async-aged", "none-singleton"}

\* The command acts on a prepared operation, or it found none unresolved.
Placed(s) == /\ s.pc \in Acting => s.op \in Ops /\ op[s.op].st = "prepared"
             /\ \/ s.pc \in {"reobserve", "prepare", "complete", "close", "report"}
                \/ s.pc = "finalize" /\ s.durable
                => Unresolved = {}
             /\ s.pc \in {"reobserve", "prepare"} => OnTop(Layers \ s.landed)

\* No recovery runs while a direct merge is in flight; a command that submits
\* has not outlived its request, and its first refusal is final.
Sends(s) == /\ s.pc \in Recovering =>
                 \A o \in Ops : Singleton(o) => job[o].st # "flying"
            /\ s.pc \in Sending => ~ op[s.op].aged
            /\ s.pc = "submit" /\ s.try = 1 => job[s.op].st = "none"
            /\ s.pc = "reply" /\ s.try = 1 /\ job[s.op].reply = "refused" => ~ Live(s.op)

Disproves(s) == s.pc \in Disproving \/ (s.pc \in Classifying /\ s.handle \in DeadHandles)

\* What the command has read still proves what it is used for.
Tells(s) == /\ s.pc \in Reads => \A l \in Layers :
                 /\ s.seen[l].st = "MERGED" => pr[l] = s.seen[l]
                 /\ s.seen[l].st = "OPEN" => l \notin plan \cup node
            /\ Disproves(s) =>
                 /\ ~ Live(s.op)
                 /\ \A l \in Layers : s.seen[l].st = "OPEN" => l \notin merges[s.op]

\* What the command finalizes and reports.
Finishes(s) == /\ s.pc = "finalize" => \A l \in s.todo : Earned(l)
               /\ s.pc = "report" => Covered = Layers

\* The inductive invariant.
Journaled == Sole /\ Unminted /\ Stacked /\ Bottom /\ Verified
Works(s)  == Placed(s) /\ Sends(s) /\ Tells(s) /\ Finishes(s)
Working   == Works(me)
Sound     == /\ Journaled /\ Merging /\ Dying
             /\ Finished /\ ClosedWithEvidence
             /\ Working

-----------------------------------------------------------------------------
(* Types. *)

MeSet == [pc : Pcs, cmd : Commands \cup {"none"}, op : 0..MaxOps, try : {1, 2},
          handle : Handles, todo : SUBSET Layers, seen : [Layers -> PrType],
          landed : SUBSET Layers, prefix : SUBSET Layers, durable : BOOLEAN,
          concluded : SUBSET Layers, converging : BOOLEAN, reported : BOOLEAN]
PrSet  == [st : PrStates, head : Heads, base : {"main", "below", "odd"}]
OpSet  == [st : {"none", "prepared", "completed", "abandoned"},
           layers : SUBSET Layers, heads : [Layers -> Heads],
           accepted : BOOLEAN, aged : BOOLEAN, landed : SUBSET Layers]
JobSet == [st : JobStates, reply : {"none", "pending", "merged", "refused"}]

MeOK    == me \in MeSet
RemoteOK == /\ pr \in [Layers -> PrSet] /\ cp \in [Layers -> Heads]
            /\ job \in [Ops -> JobSet] /\ merges \in [Ops -> SUBSET Layers]
LogOK    == op \in [Ops -> OpSet] /\ nops \in 0..MaxOps
FinalOK  == /\ plan \subseteq Layers /\ node \subseteq Layers
            /\ objective \in {"open", "closed"} /\ evidence \subseteq SUBSET Layers
EnvOK    == edits \in 0..MaxEdits /\ faults \in 0..MaxFaults

LEMMA TypeParts == TypeOK <=> MeOK /\ RemoteOK /\ LogOK /\ FinalOK /\ EnvOK
  BY DEF TypeOK, MeOK, RemoteOK, LogOK, FinalOK, EnvOK, MeSet, PrSet, OpSet, JobSet

LEMMA Numbers ==
    /\ N \in Nat /\ N >= 1 /\ MaxOps \in Nat /\ MaxEdits \in Nat /\ MaxFaults \in Nat
    /\ 0 \in Heads
  BY Bounds DEF Heads

\* A non-empty set of layers has a lowest one.
LEMMA LowestExists ==
    ASSUME NEW S, S \subseteq Layers, S # {}
    PROVE  Lowest(S) \in S /\ \A k \in S : Lowest(S) <= k
<1> DEFINE R == OpToRel(<, Nat)
<1>1. IsWellFoundedOn(R, Nat)
  BY NatLessThanWellFounded
<1>2. \A x, y \in Nat : <<x, y>> \in R <=> x < y
  BY DEF OpToRel
<1>3. S \subseteq Nat
  BY Numbers DEF Layers
<1> HIDE DEF R
<1>4. PICK l \in S : \A k \in S : ~ (<<k, l>> \in R)
  BY <1>1, <1>3, WFMin, Zenon
<1>5. ASSUME NEW k \in S PROVE l <= k
  <2>1. l \in Nat /\ k \in Nat /\ ~ (<<k, l>> \in R)
    BY <1>3, <1>4
  <2>2. ~ (k < l)
    BY <1>2, <2>1
  <2> QED
    BY <2>1, <2>2
<1> QED
  BY <1>5 DEF Lowest

LEMMA IdleType == Idle \in MeSet
<1>1. Unread \in PrType
  BY Numbers DEF Unread, Pr, PrType
<1>2. [l \in Layers |-> Unread] \in [Layers -> PrType]
  BY <1>1
<1> QED
  BY <1>2, Numbers DEF Idle, MeSet, Pcs, Handles, JobStates

LEMMA InitTypeOK == Init => TypeOK
<1> SUFFICES ASSUME Init PROVE TypeOK
  OBVIOUS
<1>1. MeOK
  BY IdleType DEF Init, MeOK
<1>2. RemoteOK
  BY Numbers DEF Init, RemoteOK, PrSet, Pr, PrStates, JobSet, JobStates
<1>3. LogOK
  BY Numbers DEF Init, LogOK, OpSet, NoOp
<1>4. FinalOK /\ EnvOK
  BY Numbers DEF Init, FinalOK, EnvOK
<1> QED
  BY <1>1, <1>2, <1>3, <1>4, TypeParts

\* The ways in which the command moves on.
LEMMA MovesTyped ==
    ASSUME MeOK
    PROVE  /\ Quit => MeOK'
           /\ \A pc \in Pcs : /\ Goto(pc) => MeOK'
                              /\ Turn(pc) \in MeSet
                              /\ \A S \in SUBSET Layers : Observe(pc, S) => MeOK'
<1>1. me \in MeSet /\ Idle \in MeSet
  BY IdleType DEF MeOK
<1>2. [l \in Layers |-> Unread] \in [Layers -> PrType]
  BY Numbers DEF Unread, Pr, PrType
<1>3. Quit => MeOK'
  BY <1>1 DEF MeOK, Quit
<1>4. ASSUME NEW pc \in Pcs PROVE Goto(pc) => MeOK'
  BY <1>1 DEF MeOK, Goto, MeSet
<1>5. ASSUME NEW pc \in Pcs PROVE Turn(pc) \in MeSet
  <2>1. me.cmd \in Commands \cup {"none"}
    BY <1>1 DEF MeSet
  <2> QED
    BY <1>1, <2>1 DEF Turn, MeSet
<1>6. ASSUME NEW pc \in Pcs, NEW S \in SUBSET Layers, Observe(pc, S) PROVE MeOK'
  <2> DEFINE unread == [l \in Layers |-> Unread]
  <2>1. me' = [me EXCEPT !.pc = pc, !.todo = S, !.seen = unread]
    BY <1>6 DEF Observe
  <2> HIDE DEF unread
  <2> QED
    BY <1>1, <1>2, <2>1 DEF MeOK, MeSet, unread
<1> QED
  BY <1>3, <1>4, <1>5, <1>6

LEMMA ChangeTyped ==
    ASSUME MeOK, NEW pc \in Pcs, NEW S \in SUBSET Layers, NEW o \in Ops
    PROVE  /\ [me EXCEPT !.todo = S, !.pc = pc] \in MeSet
           /\ [Turn(pc) EXCEPT !.todo = S] \in MeSet
           /\ [Turn(pc) EXCEPT !.todo = S, !.durable = FALSE] \in MeSet
           /\ [me EXCEPT !.pc = pc, !.op = o] \in MeSet
<1>1. me \in MeSet /\ Turn(pc) \in MeSet
  BY MovesTyped DEF MeOK
<1>2. o \in 0..MaxOps
  BY Numbers DEF Ops
<1>3. [me EXCEPT !.todo = S, !.pc = pc] \in MeSet /\ [me EXCEPT !.pc = pc, !.op = o] \in MeSet
  BY <1>1, <1>2 DEF MeSet
<1> HIDE DEF Turn
<1>4. /\ [Turn(pc) EXCEPT !.todo = S] \in MeSet
      /\ [Turn(pc) EXCEPT !.todo = S, !.durable = FALSE] \in MeSet
  BY <1>1 DEF MeSet
<1> QED
  BY <1>3, <1>4

\* A step of the command alone.
LEMMA OwnStepTyped ==
    ASSUME TypeOK, MeOK', faults' \in 0..MaxFaults,
           UNCHANGED <<pr, cp, journal, job, merges, backend, edits>>
    PROVE  TypeOK'
  BY DEF TypeOK, MeOK, MeSet, journal, backend

LEMMA FaultTyped ==
    ASSUME TypeOK, Fault \/ faults' = faults \/ UNCHANGED env
    PROVE  faults' \in 0..MaxFaults
  BY Numbers DEF TypeOK, Fault, env

\* Reading and deciding.
LEMMA DecidingTyped ==
    ASSUME TypeOK, Sound,
           \/ Assess \/ Poll \/ Finalized \/ Fold \/ Probe \/ Reply \/ Converge \/ Crash
           \/ (\E c \in Commands : Begin(c)) \/ \E l \in Layers : Reobserve(l) \/ Read(l)
    PROVE  TypeOK'
<1>0. /\ me \in MeSet /\ MeOK /\ MaxFaults \in Nat /\ faults \in 0..MaxFaults
      /\ me.op \in 0..MaxOps
      /\ me.pc \in Acting => me.op \in Ops
      /\ \A o \in Ops : op[o].layers \subseteq Layers /\ job[o].st \in JobStates
  BY TypeParts, Numbers DEF MeOK, MeSet, Sound, Working, Works, Placed, EnvOK, LogOK, RemoteOK, OpSet,
                            JobSet
<1>1. ASSUME Assess PROVE TypeOK'
  <2>1. CASE Quit
    BY <1>0, <1>1, <2>1, MovesTyped, FaultTyped, OwnStepTyped DEF Assess, env
  <2>2. CASE Goto("complete")
    BY <1>0, <1>1, <2>2, MovesTyped, FaultTyped, OwnStepTyped DEF Assess, env, Pcs
  <2>3. CASE Step([me EXCEPT !.pc = "reobserve", !.todo = Layers \ Landed, !.landed = Landed])
    <3>1. Landed \subseteq Layers
      BY DEF Landed, Covered
    <3> HIDE DEF Landed
    <3>2. MeOK'
      BY <1>0, <2>3, <3>1 DEF Step, MeOK, MeSet, Pcs
    <3> QED
      BY <1>0, <1>1, <3>2, FaultTyped, OwnStepTyped DEF Assess, env
  <2> QED
    BY <1>1, <2>1, <2>2, <2>3 DEF Assess
<1>2. ASSUME Poll PROVE TypeOK'
  <2>1. op[me.op].layers \in SUBSET Layers
    BY <1>0, <1>2 DEF Poll, Acting, Sending
  <2>2. MeOK'
    BY <1>0, <1>2, <2>1, MovesTyped DEF Poll, Pcs
  <2> QED
    BY <1>0, <1>2, <2>2, FaultTyped, OwnStepTyped DEF Poll, env
<1>3. ASSUME Finalized PROVE TypeOK'
  <2>1. MeOK'
    BY <1>0, <1>3, MovesTyped DEF Finalized, Onward, Pcs
  <2> QED
    BY <1>0, <1>3, <2>1, FaultTyped, OwnStepTyped DEF Finalized, env
<1>4. ASSUME Fold PROVE TypeOK'
  <2>1. ASSUME NEW o \in Unresolved,
               Step([me EXCEPT !.pc = "probe", !.op = o, !.landed = Landed])
        PROVE  MeOK'
    <3>1. Landed \subseteq Layers /\ o \in 0..MaxOps
      BY Numbers DEF Landed, Covered, Unresolved, Ops
    <3> HIDE DEF Landed
    <3> QED
      BY <1>0, <2>1, <3>1, ZenonT(60) DEF Step, MeOK, MeSet, Pcs
  <2>2. MeOK'
    BY <1>0, <1>4, <2>1, MovesTyped DEF Fold, Pcs
  <2> QED
    BY <1>0, <1>4, <2>2, FaultTyped, OwnStepTyped DEF Fold, env
<1>5. ASSUME Probe PROVE TypeOK'
  <2>1. PICK h \in {Handle(me.op)} \cup {"unreadable"} :
          /\ faults' = faults \/ (faults < MaxFaults /\ faults' = faults + 1)
          /\ Step([me EXCEPT !.pc = IF me.pc = "probe" THEN "classify" ELSE "reclassify",
                             !.handle = h, !.todo = op[me.op].layers,
                             !.seen = [l \in Layers |-> Unread]])
    <3>1. PICK h \in {Handle(me.op)} \cup (IF op[me.op].accepted /\ faults < MaxFaults
                                           THEN {"unreadable"} ELSE {}) :
              /\ faults' = IF h = "unreadable" THEN faults + 1 ELSE faults
              /\ Step([me EXCEPT !.pc = IF me.pc = "probe" THEN "classify" ELSE "reclassify",
                                 !.handle = h, !.todo = op[me.op].layers,
                                 !.seen = [l \in Layers |-> Unread]])
      BY <1>5 DEF Probe
    <3>2. Handle(me.op) # "unreadable"
      BY <1>0, <1>5, ZenonT(60) DEF Probe, Acting, Handle, JobStates
    <3>3. faults' = faults \/ (faults < MaxFaults /\ faults' = faults + 1)
      BY <3>1, <3>2
    <3> QED
      BY <3>1, <3>3
  <2>2. h \in Handles
    BY <1>0, <1>5, ZenonT(60) DEF Probe, Acting, Handle, Handles, JobStates
  <2>3. op[me.op].layers \in SUBSET Layers
    BY <1>0, <1>5 DEF Probe, Acting
  <2>4. MeOK'
    <3> DEFINE unread == [l \in Layers |-> Unread]
               next   == IF me.pc = "probe" THEN "classify" ELSE "reclassify"
               S      == op[me.op].layers
    <3>1. unread \in [Layers -> PrType] /\ next \in Pcs
      BY Numbers DEF Unread, Pr, PrType, Pcs
    <3>2. me' = [me EXCEPT !.pc = next, !.handle = h, !.todo = S, !.seen = unread]
      BY <2>1 DEF Step
    <3>3. S \in SUBSET Layers
      BY <2>3
    <3> HIDE DEF unread, next, S
    <3> QED
      BY <1>0, <2>2, <3>1, <3>2, <3>3 DEF MeOK, MeSet
  <2>5. faults' \in 0..MaxFaults
    BY <1>0, <2>1
  <2> QED
    BY <1>5, <2>4, <2>5, OwnStepTyped DEF Probe
<1>6. ASSUME Reply PROVE TypeOK'
  <2>1. op[me.op].layers \in SUBSET Layers
    BY <1>0, <1>6 DEF Reply, Acting, Sending
  <2>2. CASE Step([me EXCEPT !.pc = "submit", !.try = 2])
    <3>1. MeOK'
      BY <1>0, <2>2, ZenonT(60) DEF Step, MeOK, MeSet, Pcs
    <3> QED
      BY <1>0, <1>6, <3>1, FaultTyped, OwnStepTyped DEF Reply
  <2>3. CASE \/ Goto("accept") \/ Observe("verify", op[me.op].layers)
             \/ Observe("disprove", op[me.op].layers) \/ Quit
    <3>1. MeOK'
      BY <1>0, <2>1, <2>3, MovesTyped DEF Pcs
    <3> QED
      BY <1>0, <1>6, <3>1, FaultTyped, OwnStepTyped DEF Reply
  <2> QED
    BY <1>6, <2>2, <2>3 DEF Reply
<1>7. ASSUME Converge PROVE TypeOK'
  <2> DEFINE S == {l \in Covered : Corroborated(l)} \ me.concluded
             d == Unresolved = {}
  <2>1. S \subseteq Layers /\ d \in BOOLEAN
    BY DEF Covered
  <2>2. me' = [me EXCEPT !.pc = "finalize", !.durable = d, !.converging = TRUE, !.todo = S]
    BY <1>7 DEF Converge, Step
  <2>3. MeOK'
    <3> HIDE DEF S, d
    <3> QED
      BY <1>0, <2>1, <2>2, ZenonT(60) DEF MeOK, MeSet, Pcs
  <2> QED
    BY <1>0, <1>7, <2>3, FaultTyped, OwnStepTyped DEF Converge, env
<1>8. ASSUME Crash PROVE TypeOK'
  BY <1>0, <1>8, MovesTyped, FaultTyped, OwnStepTyped DEF Crash
<1>9. ASSUME NEW c \in Commands, Begin(c) PROVE TypeOK'
  <2>1. MeOK'
    BY <1>0, <1>9, IdleType, ZenonT(60) DEF Begin, Step, MeOK, MeSet, Pcs
  <2> QED
    BY <1>0, <1>9, <2>1, FaultTyped, OwnStepTyped DEF Begin, env
<1>10. ASSUME NEW l \in Layers, Reobserve(l) PROVE TypeOK'
  <2>1. me.todo \ {l} \in SUBSET Layers
    BY <1>0 DEF MeSet
  <2>2. CASE Quit
    BY <1>0, <1>10, <2>2, MovesTyped, FaultTyped, OwnStepTyped DEF Reobserve, env
  <2>3. CASE Step([me EXCEPT !.todo = me.todo \ {l},
                             !.pc = IF me.todo \ {l} = {} THEN "prepare" ELSE "reobserve"])
    <3>1. MeOK'
      BY <1>0, <2>1, <2>3, ZenonT(60) DEF Step, MeOK, MeSet, Pcs
    <3> QED
      BY <1>0, <1>10, <3>1, FaultTyped, OwnStepTyped DEF Reobserve, env
  <2> QED
    BY <1>10, <2>2, <2>3 DEF Reobserve
<1>11. ASSUME NEW l \in Layers, Read(l) PROVE TypeOK'
  <2>1. PICK p \in {pr[l]} \cup {Pr("error", 0, "main")}, next \in Pcs :
          /\ faults' = faults \/ (faults < MaxFaults /\ faults' = faults + 1)
          /\ me' = [me EXCEPT !.todo = me.todo \ {l}, !.seen[l] = p, !.pc = next]
    <3>1. PICK p \in {pr[l]} \cup (IF faults < MaxFaults THEN {Pr("error", 0, "main")} ELSE {}) :
             /\ faults' = IF p.st = "error" THEN faults + 1 ELSE faults
             /\ Step([me EXCEPT !.todo = me.todo \ {l}, !.seen[l] = p,
                                !.pc = IF me.todo \ {l} = {}
                                       THEN CASE me.pc = "verify" -> "complete_op"
                                              [] me.pc = "disprove" -> "abandon_op"
                                              [] me.pc = "classify" -> "conclude"
                                              [] OTHER -> "reconclude"
                                       ELSE me.pc])
      BY <1>11 DEF Read
    <3>2. faults' = faults \/ (faults < MaxFaults /\ faults' = faults + 1)
      BY <3>1, TypeParts DEF RemoteOK, PrSet, PrStates
    <3>3. (IF me.todo \ {l} = {}
           THEN CASE me.pc = "verify" -> "complete_op" [] me.pc = "disprove" -> "abandon_op"
                  [] me.pc = "classify" -> "conclude" [] OTHER -> "reconclude"
           ELSE me.pc) \in Pcs
      BY <1>0 DEF MeSet, Pcs
    <3> QED
      BY <3>1, <3>2, <3>3, ZenonT(60) DEF Step
  <2>2. p \in PrType
    BY TypeParts, Numbers DEF RemoteOK, PrSet, PrType, Pr
  <2>3. MeOK'
    <3>1. me.todo \ {l} \in SUBSET Layers /\ [me.seen EXCEPT ![l] = p] \in [Layers -> PrType]
      BY <1>0, <2>2 DEF MeSet
    <3> QED
      BY <1>0, <2>1, <3>1 DEF MeOK, MeSet
  <2>4. faults' \in 0..MaxFaults
    BY <1>0, <2>1
  <2> QED
    BY <1>11, <2>3, <2>4, OwnStepTyped DEF Read
<1> QED
  BY <1>1, <1>2, <1>3, <1>4, <1>5, <1>6, <1>7, <1>8, <1>9, <1>10, <1>11

\* The records that the command writes.
OpStep(o, new) == /\ op' \in [Ops -> OpSet]
                  /\ op'[o] = new
                  /\ \A q \in Ops \ {o} : op'[q] = op[q]

LEMMA OpWrites ==
    ASSUME NEW x \in OpSet, NEW S \in SUBSET Layers
    PROVE  /\ [x EXCEPT !.accepted = TRUE] \in OpSet
           /\ [x EXCEPT !.st = "abandoned"] \in OpSet
           /\ [x EXCEPT !.st = "completed", !.landed = S] \in OpSet
           /\ [x EXCEPT !.aged = TRUE] \in OpSet
  BY DEF OpSet

\* What the acceptance leaves alone.
LEMMA OpKeeps ==
    ASSUME NEW x \in OpSet, NEW y, y = [x EXCEPT !.accepted = TRUE]
    PROVE  /\ y.st = x.st /\ y.layers = x.layers /\ y.heads = x.heads
           /\ y.landed = x.landed /\ y.aged = x.aged
  BY DEF OpSet

LEMMA OpStepped ==
    ASSUME op \in [Ops -> OpSet], NEW o \in Ops, NEW new \in OpSet,
           op' = [op EXCEPT ![o] = new]
    PROVE  OpStep(o, new)
  BY DEF OpStep

LEMMA OpWritten ==
    ASSUME op \in [Ops -> OpSet], NEW o \in Ops, NEW S \in SUBSET Layers
    PROVE  /\ op' = [op EXCEPT ![o].accepted = TRUE]
                => OpStep(o, [op[o] EXCEPT !.accepted = TRUE])
           /\ op' = [op EXCEPT ![o].st = "abandoned"]
                => OpStep(o, [op[o] EXCEPT !.st = "abandoned"])
           /\ op' = [op EXCEPT ![o].st = "completed", ![o].landed = S]
                => OpStep(o, [op[o] EXCEPT !.st = "completed", !.landed = S])
<1>0. op[o] \in OpSet
  OBVIOUS
<1>1. ASSUME op' = [op EXCEPT ![o].accepted = TRUE]
      PROVE  OpStep(o, [op[o] EXCEPT !.accepted = TRUE])
  <2>1. op' = [op EXCEPT ![o] = [op[o] EXCEPT !.accepted = TRUE]]
    BY <1>1, Zenon
  <2> QED
    BY <1>0, <2>1, OpWrites, OpStepped, Zenon
<1>2. ASSUME op' = [op EXCEPT ![o].st = "abandoned"]
      PROVE  OpStep(o, [op[o] EXCEPT !.st = "abandoned"])
  <2>1. op' = [op EXCEPT ![o] = [op[o] EXCEPT !.st = "abandoned"]]
    BY <1>2, Zenon
  <2> QED
    BY <1>0, <2>1, OpWrites, OpStepped, Zenon
<1>3. ASSUME op' = [op EXCEPT ![o].st = "completed", ![o].landed = S]
      PROVE  OpStep(o, [op[o] EXCEPT !.st = "completed", !.landed = S])
  <2>1. op' = [op EXCEPT ![o] = [op[o] EXCEPT !.st = "completed", !.landed = S]]
    BY <1>3, Zenon
  <2> QED
    BY <1>0, <2>1, OpWrites, OpStepped, Zenon
<1> QED
  BY <1>1, <1>2, <1>3

\* Writing: the journal, the plans and nodes, the objective.
LEMMA JournalTyped ==
    ASSUME TypeOK, me.op \in Ops, NEW S \in SUBSET Layers, Journal(S),
           UNCHANGED <<pr, cp, nops, job, merges, backend, edits>>
    PROVE  TypeOK'
<1>0. MeOK /\ faults \in 0..MaxFaults
  BY TypeParts DEF EnvOK
<1>1. MeOK'
  <2>1. "finalize" \in Pcs
    BY DEF Pcs
  <2>2. /\ [Turn("finalize") EXCEPT !.todo = S] \in MeSet
        /\ [Turn("finalize") EXCEPT !.todo = S, !.durable = FALSE] \in MeSet
    BY <1>0, <2>1, ChangeTyped, ZenonT(60)
  <2> QED
    BY <2>2 DEF Journal, Step, MeOK
<1>2. op' \in [Ops -> OpSet]
  <2>1. op \in [Ops -> OpSet]
    BY TypeParts DEF LogOK
  <2>2. CASE op' = [op EXCEPT ![me.op].st = "completed", ![me.op].landed = S]
    BY <2>1, <2>2, OpWritten DEF OpStep
  <2> QED
    BY <2>1, <2>2 DEF Journal
<1>3. faults' \in 0..MaxFaults
  BY <1>0, FaultTyped DEF Journal
<1> QED
  BY <1>1, <1>2, <1>3 DEF TypeOK, MeOK, MeSet, OpSet, backend

LEMMA WritingTyped ==
    ASSUME TypeOK, Sound,
           \/ Complete \/ Prepare \/ Submit \/ Accept \/ AbandonOp \/ CompleteOp
           \/ Close \/ Report \/ Conclude \/ Reconclude \/ \E l \in Layers : Finalize(l)
    PROVE  TypeOK'
<1>0. /\ me \in MeSet /\ MeOK /\ MaxFaults \in Nat /\ faults \in 0..MaxFaults
      /\ me.pc \in Acting => me.op \in Ops
      /\ \A o \in Ops : op[o].layers \subseteq Layers
      /\ \A o \in Ops : MergedRun(o) \subseteq Layers
      /\ op \in [Ops -> OpSet] /\ job \in [Ops -> JobSet]
  BY TypeParts, Numbers DEF MeOK, Sound, Working, Works, Placed, EnvOK, LogOK, RemoteOK,
                            OpSet, MergedRun
<1>1. ASSUME Complete PROVE TypeOK'
  <2>1. MeOK'
    BY <1>0, <1>1, MovesTyped DEF Complete, Pcs
  <2> QED
    BY <1>1, <2>1 DEF Complete, TypeOK, MeOK, MeSet, journal, env
<1>2. ASSUME Prepare PROVE TypeOK'
  <2> DEFINE o == nops + 1
             new == [NoOp EXCEPT !.st = "prepared", !.layers = Layers \ me.landed, !.heads = cp]
  <2>1. o \in Ops /\ op' = [op EXCEPT ![o] = new] /\ nops' = o
        /\ me' = [me EXCEPT !.pc = "submit", !.op = o]
    BY <1>2 DEF Prepare, Step
  <2>2. new \in OpSet
    BY TypeParts, Numbers DEF RemoteOK, NoOp, OpSet
  <2>3. MeOK'
    BY <1>0, <2>1, ChangeTyped DEF MeOK, Pcs
  <2>4. op' \in [Ops -> OpSet] /\ nops' \in 0..MaxOps
    <3> HIDE DEF new, o
    <3> QED
      BY <1>0, <2>1, <2>2, Numbers DEF Ops
  <2> HIDE DEF new
  <2> QED
    BY <1>2, <2>3, <2>4 DEF Prepare, TypeOK, MeOK, MeSet, OpSet, backend, env
<1>3. ASSUME Submit PROVE TypeOK'
  <2>1. MeOK'
    BY <1>0, <1>3, MovesTyped DEF Submit, Pcs
  <2>2. job' \in [Ops -> JobSet]
    <3>1. [st |-> "flying", reply |-> "none"] \in JobSet
      BY DEF JobSet, JobStates
    <3>2. \A r \in {"pending", "merged", "refused"} : [job EXCEPT ![me.op].reply = r] \in [Ops -> JobSet]
      BY <1>0 DEF JobSet
    <3> QED
      BY <1>0, <1>3, <3>1, <3>2 DEF Submit
  <2> QED
    BY <1>3, <2>1, <2>2 DEF Submit, TypeOK, MeOK, MeSet, JobSet, journal, backend, env
<1>4. ASSUME Accept PROVE TypeOK'
  <2>1. MeOK'
    BY <1>0, <1>4, MovesTyped DEF Accept, Pcs
  <2>2. op' \in [Ops -> OpSet]
    <3>1. me.op \in Ops
      BY <1>0, <1>4 DEF Accept, Acting, Sending
    <3>2. CASE op' = [op EXCEPT ![me.op].accepted = TRUE]
      BY <1>0, <3>1, <3>2, OpWritten DEF OpStep
    <3> QED
      BY <1>0, <1>4, <3>2 DEF Accept
  <2> QED
    BY <1>4, <2>1, <2>2 DEF Accept, TypeOK, MeOK, MeSet, OpSet, backend, env
<1>5. ASSUME AbandonOp PROVE TypeOK'
  <2>1. MeOK'
    BY <1>0, <1>5, MovesTyped DEF AbandonOp
  <2>2. op' \in [Ops -> OpSet]
    <3>1. me.op \in Ops
      BY <1>0, <1>5 DEF AbandonOp, Acting, Reads, Disproving
    <3>2. CASE op' = [op EXCEPT ![me.op].st = "abandoned"]
      BY <1>0, <3>1, <3>2, OpWritten DEF OpStep
    <3> QED
      BY <1>0, <1>5, <3>2 DEF AbandonOp
  <2> QED
    BY <1>5, <2>1, <2>2 DEF AbandonOp, TypeOK, MeOK, MeSet, OpSet, backend, env
<1>6. ASSUME CompleteOp PROVE TypeOK'
  <2>1. me.op \in Ops /\ op[me.op].layers \in SUBSET Layers
    BY <1>0, <1>6 DEF CompleteOp, Acting, Reads
  <2>2. CASE Journal(op[me.op].layers)
    BY <1>6, <2>1, <2>2, JournalTyped DEF CompleteOp
  <2>3. CASE Quit /\ UNCHANGED <<op, faults>>
    BY <1>0, <1>6, <2>3, MovesTyped DEF CompleteOp, TypeOK, MeOK, MeSet, backend
  <2> QED
    BY <1>6, <2>2, <2>3 DEF CompleteOp
<1>7. ASSUME Close PROVE TypeOK'
  <2>1. MeOK'
    BY <1>0, <1>7, MovesTyped DEF Close, Onward, Pcs
  <2>2. faults' \in 0..MaxFaults /\ objective' \in {"open", "closed"}
    BY <1>0, <1>7, FaultTyped, TypeParts DEF Close, FinalOK
  <2> QED
    BY <1>7, <2>1, <2>2 DEF Close, TypeOK, MeOK, MeSet, journal
<1>8. ASSUME Report PROVE TypeOK'
  <2>1. MeOK'
    <3>1. [me EXCEPT !.pc = "converge", !.reported = TRUE] \in MeSet
      BY <1>0 DEF MeSet, Pcs
    <3> QED
      BY <1>0, <1>8, <3>1, MovesTyped DEF Report, Step, MeOK
  <2>2. evidence' \subseteq SUBSET Layers
    BY <1>8, TypeParts DEF Report, FinalOK, Covered
  <2> QED
    BY <1>8, <2>1, <2>2 DEF Report, TypeOK, MeOK, MeSet, journal, env
<1>9. ASSUME Conclude PROVE TypeOK'
  <2>1. me.op \in Ops /\ op[me.op].layers \in SUBSET Layers
    BY <1>0, <1>9 DEF Conclude, Acting, Reads, Classifying
  <2>2. CASE Journal(op[me.op].layers)
    BY <1>9, <2>1, <2>2, JournalTyped DEF Conclude
  <2>3. CASE op' = op /\ (Quit \/ Step(Turn("converge")))
    <3>1. MeOK'
      BY <1>0, <2>3, MovesTyped DEF Step, MeOK, Pcs
    <3>2. faults' \in 0..MaxFaults
      BY <1>0, <1>9, FaultTyped DEF Conclude, Journal
    <3> QED
      BY <1>9, <2>3, <3>1, <3>2 DEF Conclude, TypeOK, MeOK, MeSet, backend
  <2>4. CASE op' = op /\ Step([me EXCEPT !.pc = "reprobe", !.prefix = MergedRun(me.op)])
    <3>1. MeOK'
      <4>1. MergedRun(me.op) \in SUBSET Layers
        BY <1>0, <2>1
      <4> HIDE DEF MergedRun
      <4> QED
        BY <1>0, <2>4, <4>1 DEF Step, MeOK, MeSet, Pcs
    <3>2. faults' \in 0..MaxFaults
      BY <1>0, <1>9, FaultTyped DEF Conclude, Journal
    <3> QED
      BY <1>9, <2>4, <3>1, <3>2 DEF Conclude, TypeOK, MeOK, MeSet, backend
  <2> QED
    BY <1>9, <2>2, <2>3, <2>4 DEF Conclude
<1>10. ASSUME Reconclude PROVE TypeOK'
  <2>1. me.op \in Ops /\ me.prefix \in SUBSET Layers
    BY <1>0, <1>10 DEF Reconclude, Acting, Reads, Classifying, MeSet
  <2>2. MeOK'
    <3>1. "finalize" \in Pcs /\ "converge" \in Pcs
      <4>1. "finalize" \in Pcs
        BY DEF Pcs
      <4>2. "converge" \in Pcs
        BY DEF Pcs
      <4> QED
        BY <4>1, <4>2
    <3>2. /\ [Turn("finalize") EXCEPT !.todo = me.prefix] \in MeSet
          /\ Turn("converge") \in MeSet
      BY <1>0, <2>1, <3>1, MovesTyped, ChangeTyped, ZenonT(60)
    <3> QED
      BY <1>0, <1>10, <3>2, MovesTyped DEF Reconclude, Step, MeOK
  <2>3. op' \in [Ops -> OpSet]
    <3>1. CASE op' = [op EXCEPT ![me.op].st = "completed", ![me.op].landed = me.prefix]
      BY <1>0, <2>1, <3>1, OpWritten DEF OpStep
    <3>2. CASE op' = [op EXCEPT ![me.op].st = "abandoned"]
      BY <1>0, <2>1, <3>2, OpWritten DEF OpStep
    <3> QED
      BY <1>0, <1>10, <3>1, <3>2 DEF Reconclude
  <2> QED
    BY <1>10, <2>2, <2>3 DEF Reconclude, TypeOK, MeOK, MeSet, OpSet, backend, env
<1>11. ASSUME NEW l \in Layers, Finalize(l) PROVE TypeOK'
  <2>1. MeOK'
    BY <1>0, <1>11, ZenonT(60) DEF Finalize, Step, MeOK, MeSet
  <2>2. plan' \subseteq Layers /\ node' \subseteq Layers
    BY <1>11, TypeParts DEF Finalize, FinalOK
  <2>3. faults' \in 0..MaxFaults
    BY <1>0, <1>11, FaultTyped DEF Finalize
  <2> QED
    BY <1>11, <2>1, <2>2, <2>3 DEF Finalize, TypeOK, MeOK, MeSet, journal
<1> QED
  BY <1>1, <1>2, <1>3, <1>4, <1>5, <1>6, <1>7, <1>8, <1>9, <1>10, <1>11

\* GitHub, its users and the clock.
LEMMA OutsideTyped ==
    ASSUME TypeOK,
           \/ \E o \in Ops : Process(o) \/ JobMerge(o) \/ JobEnd(o)
           \/ Elapse \/ Restack
           \/ \E l \in Layers : Retarget(l) \/ Meddle(l)
    PROVE  TypeOK'
<1>0. /\ pr \in [Layers -> PrSet] /\ cp \in [Layers -> Heads] /\ job \in [Ops -> JobSet]
      /\ merges \in [Ops -> SUBSET Layers] /\ op \in [Ops -> OpSet]
      /\ edits \in 0..MaxEdits /\ MaxEdits \in Nat
  BY TypeParts, Numbers DEF RemoteOK, LogOK, EnvOK
<1>1. ASSUME NEW o \in Ops, NEW S \in SUBSET Layers, Merge(o, S)
      PROVE  pr' \in [Layers -> PrSet] /\ merges' \in [Ops -> SUBSET Layers]
  <2>1. \A l \in Layers : [pr[l] EXCEPT !.st = "MERGED"] \in PrSet
    BY <1>0 DEF PrSet, PrStates
  <2> QED
    BY <1>0, <1>1, <2>1 DEF Merge
<1>2. ASSUME NEW o \in Ops, NEW st \in JobStates, NEW r \in {"none", "pending", "merged", "refused"},
             SetJob(o, st, r)
      PROVE  job' \in [Ops -> JobSet]
  BY <1>0, <1>2 DEF SetJob, JobSet
<1>3. ASSUME NEW o \in Ops, Process(o) PROVE TypeOK'
  <2>1. job' \in [Ops -> JobSet]
    BY <1>2, <1>3 DEF Process, JobStates
  <2>2. op[o].layers \in SUBSET Layers
    BY <1>0 DEF OpSet
  <2>3. pr' \in [Layers -> PrSet] /\ merges' \in [Ops -> SUBSET Layers]
    BY <1>0, <1>1, <1>3, <2>2 DEF Process
  <2> QED
    BY <1>3, <2>1, <2>3 DEF Process, TypeOK, JobSet, PrSet, journal, backend, env
<1>4. ASSUME NEW o \in Ops, JobMerge(o) PROVE TypeOK'
  <2> DEFINE open == {l \in op[o].layers : pr[l].st # "MERGED"}
  <2>1. open \subseteq Layers /\ open # {} /\ Merge(o, {Lowest(open)})
    BY <1>0, <1>4 DEF JobMerge, OpSet
  <2> HIDE DEF open
  <2>2. Lowest(open) \in open
    BY <2>1, LowestExists
  <2>3. pr' \in [Layers -> PrSet] /\ merges' \in [Ops -> SUBSET Layers]
    BY <1>1, <2>1, <2>2
  <2> QED
    BY <1>4, <2>3 DEF JobMerge, TypeOK, PrSet, journal, backend, env
<1>5. ASSUME NEW o \in Ops, JobEnd(o) PROVE TypeOK'
  <2>1. job[o].reply \in {"none", "pending", "merged", "refused"}
    BY <1>0 DEF JobSet
  <2>2. job' \in [Ops -> JobSet]
    BY <1>2, <1>5, <2>1 DEF JobEnd, JobStates
  <2> QED
    BY <1>5, <2>2 DEF JobEnd, TypeOK, JobSet, journal, backend, env
<1>6. ASSUME Elapse PROVE TypeOK'
  <2>1. job' \in [Ops -> JobSet]
    BY <1>0, <1>6 DEF Elapse, JobSet, JobStates
  <2>2. op' \in [Ops -> OpSet]
    <3>1. \A o \in Ops : [op[o] EXCEPT !.aged = TRUE] \in OpSet
      BY <1>0, OpWrites
    <3> QED
      BY <1>0, <1>6, <3>1, Zenon DEF Elapse
  <2> QED
    BY <1>6, <2>1, <2>2 DEF Elapse, TypeOK, JobSet, OpSet, backend, env
<1>7. ASSUME Restack PROVE TypeOK'
  <2>1. edits + 1 \in Heads /\ edits' \in 0..MaxEdits
    BY <1>0, <1>7 DEF Restack, Heads
  <2>2. pr' \in [Layers -> PrSet]
    BY <1>0, <1>7, <2>1 DEF Restack, PrSet
  <2>3. cp' \in [Layers -> Heads]
    BY <1>0, <1>7, <2>1 DEF Restack
  <2> QED
    BY <1>7, <2>1, <2>2, <2>3 DEF Restack, TypeOK, PrSet, journal, backend
<1>8. ASSUME NEW l \in Layers, Retarget(l) PROVE TypeOK'
  <2>1. pr' \in [Layers -> PrSet]
    BY <1>0, <1>8 DEF Retarget, PrSet
  <2> QED
    BY <1>8, <2>1 DEF Retarget, TypeOK, PrSet, journal, backend, env
<1>9. ASSUME NEW l \in Layers, Meddle(l) PROVE TypeOK'
  <2>1. edits + 1 \in Heads /\ edits' \in 0..MaxEdits
    BY <1>0, <1>9 DEF Meddle, Heads
  <2>2. pr' \in [Layers -> PrSet]
    BY <1>0, <1>9, <2>1 DEF Meddle, PrSet, PrStates
  <2> QED
    BY <1>9, <2>1, <2>2 DEF Meddle, TypeOK, PrSet, journal, backend
<1> QED
  BY <1>3, <1>4, <1>5, <1>6, <1>7, <1>8, <1>9

LEMMA NextTypeOK ==
    ASSUME TypeOK, Sound, [Next]_vars
    PROVE  TypeOK'
<1>1. CASE UNCHANGED vars
  BY <1>1 DEF vars, TypeOK
<1> QED
  BY <1>1, DecidingTyped, WritingTyped, OutsideTyped DEF Next, Work

-----------------------------------------------------------------------------
(* Steps of the command that change nothing but its own state. *)

world == <<pr, cp, op, nops, job, merges, plan, node, objective, evidence>>

LEMMA SameWorld ==
    ASSUME Sound, UNCHANGED world, Works(me')
    PROVE  Sound'
<1>1. Unresolved' = Unresolved /\ Covered' = Covered /\ \A S : OnTop(S)' <=> OnTop(S)
  BY DEF world, Unresolved, Covered, OnTop
<1>2. /\ \A o, l : MergedAsApproved(o, l)' <=> MergedAsApproved(o, l)
      /\ \A o : (Live(o)' <=> Live(o)) /\ (Singleton(o)' <=> Singleton(o))
  BY DEF world, MergedAsApproved, Live, Singleton
<1>3. \A l : Earned(l)' <=> Earned(l)
  BY <1>1, <1>2 DEF Earned, world
<1>4. Journaled'
  BY <1>1, <1>2 DEF Sound, Journaled, Sole, Unminted, Stacked, Bottom, Verified, world
<1>5. Merging' /\ Dying' /\ Finished' /\ ClosedWithEvidence'
  BY <1>1, <1>2, <1>3 DEF Sound, Merging, Dying, Finished, ClosedWithEvidence, world
<1>6. Placed(me)' /\ Finishes(me)'
  BY <1>1, <1>3 DEF Works, Placed, Finishes, world
<1>7. Sends(me)'
  BY <1>2 DEF Works, Sends, world
<1>8. Tells(me)'
  BY <1>2 DEF Works, Tells, Disproves, world
<1> QED
  BY <1>4, <1>5, <1>6, <1>7, <1>8 DEF Sound, Working, Works

\* What the command may always go back to.
LEMMA AtRest ==
    ASSUME NEW s, s.pc \in {"idle", "assess", "converge"}
    PROVE  Works(s)
  BY DEF Works, Placed, Sends, Tells, Finishes, Disproves, Acting, Sending, Recovering, Reads,
         Classifying, Disproving

LEMMA Turns ==
    ASSUME TypeOK
    PROVE  /\ Quit => Works(me')
           /\ Goto("converge") \/ Step(Turn("converge")) => Works(me')
<1>1. me \in MeSet /\ Turn("converge") \in MeSet
  BY TypeParts, MovesTyped DEF MeOK, Pcs
<1>2. Idle.pc = "idle" /\ Turn("converge").pc = "converge"
  BY DEF Idle, Turn
<1>3. Quit => Works(me')
  BY <1>2, AtRest DEF Quit
<1>4. Goto("converge") => me'.pc = "converge"
  BY <1>1 DEF Goto, MeSet
<1>5. Step(Turn("converge")) => me'.pc = "converge"
  BY <1>2 DEF Step
<1> QED
  BY <1>3, <1>4, <1>5, AtRest

\* The completed operations cover what was merged as they approved it.
LEMMA CoveredIsLanded ==
    ASSUME Verified
    PROVE  /\ Landed = Covered
           /\ \A l \in Covered : pr[l].st = "MERGED"
  BY DEF Verified, Landed, Covered, MergedAsApproved

LEMMA EarnedIsMerged ==
    ASSUME Verified
    PROVE  \A l : Earned(l) => pr[l].st = "MERGED"
  BY CoveredIsLanded DEF Earned, MergedAsApproved

\* What the parts of the invariant say of the operation the command works on.
LEMMA MyOperation ==
    ASSUME TypeOK, Sound, me.pc \in Acting
    PROVE  /\ me.op \in Ops /\ op[me.op].st = "prepared" /\ Unresolved = {me.op}
           /\ op[me.op].layers \in SUBSET Layers
           /\ op[me.op].heads = cp /\ OnTop(op[me.op].layers)
<1>1. me.op \in Ops /\ op[me.op].st = "prepared"
  BY DEF Sound, Working, Works, Placed
<1>2. me.op \in Unresolved
  BY <1>1 DEF Unresolved
<1>3. Unresolved = {me.op}
  BY <1>2 DEF Sound, Journaled, Sole
<1>4. op[me.op].layers \in SUBSET Layers
  BY <1>1, TypeParts DEF LogOK, OpSet
<1> QED
  BY <1>1, <1>2, <1>3, <1>4 DEF Sound, Journaled, Stacked

\* The handle evidence was read of a request that is dead by then.
LEMMA DeadHandleIsDead ==
    ASSUME TypeOK, Sound, me.pc \in {"probe", "reprobe"}, Handle(me.op) \in DeadHandles
    PROVE  ~ Live(me.op)
<1>1. me.op \in Ops
  BY MyOperation DEF Acting
<1>2. /\ Singleton(me.op) => job[me.op].st \notin {"pending", "enqueued"}
      /\ op[me.op].aged => ~ Live(me.op)
  BY <1>1 DEF Sound, Dying
<1>3. Singleton(me.op) => job[me.op].st # "flying"
  BY <1>1 DEF Sound, Working, Works, Sends, Recovering
<1>4. CASE Singleton(me.op)
  BY <1>2, <1>3, <1>4 DEF Live
<1>5. CASE ~ Singleton(me.op) /\ op[me.op].accepted
  <2>1. Handle(me.op) = IF job[me.op].st = "flying" THEN "pending" ELSE job[me.op].st
    BY <1>5 DEF Handle
  <2> QED
    BY <2>1 DEF DeadHandles, Live
<1>6. CASE ~ Singleton(me.op) /\ ~ op[me.op].accepted
  BY <1>2, <1>6 DEF Handle, DeadHandles
<1> QED
  BY <1>4, <1>5, <1>6

LEMMA ReadWorks ==
    ASSUME TypeOK, Sound, NEW l \in Layers, Read(l)
    PROVE  Works(me')
<1>0. me \in MeSet /\ me.seen \in [Layers -> PrType] /\ me.pc \in Acting /\ me.pc \in Reads
  BY TypeParts DEF MeOK, MeSet, Read, Acting, Reads, Disproving, Classifying
<1>1. PICK p \in {pr[l]} \cup {Pr("error", 0, "main")} :
        me' = [me EXCEPT !.todo = me.todo \ {l}, !.seen[l] = p,
                         !.pc = IF me.todo \ {l} = {}
                                THEN CASE me.pc = "verify" -> "complete_op"
                                       [] me.pc = "disprove" -> "abandon_op"
                                       [] me.pc = "classify" -> "conclude"
                                       [] OTHER -> "reconclude"
                                ELSE me.pc]
  BY DEF Read, Step
<1>2. /\ me'.pc \in Reads /\ me'.pc \in Acting
      /\ me'.pc \in Disproving <=> me.pc \in Disproving
      /\ me'.pc \in Classifying <=> me.pc \in Classifying
      /\ me'.pc \in {"verify", "complete_op"} \cup Disproving \cup Classifying
      /\ me'.op = me.op /\ me'.handle = me.handle
      /\ me'.seen = [me.seen EXCEPT ![l] = p]
  BY <1>0, <1>1 DEF MeSet, Read, Acting, Reads, Disproving, Classifying
<1>3. /\ p.st = "MERGED" => p = pr[l]
      /\ p.st = "OPEN" => l \notin plan \cup node /\ \A o \in Ops : l \notin merges[o]
  BY <1>1, EarnedIsMerged DEF Pr, Sound, Journaled, Finished, Merging
<1>4. /\ Disproves(me') <=> Disproves(me)
      /\ Works(me) /\ me.op \in Ops /\ op[me.op].st = "prepared"
  BY <1>0, <1>2, MyOperation DEF Disproves, Sound, Working
<1>5. Placed(me') /\ Finishes(me')
  BY <1>2, <1>4 DEF Placed, Finishes, Disproving, Classifying
<1>6. Sends(me')
  BY <1>2, <1>4 DEF Works, Sends, Disproving, Classifying, Sending, Recovering
<1>7. Tells(me')
  BY <1>0, <1>2, <1>3, <1>4 DEF Works, Tells
<1> QED
  BY <1>5, <1>6, <1>7 DEF Works

\* Nothing was read yet.
LEMMA UnreadTells ==
    ASSUME NEW s, s.seen = [l \in Layers |-> Unread], Disproves(s) => ~ Live(s.op)
    PROVE  Tells(s)
  BY DEF Tells, Unread, Pr

LEMMA ObserveWorks ==
    ASSUME TypeOK, Sound, me.pc \in Acting, NEW S \in SUBSET Layers,
           \/ Observe("verify", S)
           \/ Observe("disprove", S) /\ ~ Live(me.op)
    PROVE  Works(me')
<1>1. me \in MeSet
  BY TypeParts DEF MeOK
<1>2. /\ me'.pc \in {"verify", "disprove"} /\ me'.op = me.op
      /\ me'.seen = [l \in Layers |-> Unread]
      /\ me'.pc = "disprove" => ~ Live(me.op)
  BY <1>1 DEF Observe, MeSet
<1>3. me.op \in Ops /\ op[me.op].st = "prepared"
  BY MyOperation
<1>4. Tells(me')
  <2>1. Disproves(me') => ~ Live(me'.op)
    BY <1>2 DEF Disproves, Disproving, Classifying
  <2> QED
    BY <1>2, <2>1, UnreadTells
<1>5. Placed(me') /\ Sends(me') /\ Finishes(me')
  BY <1>2, <1>3 DEF Placed, Sends, Finishes, Recovering, Classifying, Sending
<1> QED
  BY <1>4, <1>5 DEF Works

\* Reading and deciding.
LEMMA DecidingSound ==
    ASSUME TypeOK, Sound,
           \/ Assess \/ Poll \/ Finalized \/ Fold \/ Probe \/ Reply \/ Converge \/ Crash
           \/ (\E c \in Commands : Begin(c)) \/ \E l \in Layers : Reobserve(l) \/ Read(l)
    PROVE  Sound'
<1>0. /\ me \in MeSet /\ Works(me)
      /\ Verified /\ Landed = Covered
  BY TypeParts, CoveredIsLanded DEF MeOK, Sound, Journaled, Working
<1>w. UNCHANGED world
  BY DEF Assess, Poll, Finalized, Fold, Probe, Reply, Converge, Crash, Begin, Reobserve, Read,
         world, journal, backend
<1>1. ASSUME Assess PROVE Works(me')
  <2>1. CASE Goto("complete")
    <3>1. me'.pc = "complete" /\ Unresolved = {}
      BY <1>0, <1>1, <2>1 DEF Goto, Assess, Quit, Step, Idle, MeSet
    <3> QED
      BY <3>1 DEF Works, Placed, Sends, Tells, Finishes, Disproves, Acting, Sending, Recovering,
                  Reads, Classifying, Disproving
  <2>2. CASE /\ Step([me EXCEPT !.pc = "reobserve", !.todo = Layers \ Landed, !.landed = Landed])
             /\ Unresolved = {} /\ \A l \in Layers \ Landed, k \in Landed : k < l
    <3>1. me'.pc = "reobserve" /\ me'.landed = Landed
      BY <1>0, <2>2 DEF Step, MeSet
    <3>2. OnTop(Layers \ me'.landed)
      BY <1>0, <2>2, <3>1 DEF OnTop, Covered
    <3> QED
      BY <2>2, <3>1, <3>2 DEF Works, Placed, Sends, Tells, Finishes, Disproves, Acting, Sending,
                  Recovering, Reads, Classifying, Disproving
  <2>3. CASE Quit
    BY <2>3, Turns
  <2> QED
    BY <1>1, <2>1, <2>2, <2>3 DEF Assess
<1>2. ASSUME Poll PROVE Works(me')
  <2>1. me.pc \in Acting /\ op[me.op].layers \in SUBSET Layers
    BY <1>2, MyOperation DEF Poll, Acting, Sending
  <2>2. CASE Quit
    BY <2>2, Turns
  <2>3. CASE Observe("verify", op[me.op].layers)
    BY <2>1, <2>3, ObserveWorks
  <2>4. CASE Observe("disprove", op[me.op].layers) /\ job[me.op].st = "failed"
    BY <2>1, <2>4, ObserveWorks DEF Live
  <2> QED
    BY <1>2, <2>2, <2>3, <2>4 DEF Poll
<1>3. ASSUME Finalized PROVE Works(me')
  <2>1. CASE Quit \/ Goto("converge")
    BY <2>1, Turns
  <2>2. CASE Goto("close") /\ me.durable
    <3>1. me'.pc = "close" /\ Unresolved = {}
      BY <1>0, <1>3, <2>2 DEF Goto, Finalized, MeSet, Works, Placed
    <3> QED
      BY <3>1 DEF Works, Placed, Sends, Tells, Finishes, Disproves, Acting, Sending, Recovering,
                  Reads, Classifying, Disproving
  <2> QED
    BY <1>3, <2>1, <2>2 DEF Finalized, Onward
<1>4. ASSUME Fold PROVE Works(me')
  <2>1. CASE Quit \/ Goto("converge")
    BY <2>1, Turns
  <2>2. ASSUME NEW o \in Unresolved,
               Step([me EXCEPT !.pc = "probe", !.op = o, !.landed = Landed])
        PROVE  Works(me')
    <3>1. me'.pc = "probe" /\ me'.op = o /\ o \in Ops /\ op[o].st = "prepared"
      BY <1>0, <2>2 DEF Step, MeSet, Unresolved
    <3>2. \A q \in Ops : Singleton(q) => job[q].st # "flying"
      BY <1>0, <1>4 DEF Fold, Works, Sends, Recovering
    <3> QED
      BY <3>1, <3>2 DEF Works, Placed, Sends, Tells, Finishes, Disproves, Sending, Recovering,
                  Reads, Classifying, Disproving
  <2> QED
    BY <1>4, <2>1, <2>2 DEF Fold
<1>5. ASSUME Probe PROVE Works(me')
  <2>1. PICK h \in {Handle(me.op), "unreadable"} :
          me' = [me EXCEPT !.pc = IF me.pc = "probe" THEN "classify" ELSE "reclassify",
                           !.handle = h, !.todo = op[me.op].layers,
                           !.seen = [l \in Layers |-> Unread]]
    BY <1>5, ZenonT(60) DEF Probe, Step
  <2>2. /\ me'.pc \in Classifying /\ me'.op = me.op /\ me'.handle = h
        /\ me'.seen = [l \in Layers |-> Unread]
        /\ me'.pc \in Recovering /\ me'.pc \notin Sending
    BY <1>0, <2>1 DEF MeSet, Classifying, Recovering, Sending
  <2>3. /\ me.op \in Ops /\ op[me.op].st = "prepared"
        /\ \A q \in Ops : Singleton(q) => job[q].st # "flying"
    BY <1>0, <1>5, MyOperation DEF Probe, Works, Sends, Recovering, Acting
  <2>4. Disproves(me') => ~ Live(me'.op)
    BY <1>5, <2>1, <2>2, DeadHandleIsDead DEF Probe, Disproves, Disproving, Classifying,
                                              DeadHandles
  <2>5. Tells(me')
    BY <2>2, <2>4, UnreadTells
  <2>6. Placed(me') /\ Sends(me') /\ Finishes(me')
    BY <2>2, <2>3 DEF Placed, Sends, Finishes, Classifying, Recovering, Sending
  <2> QED
    BY <2>5, <2>6 DEF Works
<1>6. ASSUME Reply PROVE Works(me')
  <2>1. me.pc \in Acting /\ op[me.op].layers \in SUBSET Layers /\ me.op \in Ops
        /\ op[me.op].st = "prepared"
    BY <1>6, MyOperation DEF Reply, Acting, Sending
  <2>2. CASE Quit
    BY <2>2, Turns
  <2>3. CASE Observe("verify", op[me.op].layers)
    BY <2>1, <2>3, ObserveWorks
  <2>4. CASE /\ Observe("disprove", op[me.op].layers)
             /\ job[me.op].reply = "refused" /\ me.try = 1
    <3>1. ~ Live(me.op)
      BY <1>0, <1>6, <2>4 DEF Reply, Works, Sends
    <3> QED
      BY <2>1, <2>4, <3>1, ObserveWorks
  <2>5. CASE Goto("accept") \/ Step([me EXCEPT !.pc = "submit", !.try = 2])
    <3>1. /\ me'.pc \in {"accept", "submit"} /\ me'.op = me.op
          /\ me'.pc = "submit" => me'.try = 2
      BY <1>0, <2>5 DEF Goto, Step, MeSet
    <3>2. ~ op[me.op].aged
      BY <1>0, <1>6 DEF Reply, Works, Sends, Sending
    <3> QED
      BY <2>1, <3>1, <3>2 DEF Works, Placed, Sends, Tells, Finishes, Disproves, Recovering,
                  Reads, Classifying, Disproving
  <2> QED
    BY <1>6, <2>2, <2>3, <2>4, <2>5 DEF Reply
<1>7. ASSUME Converge PROVE Works(me')
  <2>1. /\ me'.pc = "finalize" /\ me'.durable = (Unresolved = {})
        /\ me'.todo = {l \in Covered : Corroborated(l)} \ me.concluded
    BY <1>0, <1>7 DEF Converge, Step, MeSet
  <2> QED
    BY <2>1 DEF Works, Placed, Sends, Tells, Finishes, Disproves, Acting, Sending, Recovering,
                Reads, Classifying, Disproving, Earned
<1>8. ASSUME Crash PROVE Works(me')
  BY <1>8, Turns DEF Crash
<1>9. ASSUME NEW c \in Commands, Begin(c) PROVE Works(me')
  <2>1. /\ me'.pc \in {"assess", "fold"}
        /\ \A o \in Ops : Singleton(o) => job[o].st # "flying"
    BY <1>9 DEF Begin, Step, Idle
  <2> QED
    BY <2>1 DEF Works, Placed, Sends, Tells, Finishes, Disproves, Acting, Sending, Recovering,
                Reads, Classifying, Disproving
<1>10. ASSUME NEW l \in Layers, Reobserve(l) PROVE Works(me')
  <2>1. CASE Quit
    BY <2>1, Turns
  <2>2. CASE Step([me EXCEPT !.todo = me.todo \ {l},
                             !.pc = IF me.todo \ {l} = {} THEN "prepare" ELSE "reobserve"])
    <3>1. me'.pc \in {"reobserve", "prepare"} /\ me'.landed = me.landed
      BY <1>0, <2>2 DEF Step, MeSet
    <3>2. Unresolved = {} /\ OnTop(Layers \ me.landed)
      BY <1>0, <1>10 DEF Reobserve, Works, Placed
    <3> QED
      BY <3>1, <3>2 DEF Works, Placed, Sends, Tells, Finishes, Disproves, Acting, Sending,
                  Recovering, Reads, Classifying, Disproving
  <2> QED
    BY <1>10, <2>1, <2>2 DEF Reobserve
<1>11. ASSUME NEW l \in Layers, Read(l) PROVE Works(me')
  BY <1>11, ReadWorks
<1>12. Works(me')
  BY <1>1, <1>2, <1>3, <1>4, <1>5, <1>6, <1>7, <1>8, <1>9, <1>10, <1>11
<1> QED
  BY <1>w, <1>12, SameWorld

-----------------------------------------------------------------------------
(* Steps of GitHub, its users and the clock. *)

\* They touch no record but the age of a prepared one, whose request is dead by
\* then; what is merged stays as it is; only a live request merges, and a dead
\* one stays dead.
OpsDrift ==
    /\ op' \in [Ops -> OpSet] /\ op \in [Ops -> OpSet]
    /\ \A o \in Ops :
        /\ op'[o].st = op[o].st /\ op'[o].layers = op[o].layers
        /\ op'[o].heads = op[o].heads /\ op'[o].landed = op[o].landed
        /\ op[o].st # "prepared" => op'[o] = op[o]
        /\ op'[o].aged => op[o].aged \/ ~ Live(o)'
        /\ me.pc \in Sending => op'[o].aged = op[o].aged
JobsDrift ==
    \A o \in Ops :
        /\ Live(o)' => Live(o)
        /\ job[o].st = "none" => job'[o].st = "none"
        /\ job'[o].st = "flying" => job[o].st = "flying"
        /\ Singleton(o) /\ job'[o].st \in {"pending", "enqueued"}
              => job[o].st \in {"pending", "enqueued"}
        /\ job'[o].reply = "refused" => job[o].reply = "refused" \/ ~ Live(o)'
PrsDrift == \A l \in Layers : pr[l].st = "MERGED" => pr'[l] = pr[l]
MergesDrift ==
    \A o \in Ops : \A l \in merges'[o] :
        l \in merges[o] \/ (Live(o) /\ l \in op[o].layers /\ pr'[l].st = "MERGED")
Drift == /\ OpsDrift /\ JobsDrift /\ PrsDrift /\ MergesDrift
         /\ me' = me /\ UNCHANGED <<cp, nops, plan, node, objective, evidence>>

LEMMA DriftSound ==
    ASSUME TypeOK, Sound, Drift
    PROVE  Sound'
<1>1. Unresolved' = Unresolved
  BY DEF Drift, OpsDrift, Unresolved
<1>2. Covered' = Covered
  BY DEF Drift, OpsDrift, Covered
<1>3. \A S : OnTop(S)' <=> OnTop(S)
  BY <1>2 DEF OnTop
<1>4. \A o \in Ops, l \in Layers : MergedAsApproved(o, l) => MergedAsApproved(o, l)'
  BY DEF Drift, OpsDrift, PrsDrift, MergedAsApproved
<1>5. \A o \in Ops : Singleton(o)' <=> Singleton(o)
  BY DEF Drift, OpsDrift, Singleton
<1>6. \A l \in Layers : Earned(l) => Earned(l)'
  BY <1>1, <1>2, <1>4 DEF Earned, Drift, OpsDrift, Unresolved
<1>7. Journaled'
  <2>1. Sole' /\ Bottom'
    BY <1>1, <1>2 DEF Sound, Journaled, Sole, Bottom
  <2>2. Unminted'
    <3>1. ASSUME NEW o \in Ops, o > nops PROVE op'[o] = NoOp /\ job'[o].st = "none"
                                               /\ merges'[o] = {}
      <4>1. op[o] = NoOp /\ job[o].st = "none" /\ merges[o] = {}
        BY <3>1 DEF Sound, Journaled, Unminted
      <4>2. ~ Live(o) /\ op[o].st # "prepared"
        BY <4>1 DEF Live, NoOp
      <4> QED
        BY <4>1, <4>2 DEF Drift, OpsDrift, JobsDrift, MergesDrift
    <3> QED
      BY <3>1 DEF Unminted, Drift
  <2>3. Stacked'
    BY <1>1, <1>3 DEF Sound, Journaled, Stacked, Drift, OpsDrift, Unresolved
  <2>4. Verified'
    <3>1. \A o \in Ops : op[o].landed \subseteq Layers
      BY TypeParts DEF LogOK, OpSet
    <3> QED
      BY <1>4, <3>1 DEF Sound, Journaled, Verified, Drift, OpsDrift
  <2> QED
    BY <2>1, <2>2, <2>3, <2>4 DEF Journaled
<1>8. Merging'
  <2>1. ASSUME NEW o \in Ops, NEW l \in merges'[o]
        PROVE  l \in op[o].layers /\ pr'[l].st = "MERGED"
    <3>1. CASE l \in merges[o]
      <4>1. l \in op[o].layers /\ pr[l].st = "MERGED" /\ l \in Layers
        BY <3>1, TypeParts DEF Sound, Merging, LogOK, OpSet
      <4> QED
        BY <4>1 DEF Drift, PrsDrift
    <3>2. CASE l \notin merges[o]
      BY <3>2 DEF Drift, MergesDrift
    <3> QED
      BY <3>1, <3>2
  <2> QED
    BY <2>1 DEF Merging, Drift, OpsDrift
<1>9. Dying'
  <2>1. ASSUME NEW o \in Ops
        PROVE  /\ op'[o].st = "abandoned" => merges'[o] = {} /\ ~ Live(o)'
               /\ op'[o].aged => ~ Live(o)'
               /\ Singleton(o) => job'[o].st \notin {"pending", "enqueued"}
    <3>1. /\ op[o].st = "abandoned" => merges[o] = {} /\ ~ Live(o)
          /\ op[o].aged => ~ Live(o)
          /\ Singleton(o) => job[o].st \notin {"pending", "enqueued"}
      BY DEF Sound, Dying
    <3>2. /\ Live(o)' => Live(o)
          /\ op'[o].st = op[o].st
          /\ op'[o].aged => op[o].aged \/ ~ Live(o)'
          /\ Singleton(o) /\ job'[o].st \in {"pending", "enqueued"}
              => job[o].st \in {"pending", "enqueued"}
      BY DEF Drift, OpsDrift, JobsDrift
    <3>3. ~ Live(o) => \A l \in merges'[o] : l \in merges[o]
      BY DEF Drift, MergesDrift
    <3> QED
      BY <3>1, <3>2, <3>3
  <2> QED
    BY <1>5, <2>1 DEF Dying
<1>10. Finished' /\ ClosedWithEvidence'
  <2>1. plan \cup node \subseteq Layers
    BY TypeParts DEF FinalOK
  <2> QED
    BY <1>2, <1>6, <2>1 DEF Sound, Finished, ClosedWithEvidence, Drift
<1>11. Placed(me)'
  BY <1>1, <1>3 DEF Sound, Working, Works, Placed, Drift, OpsDrift
<1>12. Sends(me)'
  <2>1. me.pc \in Acting => me.op \in Ops
    BY DEF Sound, Working, Works, Placed
  <2>2. Sends(me)
    BY DEF Sound, Working, Works
  <2>3. me.pc \in Recovering => \A o \in Ops : Singleton(o)' => job'[o].st # "flying"
    BY <1>5, <2>2 DEF Sends, Drift, JobsDrift
  <2>4. me.pc \in Sending => ~ op'[me.op].aged
    BY <2>1, <2>2 DEF Sends, Drift, OpsDrift, Acting
  <2>5. me.pc = "submit" /\ me.try = 1 => job'[me.op].st = "none"
    BY <2>1, <2>2 DEF Sends, Drift, JobsDrift, Acting, Sending
  <2>6. me.pc = "reply" /\ me.try = 1 /\ job'[me.op].reply = "refused" => ~ Live(me.op)'
    <3>1. ASSUME me.pc = "reply", me.try = 1, job'[me.op].reply = "refused"
          PROVE  ~ Live(me.op)'
      <4>1. me.op \in Ops
        BY <2>1, <3>1 DEF Acting, Sending
      <4>2. job[me.op].reply = "refused" \/ ~ Live(me.op)'
        BY <3>1, <4>1 DEF Drift, JobsDrift
      <4>3. job[me.op].reply = "refused" => ~ Live(me.op)
        BY <2>2, <3>1 DEF Sends
      <4>4. Live(me.op)' => Live(me.op)
        BY <4>1 DEF Drift, JobsDrift, Live
      <4> QED
        BY <4>2, <4>3, <4>4
    <3> QED
      BY <3>1
  <2> QED
    BY <2>3, <2>4, <2>5, <2>6 DEF Sends, Drift, Live
<1>13. Tells(me)'
  <2>1. /\ me.pc \in Acting => me.op \in Ops
        /\ Tells(me)
    BY DEF Sound, Working, Works, Placed
  <2>2. Disproves(me) => me.op \in Ops
    BY <2>1 DEF Disproves, Acting, Reads
  <2>3. ASSUME me.pc \in Reads, NEW l \in Layers
        PROVE  /\ me.seen[l].st = "MERGED" => pr'[l] = me.seen[l]
               /\ me.seen[l].st = "OPEN" => l \notin plan \cup node
    BY <2>1, <2>3 DEF Tells, Drift, PrsDrift
  <2>4. ASSUME Disproves(me)
        PROVE  /\ ~ Live(me.op)'
               /\ \A l \in Layers : me.seen[l].st = "OPEN" => l \notin merges'[me.op]
    <3>1. /\ ~ Live(me.op) /\ me.op \in Ops
          /\ \A l \in Layers : me.seen[l].st = "OPEN" => l \notin merges[me.op]
      BY <2>1, <2>2, <2>4 DEF Tells
    <3>2. Live(me.op)' => Live(me.op)
      BY <3>1 DEF Drift, JobsDrift, Live
    <3>3. \A l \in merges'[me.op] : l \in merges[me.op]
      BY <3>1 DEF Drift, MergesDrift
    <3> QED
      BY <3>1, <3>2, <3>3
  <2> QED
    BY <2>3, <2>4 DEF Tells, Disproves, Drift, Live
<1>14. Finishes(me)'
  <2>1. me.todo \subseteq Layers
    BY TypeParts DEF MeOK, MeSet
  <2> QED
    BY <1>2, <1>6, <2>1 DEF Sound, Working, Works, Finishes, Drift
<1> QED
  BY <1>7, <1>8, <1>9, <1>10, <1>11, <1>12, <1>13, <1>14 DEF Sound, Working, Works

LEMMA MergeDrifts ==
    ASSUME TypeOK, NEW o \in Ops, NEW S \in SUBSET op[o].layers, Live(o), Merge(o, S)
    PROVE  PrsDrift /\ MergesDrift
<1>0. /\ pr \in [Layers -> PrSet] /\ merges \in [Ops -> SUBSET Layers]
      /\ S \subseteq Layers
  BY TypeParts DEF RemoteOK, LogOK, OpSet
<1>1. \A l \in Layers : /\ l \in S => pr'[l] = [pr[l] EXCEPT !.st = "MERGED"]
                        /\ l \notin S => pr'[l] = pr[l]
  BY DEF Merge
<1>2. PrsDrift
  BY <1>0, <1>1 DEF PrsDrift, PrSet
<1>3. ASSUME NEW l \in S PROVE pr'[l].st = "MERGED"
  <2>1. l \in Layers /\ pr[l] \in PrSet
    BY <1>0
  <2>2. pr'[l] = [pr[l] EXCEPT !.st = "MERGED"]
    BY <1>1, <2>1
  <2> QED
    BY <2>1, <2>2 DEF PrSet
<1>4. merges'[o] = merges[o] \cup S /\ \A q \in Ops \ {o} : merges'[q] = merges[q]
  BY <1>0 DEF Merge
<1>5. ASSUME NEW q \in Ops, NEW l \in merges'[q]
      PROVE  l \in merges[q] \/ (Live(q) /\ l \in op[q].layers /\ pr'[l].st = "MERGED")
  BY <1>3, <1>4
<1>6. MergesDrift
  BY <1>5 DEF MergesDrift
<1> QED
  BY <1>2, <1>6

\* Nothing changes but the request of one operation.
LEMMA SetJobDrifts ==
    ASSUME TypeOK, NEW o \in Ops, job[o].st \in {"flying", "pending"},
           NEW st \in JobStates, NEW r, SetJob(o, st, r),
           st # "flying" /\ (Singleton(o) => st \notin {"pending", "enqueued"}),
           r = "refused" => job[o].reply = "refused" \/ st = "refused"
    PROVE  JobsDrift
<1>0. job \in [Ops -> JobSet]
  BY TypeParts DEF RemoteOK
<1>1. /\ job'[o] = [st |-> st, reply |-> r]
      /\ \A q \in Ops \ {o} : job'[q] = job[q]
  BY <1>0 DEF SetJob
<1>2. Live(o)
  BY DEF Live
<1>3. \A q \in Ops \ {o} : Live(q)' <=> Live(q)
  BY <1>1 DEF Live
<1>4. st = "refused" => ~ Live(o)'
  BY <1>1 DEF Live
<1> QED
  BY <1>1, <1>2, <1>3, <1>4 DEF JobsDrift

LEMMA SameDrifts ==
    ASSUME TypeOK
    PROVE  /\ op' = op => OpsDrift
           /\ job' = job => JobsDrift
           /\ pr' = pr => PrsDrift
           /\ merges' = merges => MergesDrift
<1>1. op \in [Ops -> OpSet]
  BY TypeParts DEF LogOK
<1>2. op' = op => OpsDrift
  BY <1>1 DEF OpsDrift
<1>3. job' = job => JobsDrift
  BY DEF JobsDrift, Live
<1> QED
  BY <1>2, <1>3 DEF PrsDrift, MergesDrift

LEMMA OutsideDrifts ==
    ASSUME TypeOK, Sound,
           \/ \E o \in Ops : Process(o) \/ JobMerge(o) \/ JobEnd(o)
           \/ Elapse
           \/ \E l \in Layers : Retarget(l) \/ Meddle(l)
    PROVE  Drift
<1>0. /\ pr \in [Layers -> PrSet] /\ job \in [Ops -> JobSet]
      /\ op \in [Ops -> OpSet]
      /\ \A o \in Ops : op[o].layers \subseteq Layers
      /\ \A o \in Ops : Singleton(o) => job[o].st \notin {"pending", "enqueued"}
  BY TypeParts DEF RemoteOK, LogOK, OpSet, Sound, Dying
<1>1. ASSUME NEW o \in Ops, Process(o) PROVE Drift
  <2>1. JobsDrift
    BY <1>1, SetJobDrifts DEF Process, JobStates
  <2>2. PrsDrift /\ MergesDrift
    BY <1>1, SameDrifts, MergeDrifts DEF Process, Live
  <2> QED
    BY <1>1, <2>1, <2>2, SameDrifts DEF Process, Drift, journal, backend
<1>2. ASSUME NEW o \in Ops, JobMerge(o) PROVE Drift
  <2> DEFINE open == {l \in op[o].layers : pr[l].st # "MERGED"}
  <2>1. open \subseteq op[o].layers /\ open # {} /\ Merge(o, {Lowest(open)})
    BY <1>2 DEF JobMerge
  <2>2. open \subseteq Layers
    BY <1>0
  <2> HIDE DEF open
  <2>3. Lowest(open) \in open
    BY <2>1, <2>2, LowestExists
  <2>4. PrsDrift /\ MergesDrift
    <3>1. {Lowest(open)} \in SUBSET op[o].layers
      BY <2>1, <2>3
    <3> QED
      BY <1>2, <2>1, <3>1, MergeDrifts DEF JobMerge, Live
  <2> QED
    BY <1>2, <2>4, SameDrifts DEF JobMerge, Drift, journal, backend
<1>3. ASSUME NEW o \in Ops, JobEnd(o) PROVE Drift
  <2>1. ~ Singleton(o)
    BY <1>0, <1>3 DEF JobEnd
  <2>2. JobsDrift
    BY <1>3, <2>1, SetJobDrifts DEF JobEnd, JobStates
  <2> QED
    BY <1>3, <2>2, SameDrifts DEF JobEnd, Drift, journal, backend
<1>4. ASSUME Elapse PROVE Drift
  <2>1. /\ \A o \in Ops : job'[o] = IF Live(o) THEN [job[o] EXCEPT !.st = "expired"] ELSE job[o]
        /\ \A o \in Ops : op'[o] = IF op[o].st = "prepared" THEN [op[o] EXCEPT !.aged = TRUE]
                                   ELSE op[o]
        /\ me.pc \notin Sending
    BY <1>4 DEF Elapse, Sending
  <2>2. \A o \in Ops : ~ Live(o)'
    <3>1. ASSUME NEW o \in Ops PROVE job'[o].st \notin {"flying", "pending", "enqueued"}
      BY <1>0, <2>1, ZenonT(60) DEF JobSet, Live
    <3> QED
      BY <3>1 DEF Live
  <2>3. op' \in [Ops -> OpSet]
    <3>1. \A o \in Ops : [op[o] EXCEPT !.aged = TRUE] \in OpSet
      BY <1>0, OpWrites
    <3> QED
      BY <1>0, <1>4, <3>1, Zenon DEF Elapse
  <2>4. OpsDrift
    <3>1. ASSUME NEW o \in Ops
          PROVE  /\ op'[o].st = op[o].st /\ op'[o].layers = op[o].layers
                 /\ op'[o].heads = op[o].heads /\ op'[o].landed = op[o].landed
                 /\ op[o].st # "prepared" => op'[o] = op[o]
      BY <1>0, <2>1 DEF OpSet
    <3> QED
      BY <1>0, <2>1, <2>2, <2>3, <3>1 DEF OpsDrift
  <2>5. JobsDrift
    <3>1. ASSUME NEW o \in Ops
          PROVE  /\ job[o].st = "none" => job'[o].st = "none"
                 /\ job'[o].st \in {"flying", "pending", "enqueued"} => job'[o] = job[o]
                 /\ job'[o].reply = job[o].reply
      BY <1>0, <2>1, ZenonT(60) DEF JobSet, Live
    <3>2. ASSUME NEW o \in Ops PROVE job'[o].st \notin {"flying", "pending", "enqueued"}
      BY <2>2 DEF Live
    <3> QED
      BY <2>2, <3>1, <3>2 DEF JobsDrift
  <2> QED
    BY <1>4, <2>4, <2>5, SameDrifts DEF Elapse, Drift, backend
<1>5. ASSUME NEW l \in Layers, Retarget(l) PROVE Drift
  <2>1. PrsDrift
    BY <1>0, <1>5 DEF Retarget, PrsDrift
  <2> QED
    BY <1>5, <2>1, SameDrifts DEF Retarget, Drift, journal, backend
<1>6. ASSUME NEW l \in Layers, Meddle(l) PROVE Drift
  <2>1. PrsDrift
    BY <1>0, <1>6 DEF Meddle, PrsDrift
  <2> QED
    BY <1>6, <2>1, SameDrifts DEF Meddle, Drift, journal, backend
<1> QED
  BY <1>1, <1>2, <1>3, <1>4, <1>5, <1>6

\* A restack moves the heads and checkpoints of open layers only.
LEMMA RestackSound ==
    ASSUME TypeOK, Sound, Restack
    PROVE  Sound'
<1>0. /\ pr \in [Layers -> PrSet] /\ cp \in [Layers -> Heads]
      /\ \A o \in Ops : op[o].landed \subseteq Layers /\ op[o].layers \subseteq Layers
      /\ plan \cup node \subseteq Layers
  BY TypeParts DEF RemoteOK, LogOK, OpSet, FinalOK
<1>1. Verified /\ Landed = Covered /\ \A l \in Covered : pr[l].st = "MERGED"
  BY CoveredIsLanded DEF Sound, Journaled
<1>2. /\ \A l \in Layers \ Covered : pr[l].st = "OPEN"
      /\ \A l \in Covered : pr'[l] = pr[l] /\ cp'[l] = cp[l]
      /\ Unresolved = {} /\ me.pc = "idle"
      /\ UNCHANGED <<op, nops, job, merges, plan, node, objective, evidence, me>>
  <2>1. Covered \subseteq Layers
    BY DEF Covered
  <2> HIDE DEF Covered
  <2> QED
    BY <1>1, <2>1 DEF Restack, journal, backend
<1>3. \A l \in Layers : pr[l].st = "MERGED" => l \in Covered /\ pr'[l] = pr[l]
  BY <1>2
<1>4. Unresolved' = {}
  BY <1>2 DEF Unresolved
<1>5. \A o \in Ops, l \in Layers : MergedAsApproved(o, l) => MergedAsApproved(o, l)'
  BY <1>2, <1>3 DEF MergedAsApproved
<1>6. Covered' = Covered
  <2>1. ASSUME NEW l \in Covered PROVE l \in Covered'
    BY <1>2, <2>1 DEF Covered
  <2>2. ASSUME NEW l \in Layers, NEW o \in Ops, op[o].st = "completed", l \in op[o].landed
        PROVE  l \in Covered
    <3>1. pr[l].st = "MERGED"
      BY <1>1, <2>2 DEF Verified, MergedAsApproved
    <3> QED
      BY <1>3, <3>1
  <2>3. ASSUME NEW l \in Covered' PROVE l \in Covered
    BY <1>2, <2>2, <2>3 DEF Covered
  <2> QED
    BY <2>1, <2>3
<1>7. \A o : (Live(o)' <=> Live(o)) /\ (Singleton(o)' <=> Singleton(o))
  BY <1>2 DEF Live, Singleton
<1>8. Journaled'
  <2>1. Sole' /\ Stacked'
    BY <1>4 DEF Sole, Stacked
  <2>2. Unminted' /\ Bottom'
    BY <1>2, <1>6 DEF Sound, Journaled, Unminted, Bottom
  <2>3. Verified'
    BY <1>0, <1>1, <1>2, <1>5 DEF Verified
  <2> QED
    BY <2>1, <2>2, <2>3 DEF Journaled
<1>9. Merging'
  BY <1>0, <1>2, <1>3 DEF Sound, Merging
<1>10. Dying'
  BY <1>2, <1>7 DEF Sound, Dying
<1>11. Finished' /\ ClosedWithEvidence'
  <2>1. \A l \in plan \cup node : l \in Covered
    BY <1>2 DEF Sound, Finished, Earned
  <2> QED
    BY <1>2, <1>6, <2>1 DEF Sound, Finished, Earned, ClosedWithEvidence
<1>12. Works(me)'
  BY <1>2 DEF Works, Placed, Sends, Tells, Finishes, Disproves, Acting, Sending, Recovering, Reads,
              Classifying, Disproving
<1> QED
  BY <1>8, <1>9, <1>10, <1>11, <1>12 DEF Sound, Working

-----------------------------------------------------------------------------
(* Steps of the command that write. *)

\* What it verified is merged; what it saw open was not finalized.
LEMMA VerifiedIsMerged ==
    ASSUME TypeOK, Sound, me.pc \in Reads,
           NEW l \in op[me.op].layers, VerifiedMerge(me.op, l, me.seen[l])
    PROVE  MergedAsApproved(me.op, l)
<1>1. l \in Layers
  BY MyOperation DEF Acting
<1>2. me.seen[l].st = "MERGED" /\ pr[l] = me.seen[l]
  BY <1>1 DEF VerifiedMerge, Sound, Working, Works, Tells
<1> QED
  BY <1>2 DEF VerifiedMerge, MergedAsApproved, ExpectedBase

LEMMA RunIsMerged ==
    ASSUME TypeOK, Sound, me.pc \in Reads
    PROVE  /\ MergedRun(me.op) \in SUBSET op[me.op].layers
           /\ \A l \in MergedRun(me.op) : MergedAsApproved(me.op, l)
           /\ \A l \in MergedRun(me.op), k \in op[me.op].layers :
                 k < l => k \in MergedRun(me.op)
<1>1. /\ op[me.op].layers \subseteq Layers
      /\ \A k, l \in Layers : l <= l /\ (k < l => k <= l)
      /\ \A j, k, l \in Layers : j <= k /\ k < l => j <= l
  BY MyOperation, Numbers DEF Acting, Layers
<1>2. \A l \in MergedRun(me.op) : VerifiedMerge(me.op, l, me.seen[l])
  BY <1>1 DEF MergedRun
<1>3. \A l \in MergedRun(me.op) : MergedAsApproved(me.op, l)
  BY <1>2, VerifiedIsMerged DEF MergedRun
<1>4. \A l \in MergedRun(me.op), k \in op[me.op].layers : k < l => k \in MergedRun(me.op)
  BY <1>1 DEF MergedRun
<1> QED
  BY <1>3, <1>4 DEF MergedRun

LEMMA ApprovedIsOpen ==
    ASSUME TypeOK, Sound, me.pc \in Reads,
           NEW l \in op[me.op].layers, Approved(me.op, l, me.seen[l])
    PROVE  /\ l \notin plan \cup node
           /\ Disproves(me) => l \notin merges[me.op]
<1>1. l \in Layers
  BY MyOperation DEF Acting
<1> QED
  BY <1>1 DEF Approved, Sound, Working, Works, Tells

\* What the classifications prove.
LEMMA Classified ==
    ASSUME TypeOK, Sound, me.pc \in Reads
    PROVE  /\ Classification(me.op) = "all_after" => MergedRun(me.op) = op[me.op].layers
           /\ Classification(me.op) = "all_before"
                => /\ me.handle \in DeadHandles
                   /\ \A l \in op[me.op].layers : Approved(me.op, l, me.seen[l])
           /\ Classification(me.op) = "external_prefix"
                => \A l \in op[me.op].layers \ MergedRun(me.op) :
                      Approved(me.op, l, me.seen[l])
<1> DEFINE o    == me.op
           s    == Shape(o)
           rest == op[o].layers \ MergedRun(o)
           before == \A l \in rest : Approved(o, l, me.seen[l])
<1>1. /\ s = "all-merged" => rest = {}
      /\ s = "all-before" => before /\ MergedRun(o) = {}
      /\ s = "prefix" => before
  BY DEF Shape
<1>2. /\ Classification(o) = "all_after" => s = "all-merged"
      /\ Classification(o) = "all_before" => s = "all-before" /\ me.handle \in DeadHandles
      /\ Classification(o) = "external_prefix" => s = "prefix"
  <2> HIDE DEF s
  <2> QED
    BY DEF Classification, DeadHandles, s
<1>3. MergedRun(o) \subseteq op[o].layers
  BY RunIsMerged
<1> QED
  BY <1>1, <1>2, <1>3

\* The completion of an operation: S is what it says is landed.
LEMMA CompletionSound ==
    ASSUME TypeOK, Sound, me.pc \in Reads, NEW S \in SUBSET op[me.op].layers,
           \A l \in S, k \in op[me.op].layers : k < l => k \in S,
           \A l \in S : MergedAsApproved(me.op, l),
           \A l \in op[me.op].layers \ S : l \notin plan \cup node,
           op' = [op EXCEPT ![me.op].st = "completed", ![me.op].landed = S],
           UNCHANGED <<pr, cp, nops, job, merges, plan, node, objective, evidence>>,
           me'.pc = "finalize", me'.todo = S
    PROVE  Sound'
<1> DEFINE o == me.op
<1>0. /\ o \in Ops /\ op[o].st = "prepared" /\ Unresolved = {o}
      /\ op[o].layers \subseteq Layers /\ S \subseteq Layers
      /\ op[o].heads = cp /\ OnTop(op[o].layers)
      /\ op \in [Ops -> OpSet] /\ plan \cup node \subseteq Layers
  BY MyOperation, TypeParts DEF Acting, LogOK, FinalOK
<1>1. OpStep(o, [op[o] EXCEPT !.st = "completed", !.landed = S])
  BY <1>0, OpWritten, ZenonT(60)
<1>2. /\ op'[o].st = "completed" /\ op'[o].landed = S /\ op'[o].heads = cp
      /\ op'[o].layers = op[o].layers /\ op'[o].aged = op[o].aged
      /\ \A q \in Ops \ {o} : op'[q] = op[q]
  BY <1>0, <1>1 DEF OpStep, OpSet
<1> HIDE DEF o
<1>3. Unresolved' = {}
  BY <1>0, <1>2 DEF Unresolved
<1>4. Covered' = Covered \cup S
  <2>1. ASSUME NEW l \in S PROVE l \in Covered'
    BY <1>0, <1>2, <2>1, SMTT(60) DEF Covered
  <2>2. ASSUME NEW l \in Covered PROVE l \in Covered'
    BY <1>0, <1>2, <2>2 DEF Covered
  <2>3. ASSUME NEW l \in Covered' PROVE l \in Covered \cup S
    BY <1>0, <1>2, <2>3 DEF Covered
  <2> QED
    BY <2>1, <2>2, <2>3
<1>5. \A q \in Ops : \A l : MergedAsApproved(q, l)' <=> MergedAsApproved(q, l)
  BY <1>0, <1>2 DEF MergedAsApproved
<1>6. \A q \in Ops : (Live(q)' <=> Live(q)) /\ (Singleton(q)' <=> Singleton(q))
  BY <1>2 DEF Live, Singleton
<1>7. Journaled'
  <2>1. Sole' /\ Stacked'
    BY <1>3 DEF Sole, Stacked
  <2>2. Unminted'
    <3>1. ~ (o > nops)
      BY <1>0 DEF Sound, Journaled, Unminted, NoOp
    <3> QED
      BY <1>2, <3>1 DEF Sound, Journaled, Unminted
  <2>3. Bottom'
    <3>1. ASSUME NEW l \in S, NEW k \in Layers, k < l PROVE k \in Covered \cup S
      BY <1>0, <3>1 DEF OnTop, o
    <3>2. Bottom
      BY DEF Sound, Journaled
    <3> QED
      BY <1>4, <3>1, <3>2 DEF Bottom
  <2>4. Verified'
    <3>1. Verified
      BY DEF Sound, Journaled
    <3>2. \A l \in S : MergedAsApproved(o, l)
      BY DEF o
    <3> QED
      BY <1>0, <1>2, <1>5, <3>1, <3>2 DEF Verified
  <2> QED
    BY <2>1, <2>2, <2>3, <2>4 DEF Journaled
<1>8. Merging'
  BY <1>2, ZenonT(60) DEF Sound, Merging
<1>9. Dying'
  BY <1>2, <1>6, ZenonT(60) DEF Sound, Dying
<1>10. Finished'
  <2>1. ASSUME NEW l \in plan \cup node PROVE l \in Covered \cup S
    <3>1. Earned(l)
      BY DEF Sound, Finished
    <3> QED
      BY <1>0, <3>1 DEF Earned, o
  <2> QED
    BY <1>4, <2>1 DEF Finished, Earned
<1>11. ClosedWithEvidence'
  <2>1. Covered' \subseteq Layers
    BY DEF Covered
  <2> QED
    BY <1>4, <2>1 DEF Sound, ClosedWithEvidence
<1>12. Works(me)'
  BY <1>3, <1>4 DEF Works, Placed, Sends, Tells, Finishes, Disproves, Acting, Sending, Recovering,
                    Reads, Classifying, Disproving, Earned
<1> QED
  BY <1>7, <1>8, <1>9, <1>10, <1>11, <1>12 DEF Sound, Working

\* The abandonment of an operation that merged nothing and is dead.
LEMMA AbandonmentSound ==
    ASSUME TypeOK, Sound, me.pc \in Reads, Disproves(me),
           \A l \in op[me.op].layers : Approved(me.op, l, me.seen[l]),
           op' = [op EXCEPT ![me.op].st = "abandoned"],
           UNCHANGED <<pr, cp, nops, job, merges, plan, node, objective, evidence>>,
           me'.pc \in {"idle", "converge"}
    PROVE  Sound'
<1> DEFINE o == me.op
<1>0. /\ o \in Ops /\ op[o].st = "prepared" /\ Unresolved = {o}
      /\ op \in [Ops -> OpSet] /\ plan \cup node \subseteq Layers
      /\ op[o].layers \subseteq Layers
  BY MyOperation, TypeParts DEF Acting, LogOK, FinalOK
<1>1. OpStep(o, [op[o] EXCEPT !.st = "abandoned"])
  BY <1>0, OpWritten
<1>2. /\ op'[o].st = "abandoned" /\ op'[o].layers = op[o].layers
      /\ op'[o].aged = op[o].aged
      /\ \A q \in Ops \ {o} : op'[q] = op[q]
  BY <1>0, <1>1 DEF OpStep, OpSet
<1>3. ~ Live(o)
  BY DEF Sound, Working, Works, Tells
<1>4. \A l \in op[o].layers : l \notin plan \cup node /\ l \notin merges[o]
  BY ApprovedIsOpen
<1>5. merges[o] = {}
  BY <1>0, <1>4 DEF Sound, Merging
<1> HIDE DEF o
<1>6. Unresolved' = {}
  BY <1>0, <1>2 DEF Unresolved
<1>7. Covered' = Covered
  BY <1>0, <1>2 DEF Covered
<1>8. \A q \in Ops : (Live(q)' <=> Live(q)) /\ (Singleton(q)' <=> Singleton(q))
  BY <1>2 DEF Live, Singleton
<1>9. Journaled'
  <2>1. Sole' /\ Stacked'
    BY <1>6 DEF Sole, Stacked
  <2>2. Unminted'
    <3>1. ~ (o > nops)
      BY <1>0 DEF Sound, Journaled, Unminted, NoOp
    <3> QED
      BY <1>2, <3>1 DEF Sound, Journaled, Unminted
  <2>3. Bottom'
    BY <1>7 DEF Sound, Journaled, Bottom
  <2>4. Verified'
    BY <1>2 DEF Sound, Journaled, Verified, MergedAsApproved
  <2> QED
    BY <2>1, <2>2, <2>3, <2>4 DEF Journaled
<1>10. Merging'
  BY <1>2 DEF Sound, Merging
<1>11. Dying'
  BY <1>2, <1>3, <1>5, <1>8 DEF Sound, Dying
<1>12. Finished'
  <2>1. ASSUME NEW l \in plan \cup node PROVE l \in Covered
    <3>1. Earned(l)
      BY DEF Sound, Finished
    <3> QED
      BY <1>0, <1>4, <3>1 DEF Earned
  <2> QED
    BY <1>7, <2>1 DEF Finished, Earned
<1>13. ClosedWithEvidence'
  BY <1>7 DEF Sound, ClosedWithEvidence
<1>14. Works(me)'
  BY DEF Works, Placed, Sends, Tells, Finishes, Disproves, Acting, Sending, Recovering, Reads,
         Classifying, Disproving
<1> QED
  BY <1>9, <1>10, <1>11, <1>12, <1>13, <1>14 DEF Sound, Working

LEMMA JournalSound ==
    ASSUME TypeOK, Sound, me.pc \in Reads,
           NEW S, S = op[me.op].layers,
           \A l \in S : MergedAsApproved(me.op, l), Journal(S),
           UNCHANGED <<pr, cp, nops, job, merges, backend>>
    PROVE  Sound'
<1>0. UNCHANGED <<pr, cp, nops, job, merges, plan, node, objective, evidence>>
  BY DEF backend
<1>1. CASE op' = op
  <2>1. (me'.pc = "finalize" /\ me'.todo = S /\ ~ me'.durable) \/ Sound'
    <3>1. CASE /\ op' = [op EXCEPT ![me.op].st = "completed", ![me.op].landed = S]
               /\ Step([Turn("finalize") EXCEPT !.todo = S])
      <4>1. me'.pc = "finalize" /\ me'.todo = S
        BY <3>1 DEF Step, Turn, Idle
      <4> QED
        BY <1>0, <3>1, <4>1, CompletionSound
    <3>2. CASE Step([Turn("finalize") EXCEPT !.todo = S, !.durable = FALSE])
      BY <3>2 DEF Step, Turn, Idle
    <3> QED
      BY <3>1, <3>2 DEF Journal
  <2>2. CASE me'.pc = "finalize" /\ me'.todo = S /\ ~ me'.durable
    <3>1. \A l \in S : Earned(l)
      BY MyOperation DEF Earned, Acting
    <3>2. Works(me')
      BY <2>2, <3>1 DEF Works, Placed, Sends, Tells, Finishes, Disproves, Acting, Sending,
                        Recovering, Reads, Classifying, Disproving
    <3> QED
      BY <1>0, <1>1, <3>2, SameWorld DEF world
  <2> QED
    BY <2>1, <2>2
<1>2. CASE op' # op
  <2>1. /\ op' = [op EXCEPT ![me.op].st = "completed", ![me.op].landed = S]
        /\ Step([Turn("finalize") EXCEPT !.todo = S])
    BY <1>2 DEF Journal
  <2>2. me'.pc = "finalize" /\ me'.todo = S
    BY <2>1 DEF Step, Turn, Idle
  <2> QED
    BY <1>0, <2>1, <2>2, CompletionSound
<1> QED
  BY <1>1, <1>2

\* Journaling the operation and sending its request.
LEMMA SendingSound ==
    ASSUME TypeOK, Sound, Prepare \/ Submit \/ Accept
    PROVE  Sound'
<1>0. /\ me \in MeSet /\ op \in [Ops -> OpSet] /\ job \in [Ops -> JobSet]
      /\ cp \in [Layers -> Heads] /\ Works(me) /\ plan \cup node \subseteq Layers
  BY TypeParts DEF MeOK, LogOK, RemoteOK, FinalOK, Sound, Working
<1>1. ASSUME Prepare PROVE Sound'
  <2> DEFINE o   == nops + 1
             new == [NoOp EXCEPT !.st = "prepared", !.layers = Layers \ me.landed, !.heads = cp]
  <2>1. /\ o \in Ops /\ op' = [op EXCEPT ![o] = new] /\ nops' = o
        /\ me' = [me EXCEPT !.pc = "submit", !.op = o]
        /\ Unresolved = {} /\ OnTop(Layers \ me.landed) /\ nops \in Nat
        /\ UNCHANGED <<pr, cp, job, merges, plan, node, objective, evidence>>
    BY <1>0, <1>1, TypeParts DEF Prepare, Step, Works, Placed, backend, LogOK
  <2>2. /\ op[o] = NoOp /\ job[o].st = "none" /\ merges[o] = {}
    BY <2>1 DEF Sound, Journaled, Unminted
  <2>3. /\ op'[o].st = "prepared" /\ op'[o].layers = Layers \ me.landed
        /\ op'[o].heads = cp /\ ~ op'[o].aged
        /\ \A q \in Ops \ {o} : op'[q] = op[q]
    BY <1>0, <2>1 DEF NoOp
  <2>4. me'.pc = "submit" /\ me'.op = o
    BY <1>0, <2>1 DEF MeSet
  <2>5. op[o].st = "none" /\ ~ Live(o) /\ nops < o
    BY <2>1, <2>2 DEF NoOp, Live
  <2> HIDE DEF o, new
  <2>6. Unresolved' = {o}
    BY <2>1, <2>3 DEF Unresolved
  <2>7. Covered' = Covered
    BY <2>1, <2>3, <2>5 DEF Covered
  <2>8. \A q \in Ops : Live(q)' <=> Live(q)
    BY <2>1 DEF Live
  <2>9. Journaled'
    <3>1. Sole'
      BY <2>6 DEF Sole
    <3>2. Unminted'
      <4>1. ASSUME NEW q \in Ops, q > nops' PROVE q # o /\ q > nops
        BY <2>1, <2>5, <4>1 DEF Ops
      <4> QED
        BY <2>1, <2>3, <4>1 DEF Sound, Journaled, Unminted
    <3>3. Stacked'
      BY <2>1, <2>3, <2>6, <2>7 DEF Stacked, OnTop
    <3>4. Bottom'
      BY <2>7 DEF Sound, Journaled, Bottom
    <3>5. Verified'
      BY <2>1, <2>3 DEF Sound, Journaled, Verified, MergedAsApproved
    <3> QED
      BY <3>1, <3>2, <3>3, <3>4, <3>5 DEF Journaled
  <2>10. Merging'
    BY <2>1, <2>2, <2>3 DEF Sound, Merging
  <2>11. Dying'
    BY <2>1, <2>2, <2>3, <2>5, <2>8 DEF Sound, Dying, Singleton
  <2>12. Finished' /\ ClosedWithEvidence'
    BY <2>1, <2>7 DEF Sound, Finished, Earned, ClosedWithEvidence
  <2>13. Works(me)'
    BY <2>1, <2>2, <2>3, <2>4 DEF Works, Placed, Sends, Tells, Finishes, Disproves, Acting,
         Sending, Recovering, Reads, Classifying, Disproving
  <2> QED
    BY <2>9, <2>10, <2>11, <2>12, <2>13 DEF Sound, Working
<1>2. ASSUME Submit PROVE Sound'
  <2> DEFINE o == me.op
  <2>1. /\ o \in Ops /\ op[o].st = "prepared" /\ ~ op[o].aged
        /\ me.try = 1 => job[o].st = "none"
        /\ me'.pc = "reply" /\ me'.op = o /\ me'.try = me.try
        /\ UNCHANGED <<pr, cp, op, nops, merges, plan, node, objective, evidence>>
    BY <1>0, <1>2, MyOperation DEF Submit, Works, Sends, Sending, Acting, Goto, MeSet, journal,
                                   backend
  <2>2. /\ \A q \in Ops \ {o} : job'[q] = job[q]
        /\ job'[o].st \in {"pending", "enqueued"} => job[o].st \in {"pending", "enqueued"}
        /\ job[o].st = "none" => job'[o].reply = "none"
    <3>1. CASE job' = [job EXCEPT ![o] = [st |-> "flying", reply |-> "none"]]
      BY <1>0, <2>1, <3>1
    <3>2. CASE job' = job /\ job[o].st = "flying"
      BY <3>2
    <3>3. ASSUME NEW r, job' = [job EXCEPT ![o].reply = r],
                 job[o].st \in {"pending", "enqueued", "merged"}
          PROVE  /\ \A q \in Ops \ {o} : job'[q] = job[q]
                 /\ job'[o].st = job[o].st
      <4>1. job'[o].st = job[o].st
        BY <1>0, <2>1, <3>3 DEF JobSet
      <4> QED
        BY <1>0, <2>1, <3>3, <4>1
    <3> QED
      BY <1>2, <3>1, <3>2, <3>3 DEF Submit
  <2>3. \A q \in Ops \ {o} : Live(q)' <=> Live(q)
    BY <2>2 DEF Live
  <2> HIDE DEF o
  <2>4. Unresolved' = Unresolved /\ Covered' = Covered /\ \A S : OnTop(S)' <=> OnTop(S)
    BY <2>1 DEF Unresolved, Covered, OnTop
  <2>5. Journaled'
    <3>1. Sole' /\ Bottom' /\ Stacked'
      BY <2>1, <2>4 DEF Sound, Journaled, Sole, Bottom, Stacked
    <3>2. Unminted'
      <4>1. ~ (o > nops)
        BY <2>1 DEF Sound, Journaled, Unminted, NoOp
      <4> QED
        BY <2>1, <2>2, <4>1 DEF Sound, Journaled, Unminted
    <3>3. Verified'
      BY <2>1 DEF Sound, Journaled, Verified, MergedAsApproved
    <3> QED
      BY <3>1, <3>2, <3>3 DEF Journaled
  <2>6. Merging'
    BY <2>1 DEF Sound, Merging
  <2>7. Dying'
    BY <2>1, <2>2, <2>3 DEF Sound, Dying, Singleton
  <2>8. Finished' /\ ClosedWithEvidence'
    BY <2>1, <2>4 DEF Sound, Finished, Earned, MergedAsApproved, ClosedWithEvidence
  <2>9. Works(me)'
    BY <2>1, <2>2 DEF Works, Placed, Sends, Tells, Finishes, Disproves, Acting, Sending,
         Recovering, Reads, Classifying, Disproving
  <2> QED
    BY <2>5, <2>6, <2>7, <2>8, <2>9 DEF Sound, Working
<1>3. ASSUME Accept PROVE Sound'
  <2>1. CASE Quit /\ op' = op
    BY <1>3, <2>1, Turns, SameWorld DEF Accept, world, backend
  <2>2. CASE op' = [op EXCEPT ![me.op].accepted = TRUE] /\ Goto("poll")
    <3> DEFINE o == me.op
    <3>1. /\ o \in Ops /\ op[o].st = "prepared" /\ ~ op[o].aged
          /\ me'.pc = "poll" /\ me'.op = o
          /\ UNCHANGED <<pr, cp, nops, job, merges, plan, node, objective, evidence>>
      BY <1>0, <1>3, <2>2, MyOperation DEF Accept, Works, Sends, Sending, Acting, Goto, MeSet,
                                           backend
    <3>2. OpStep(o, [op[o] EXCEPT !.accepted = TRUE])
      BY <1>0, <2>2, <3>1, OpWritten
    <3>3. \A q \in Ops : /\ op'[q].st = op[q].st /\ op'[q].layers = op[q].layers
                         /\ op'[q].heads = op[q].heads /\ op'[q].landed = op[q].landed
                         /\ op'[q].aged = op[q].aged
                         /\ op[q].st = "none" => op'[q] = op[q]
      <4> HIDE DEF o
      <4>1. op[o] \in OpSet
        BY <1>0, <3>1
      <4>2. ASSUME NEW q \in Ops PROVE q = o \/ op'[q] = op[q]
        BY <3>2, <4>2, Zenon DEF OpStep
      <4>3. op'[o] = [op[o] EXCEPT !.accepted = TRUE]
        BY <3>2 DEF OpStep
      <4>4. /\ op'[o].st = op[o].st /\ op'[o].layers = op[o].layers
            /\ op'[o].heads = op[o].heads /\ op'[o].landed = op[o].landed
            /\ op'[o].aged = op[o].aged
        BY <4>1, <4>3, OpKeeps, ZenonT(60)
      <4>5. op[o].st # "none"
        BY <3>1
      <4> QED
        BY <4>2, <4>4, <4>5, Zenon
    <3> HIDE DEF o
    <3>4. Unresolved' = Unresolved /\ Covered' = Covered /\ \A S : OnTop(S)' <=> OnTop(S)
      BY <3>1, <3>3 DEF Unresolved, Covered, OnTop
    <3>5. \A q \in Ops : (Live(q)' <=> Live(q)) /\ (Singleton(q)' <=> Singleton(q))
      BY <3>1, <3>3 DEF Live, Singleton
    <3>6. Journaled'
      <4>1. Sole' /\ Bottom'
        BY <3>4 DEF Sound, Journaled, Sole, Bottom
      <4>2. Stacked'
        BY <3>1, <3>3, <3>4 DEF Sound, Journaled, Stacked, Unresolved
      <4>3. Unminted'
        <5>1. \A q \in Ops : op[q] = NoOp => op[q].st = "none"
          BY DEF NoOp
        <5> QED
          BY <3>1, <3>3, <5>1 DEF Sound, Journaled, Unminted
      <4>4. Verified'
        BY <3>1, <3>3 DEF Sound, Journaled, Verified, MergedAsApproved
      <4> QED
        BY <4>1, <4>2, <4>3, <4>4 DEF Journaled
    <3>7. Merging' /\ Dying'
      BY <3>1, <3>3, <3>5 DEF Sound, Merging, Dying
    <3>8. Finished' /\ ClosedWithEvidence'
      BY <3>1, <3>3, <3>4 DEF Sound, Finished, Earned, MergedAsApproved, ClosedWithEvidence,
                              Unresolved
    <3>9. Works(me)'
      BY <3>1, <3>3 DEF Works, Placed, Sends, Tells, Finishes, Disproves, Acting, Sending,
           Recovering, Reads, Classifying, Disproving
    <3> QED
      BY <3>6, <3>7, <3>8, <3>9 DEF Sound, Working
  <2> QED
    BY <1>3, <2>1, <2>2 DEF Accept
<1> QED
  BY <1>1, <1>2, <1>3

\* A step on the plans, the nodes and the objective.
LEMMA BackendSound ==
    ASSUME Sound, UNCHANGED <<pr, cp, op, nops, job, merges>>,
           \A l \in plan' \cup node' : Earned(l),
           objective' = "closed" => Covered = Layers,
           \A e \in evidence' : e = Layers,
           me'.pc \in {"idle", "converge", "report", "finalize"},
           me'.pc = "report" \/ (me'.pc = "finalize" /\ me'.durable) => Unresolved = {},
           Finishes(me')
    PROVE  Sound'
<1>1. Unresolved' = Unresolved /\ Covered' = Covered /\ \A S : OnTop(S)' <=> OnTop(S)
  BY DEF Unresolved, Covered, OnTop
<1>2. /\ \A o, l : MergedAsApproved(o, l)' <=> MergedAsApproved(o, l)
      /\ \A o : (Live(o)' <=> Live(o)) /\ (Singleton(o)' <=> Singleton(o))
  BY DEF MergedAsApproved, Live, Singleton
<1>3. \A l : Earned(l)' <=> Earned(l)
  BY <1>1, <1>2 DEF Earned
<1>4. Journaled'
  BY <1>1, <1>2 DEF Sound, Journaled, Sole, Unminted, Stacked, Bottom, Verified
<1>5. Merging' /\ Dying'
  BY <1>1, <1>2 DEF Sound, Merging, Dying
<1>6. Finished' /\ ClosedWithEvidence'
  BY <1>1, <1>3 DEF Finished, ClosedWithEvidence
<1>7. Finishes(me)'
  BY <1>1, <1>3 DEF Finishes
<1>8. Placed(me)' /\ Sends(me)' /\ Tells(me)'
  BY <1>1 DEF Placed, Sends, Tells, Disproves, Acting, Sending, Recovering, Reads, Classifying,
              Disproving
<1> QED
  BY <1>4, <1>5, <1>6, <1>7, <1>8 DEF Sound, Working, Works

\* Finalizing, closing, reporting.
LEMMA FinishingSound ==
    ASSUME TypeOK, Sound,
           Complete \/ Close \/ Report \/ \E l \in Layers : Finalize(l)
    PROVE  Sound'
<1>0. /\ me \in MeSet /\ Works(me) /\ Finished /\ ClosedWithEvidence
  BY TypeParts DEF MeOK, Sound, Working
<1>1. node = Layers /\ Unresolved = {} => Covered = Layers
  <2>1. Covered \subseteq Layers
    BY DEF Covered
  <2> QED
    BY <1>0, <2>1 DEF Finished, Earned
<1>2. ASSUME Complete \/ Close PROVE Sound'
  <2>1. /\ Unresolved = {}
        /\ UNCHANGED <<pr, cp, op, nops, job, merges, plan, node, evidence>>
    BY <1>0, <1>2 DEF Complete, Close, Works, Placed, journal
  <2>2. objective' = objective \/ (objective' = "closed" /\ node = Layers)
    BY <1>2 DEF Complete, Close
  <2>3. /\ me'.pc \in {"idle", "converge", "report"}
        /\ me'.pc = "report" => node = Layers
    <3>1. Quit => me'.pc = "idle"
      BY DEF Quit, Idle
    <3>2. \A pc : Goto(pc) => me'.pc = pc
      BY <1>0 DEF Goto, MeSet
    <3> QED
      BY <1>2, <3>1, <3>2 DEF Complete, Close, Onward
  <2>4. Finishes(me')
    BY <1>1, <2>1, <2>3 DEF Finishes
  <2> QED
    BY <1>0, <1>1, <2>1, <2>2, <2>3, <2>4, BackendSound DEF Finished, ClosedWithEvidence
<1>3. ASSUME Report PROVE Sound'
  <2>1. Covered = Layers
    BY <1>0, <1>3 DEF Report, Works, Finishes
  <2>2. me'.pc \in {"idle", "converge"}
    <3>1. Quit => me'.pc = "idle"
      BY DEF Quit, Idle
    <3>2. Step([me EXCEPT !.pc = "converge", !.reported = TRUE]) => me'.pc = "converge"
      BY <1>0 DEF Step, MeSet
    <3> QED
      BY <1>3, <3>1, <3>2 DEF Report
  <2>3. UNCHANGED <<pr, cp, op, nops, job, merges, plan, node, objective>>
    BY <1>3 DEF Report, journal
  <2>4. \A e \in evidence' : e = Layers
    BY <1>0, <1>3, <2>1 DEF Report, ClosedWithEvidence
  <2>5. Finishes(me')
    BY <2>2 DEF Finishes
  <2> QED
    BY <1>0, <2>1, <2>2, <2>3, <2>4, <2>5, BackendSound DEF Finished
<1>4. ASSUME NEW l \in Layers, Finalize(l) PROVE Sound'
  <2>1. /\ me'.pc = "finalize" /\ me'.todo = me.todo \ {l} /\ me'.durable = me.durable
        /\ me.pc = "finalize" /\ l \in me.todo
    BY <1>0, <1>4 DEF Finalize, Step, MeSet
  <2>2. /\ UNCHANGED <<pr, cp, op, nops, job, merges, objective, evidence>>
        /\ plan' \subseteq plan \cup {l} /\ node' \subseteq node \cup {l}
    BY <1>4 DEF Finalize, journal
  <2>3. /\ me.durable => Unresolved = {}
        /\ \A k \in me.todo : Earned(k)
    BY <1>0, <2>1 DEF Works, Placed, Finishes
  <2>4. \A k \in plan' \cup node' : Earned(k)
    BY <1>0, <2>1, <2>2, <2>3 DEF Finished
  <2>5. Finishes(me')
    BY <2>1, <2>3 DEF Finishes
  <2> QED
    BY <1>0, <2>1, <2>2, <2>3, <2>4, <2>5, BackendSound DEF ClosedWithEvidence
<1> QED
  BY <1>2, <1>3, <1>4

\* Concluding the operation.
LEMMA ConcludingSound ==
    ASSUME TypeOK, Sound, AbandonOp \/ CompleteOp \/ Conclude \/ Reconclude
    PROVE  Sound'
<1>0. /\ me \in MeSet /\ me.pc \in Reads /\ me.pc \in Acting
      /\ UNCHANGED <<pr, cp, nops, job, merges, plan, node, objective, evidence>>
      /\ UNCHANGED <<pr, cp, nops, job, merges, backend>>
  BY TypeParts DEF MeOK, AbandonOp, CompleteOp, Conclude, Reconclude, Reads, Acting, Disproving,
                   Classifying, backend
<1>1. /\ me.op \in Ops /\ op[me.op].st = "prepared"
      /\ op[me.op].layers \in SUBSET Layers
  BY <1>0, MyOperation
<1>2. ASSUME op' = op, Works(me') PROVE Sound'
  BY <1>0, <1>2, SameWorld DEF world
<1>3. ASSUME AbandonOp PROVE Sound'
  <2>1. CASE \A l \in op[me.op].layers : Approved(me.op, l, me.seen[l])
    <3>1. op' = [op EXCEPT ![me.op].st = "abandoned"] /\ me'.pc = "idle"
      BY <1>3, <2>1 DEF AbandonOp, Quit, Idle
    <3>2. Disproves(me)
      BY <1>3 DEF AbandonOp, Disproves, Disproving
    <3> QED
      BY <1>0, <2>1, <3>1, <3>2, AbandonmentSound
  <2>2. CASE ~ \A l \in op[me.op].layers : Approved(me.op, l, me.seen[l])
    BY <1>2, <1>3, <2>2, Turns DEF AbandonOp
  <2> QED
    BY <2>1, <2>2
<1>4. ASSUME CompleteOp PROVE Sound'
  <2>1. CASE \A l \in op[me.op].layers : VerifiedMerge(me.op, l, me.seen[l])
    <3>1. \A l \in op[me.op].layers : MergedAsApproved(me.op, l)
      BY <1>0, <2>1, VerifiedIsMerged
    <3>2. Journal(op[me.op].layers)
      BY <1>4, <2>1 DEF CompleteOp
    <3> QED
      BY <1>0, <3>1, <3>2, JournalSound
  <2>2. CASE ~ \A l \in op[me.op].layers : VerifiedMerge(me.op, l, me.seen[l])
    BY <1>2, <1>4, <2>2, Turns DEF CompleteOp
  <2> QED
    BY <2>1, <2>2
<1>5. ASSUME Conclude PROVE Sound'
  <2>1. CASE Classification(me.op) = "all_after" /\ Journal(op[me.op].layers)
    <3>1. \A l \in op[me.op].layers : MergedAsApproved(me.op, l)
      BY <1>0, <2>1, Classified, RunIsMerged
    <3> QED
      BY <1>0, <2>1, <3>1, JournalSound
  <2>2. CASE op' = op /\ (Quit \/ Step(Turn("converge")))
    BY <1>2, <2>2, Turns
  <2>3. CASE op' = op /\ Step([me EXCEPT !.pc = "reprobe", !.prefix = MergedRun(me.op)])
    <3>1. me'.pc = "reprobe" /\ me'.op = me.op
      BY <1>0, <2>3 DEF Step, MeSet
    <3>2. \A o \in Ops : Singleton(o) => job[o].st # "flying"
      BY <1>5 DEF Conclude, Sound, Working, Works, Sends, Recovering, Classifying
    <3>3. Works(me')
      BY <1>1, <3>1, <3>2 DEF Works, Placed, Sends, Tells, Finishes, Disproves, Sending,
                              Recovering, Reads, Classifying, Disproving
    <3> QED
      BY <1>2, <2>3, <3>3
  <2> QED
    BY <1>5, <2>1, <2>2, <2>3 DEF Conclude
<1>6. ASSUME Reconclude PROVE Sound'
  <2>1. CASE /\ Classification(me.op) = "all_before" /\ Step(Turn("converge"))
             /\ op' = [op EXCEPT ![me.op].st = "abandoned"]
    <3>1. me'.pc = "converge"
      BY <2>1 DEF Step, Turn
    <3>2. /\ Disproves(me)
          /\ \A l \in op[me.op].layers : Approved(me.op, l, me.seen[l])
      BY <1>0, <1>6, <2>1, Classified DEF Reconclude, Disproves, Classifying
    <3> QED
      BY <1>0, <2>1, <3>1, <3>2, AbandonmentSound
  <2>2. CASE /\ Classification(me.op) = "external_prefix" /\ MergedRun(me.op) = me.prefix
             /\ op' = [op EXCEPT ![me.op].st = "completed", ![me.op].landed = me.prefix]
             /\ Step([Turn("finalize") EXCEPT !.todo = me.prefix])
    <3> DEFINE S == MergedRun(me.op)
    <3>1. /\ S \in SUBSET op[me.op].layers
          /\ \A l \in S : MergedAsApproved(me.op, l)
          /\ \A l \in S, k \in op[me.op].layers : k < l => k \in S
      BY <1>0, RunIsMerged
    <3>2. \A l \in op[me.op].layers \ S : l \notin plan \cup node
      BY <1>0, <2>2, Classified, ApprovedIsOpen
    <3>3. /\ op' = [op EXCEPT ![me.op].st = "completed", ![me.op].landed = S]
          /\ me'.pc = "finalize" /\ me'.todo = S
      BY <2>2 DEF Step, Turn, Idle
    <3> HIDE DEF S
    <3> QED
      BY <1>0, <3>1, <3>2, <3>3, CompletionSound
  <2>3. CASE op' = op /\ Quit
    BY <1>2, <2>3, Turns
  <2> QED
    BY <1>6, <2>1, <2>2, <2>3 DEF Reconclude
<1> QED
  BY <1>3, <1>4, <1>5, <1>6

-----------------------------------------------------------------------------
(* The theorems. *)

LEMMA NextSound ==
    ASSUME TypeOK, Sound, [Next]_vars
    PROVE  Sound'
<1>1. CASE UNCHANGED vars
  <2>1. UNCHANGED world /\ Works(me')
    BY <1>1 DEF vars, world, Sound, Working
  <2> QED
    BY <2>1, SameWorld
<1>2. CASE Work
  BY <1>2, DecidingSound, SendingSound, FinishingSound, ConcludingSound DEF Work
<1>3. CASE Crash \/ \E c \in Commands : Begin(c)
  BY <1>3, DecidingSound
<1>4. CASE Restack
  BY <1>4, RestackSound
<1>5. CASE \/ \E o \in Ops : Process(o) \/ JobMerge(o) \/ JobEnd(o)
           \/ Elapse \/ \E l \in Layers : Retarget(l) \/ Meddle(l)
  BY <1>5, OutsideDrifts, DriftSound
<1> QED
  BY <1>1, <1>2, <1>3, <1>4, <1>5 DEF Next

LEMMA InitSound == Init => Sound
<1> SUFFICES ASSUME Init PROVE Sound
  OBVIOUS
<1>1. /\ Unresolved = {} /\ Covered = {}
      /\ \A o \in Ops : op[o].st = "none" /\ op[o] = NoOp /\ merges[o] = {}
      /\ \A o \in Ops : job[o].st = "none" /\ ~ op[o].aged /\ ~ Live(o)
  BY DEF Init, NoOp, Unresolved, Covered, Live
<1>2. Journaled
  BY <1>1 DEF Journaled, Sole, Unminted, Stacked, Bottom, Verified
<1>3. Merging /\ Dying
  BY <1>1 DEF Merging, Dying
<1>4. Finished /\ ClosedWithEvidence
  BY DEF Init, Finished, ClosedWithEvidence
<1>5. Working
  BY AtRest DEF Init, Idle, Working
<1> QED
  BY <1>2, <1>3, <1>4, <1>5 DEF Sound

\* The inductive invariant, with the types it needs, holds of every behaviour,
\* for every number of layers, operations, out-of-band changes and faults.
THEOREM SpecSound == Spec => [](TypeOK /\ Sound)
<1>1. Init => TypeOK /\ Sound
  BY InitTypeOK, InitSound
<1>2. TypeOK /\ Sound /\ [Next]_vars => TypeOK' /\ Sound'
  BY NextTypeOK, NextSound
<1> QED
  BY <1>1, <1>2, PTL DEF Spec

\* Whatever is pushed, merged, closed or retargeted while a command runs, what a
\* completed LAND operation records as landed was merged at the head that was
\* approved, onto a base of the train, and the landed layers are a bottom prefix
\* of the stack (classify_land_record, _verify_and_finalize, _accept_prefix).
THEOREM LandsAsApproved == Spec => []LandedAsApproved
<1>1. Sound => LandedAsApproved
  <2> SUFFICES ASSUME Sound PROVE LandedAsApproved
    OBVIOUS
  <2>1. Verified /\ Bottom
    BY DEF Sound, Journaled
  <2>2. LandedIsPrefix
    BY <2>1, CoveredIsLanded DEF LandedIsPrefix, Bottom
  <2> QED
    BY <2>1, <2>2 DEF LandedAsApproved, Verified
<1> QED
  BY <1>1, SpecSound, PTL

\* A merge request whose operation was abandoned has merged nothing and is dead:
\* no lost handle, exhausted poll, crash or expiry lets a command abandon a
\* request that may still merge (_terminal_non_application, _abandon).
THEOREM AbandonedIsDead == Spec => []AbandonedNeverMerges
<1>1. Sound => AbandonedNeverMerges
  BY DEF Sound, Dying, AbandonedNeverMerges
<1> QED
  BY <1>1, SpecSound, PTL

\* The objective is closed only when completed operations cover every layer, and
\* no partial evidence is ever reported for it (state_aware_close,
\* _converge_finalization).
THEOREM ClosesWithEvidence == Spec => []ClosedWithEvidence
<1>1. Sound => ClosedWithEvidence
  BY DEF Sound
<1> QED
  BY <1>1, SpecSound, PTL

\* Every plan that is closed and every node that is marked done belongs to a
\* layer that a LAND operation approved and that was merged as it approved it,
\* also when its completion could not be journaled and the layer was finalized
\* all the same (finalize_landed_plan, _converge_finalization).
THEOREM FinalizesVerified == Spec => []FinalizedWasVerified
<1>1. TypeOK /\ Sound => FinalizedWasVerified
  <2> SUFFICES ASSUME TypeOK, Sound, NEW l \in plan \cup node
               PROVE  \E o \in Ops : /\ l \in op[o].layers
                                     /\ op[o].st \in {"prepared", "completed"}
                                     /\ MergedAsApproved(o, l)
    BY DEF FinalizedWasVerified
  <2>1. Earned(l) /\ Verified
    BY DEF Sound, Finished, Journaled
  <2>2. CASE l \in Covered
    BY <2>1, <2>2 DEF Covered, Verified
  <2>3. CASE \E o \in Unresolved : l \in op[o].layers /\ MergedAsApproved(o, l)
    BY <2>3 DEF Unresolved
  <2> QED
    BY <2>1, <2>2, <2>3 DEF Earned
<1> QED
  BY <1>1, SpecSound, PTL
=============================================================================
