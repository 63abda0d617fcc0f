------------------------- MODULE PublicationProofs -------------------------
(***************************************************************************)
(* Proofs about the publication of layers, for any number of commands at   *)
(* once, layers, operations, commits, out-of-band edits, crashes and       *)
(* failed calls: a checkpoint pair is true, and no republication           *)
(* overwrites a foreign commit.  No lock is assumed: what carries both     *)
(* results is what a command keeps from its own earlier reads, and that    *)
(* the records of the journal, once posted, change in their state only.    *)
(***************************************************************************)
EXTENDS Publication, WellFoundedInduction, TLAPS

\* The bounds of an instance.
Bounds == N \in Nat /\ MaxOps \in Nat /\ MaxLocal \in Nat /\ MaxEdits \in Nat

-----------------------------------------------------------------------------
(* Types. *)

Commits == Nat \X Nat
PrSet   == [st : {"none", "OPEN", "CLOSED", "MERGED"}, base : {"parent", "stale"}]
PairSet == [parent : Nat, head : Commits]
OpSet   == [st : {"none", "prepared", "completed", "abandoned", "both"}, layer : 0..N,
            before : Commits, after : Commits, pr : PrSet, stack : 0..N,
            republish : BOOLEAN]
\* Where a command stands: before its route is decided, on its way to a payload,
\* with a payload, at the effects of a record, and with a record to conclude.
Early     == {"idle", "train", "fold", "select"}
Starting  == {"observe", "republish", "parent"}
Preparing == {"payload", "gate", "prepare"}
Effecting == {"push", "create_pr", "converge_stack", "verify", "identity", "checkpoint",
              "outcome"}
Deciding  == {"complete", "resume", "contains", "retry", "effects", "consent", "disown",
              "abandon"}
PCs       == Early \cup Starting \cup Preparing \cup Effecting \cup Deciding
MeSet     == [pc : PCs, cmd : {"none", "submit", "abandon"}, layer : 0..N,
              route : {"none", "republish", "fresh", "refuse"}, named : BOOLEAN,
              below : BOOLEAN, again : BOOLEAN, op : 0..MaxOps, parent : Nat,
              before : Commits, cand : Commits, pr : PrSet, stack : 0..N]

Types == /\ ref \in [Layers -> Commits] /\ local \in [Layers -> Commits]
         /\ pr \in [Layers -> PrSet] /\ stack \in 0..N
         /\ header \subseteq Layers /\ cp \in [Layers -> PairSet]
         /\ op \in [Ops -> OpSet] /\ nops \in 0..MaxOps
         /\ made \in 0..MaxLocal /\ edits \in Nat
         /\ me \in [Procs -> MeSet]

-----------------------------------------------------------------------------
(* The inductive invariant. *)

\* What a command m may rely on: the layers below its own name their pull
\* requests from the moment its route is decided, its operation is journaled with
\* its layer and its candidate, the candidate contains the parent it will record,
\* and the head it leases to republish is its own.
Sound(m) ==
    /\ m.pc \notin {"idle", "select"} => m.layer \in Layers
    /\ m.pc \notin Early => 1..(m.layer - 1) \subseteq header
    /\ m.pc = "fold" /\ (m.below \/ m.route \in {"fresh", "republish"})
         => 1..(m.layer - 1) \subseteq header
    /\ m.pc \in Effecting \cup Deciding => m.op \in 1..nops /\ op[m.op].layer = m.layer
    /\ m.pc \in Effecting => op[m.op].after = m.cand
    /\ m.pc \in Preparing \cup Effecting => m.cand[2] = m.parent
    /\ m.pc \in {"checkpoint", "outcome"} => m.layer \in header
    /\ m.pc = "observe" => m.route = "fresh"
    /\ m.pc = "converge_stack" => m.layer > 1
    /\ m.route = "republish" => ~ Foreign(m.before)
    /\ ~ Foreign(m.cand)

Journal == \A o \in Ops : /\ op[o].st # "none" => o <= nops
                          /\ o <= nops => op[o].layer \in Layers
                          /\ ~ Foreign(op[o].after)
                          /\ op[o].republish => ~ Foreign(op[o].before)

TruePair(l) == /\ cp[l].head[2] = cp[l].parent
               /\ 1..l \subseteq header
               /\ \E o \in 1..nops : op[o].layer = l /\ op[o].after = cp[l].head
Pairs == \A l \in Layers : /\ ~ Foreign(local[l]) /\ ~ Foreign(cp[l].head)
                           /\ cp[l] # NoPair => TruePair(l)

Inv == /\ Types /\ Journal /\ Pairs /\ lost = {}
       /\ \A p \in Procs : Sound(me[p])

-----------------------------------------------------------------------------
LEMMA Constants ==
    ASSUME Bounds
    PROVE  /\ Absent \in Commits /\ NoPr \in PrSet /\ OpenPr \in PrSet /\ NoPair \in PairSet
           /\ NoOp \in OpSet /\ Idle \in MeSet
           /\ NoOp.st = "none" /\ NoOp.after = Absent /\ NoOp.republish = FALSE
           /\ NoPair.head = Absent /\ Idle.pc = "idle" /\ Idle.cand = Absent
           /\ Idle.route = "none" /\ ~ Foreign(Absent)
<1>1. Absent \in Commits /\ ~ Foreign(Absent)
  BY DEF Absent, Commits, Foreign, Bounds
<1>2. NoPr \in PrSet /\ OpenPr \in PrSet
  BY DEF NoPr, OpenPr, PrSet
<1>3. NoPair \in PairSet /\ NoPair.head = Absent
  BY <1>1 DEF NoPair, PairSet
<1>4. 0 \in 0..N /\ 0 \in 0..MaxOps
  BY DEF Bounds
<1>5. NoOp \in OpSet /\ NoOp.st = "none" /\ NoOp.after = Absent /\ NoOp.republish = FALSE
  BY <1>1, <1>2, <1>4 DEF NoOp, OpSet
<1>6. /\ Idle \in MeSet /\ Idle.pc = "idle" /\ Idle.cand = Absent /\ Idle.route = "none"
  BY <1>1, <1>2, <1>4 DEF Idle, MeSet, PCs, Early
<1> QED
  BY <1>1, <1>2, <1>3, <1>5, <1>6

\* Headers are only added, and a posted record keeps its layer and its candidate.
Steady == /\ header \subseteq header' /\ nops <= nops'
          /\ \A o \in 1..nops : op'[o].layer = op[o].layer /\ op'[o].after = op[o].after

\* So what a command relies on stays.
LEMMA SoundStays ==
    ASSUME NEW m, Sound(m), Steady, Types, Types'
    PROVE  Sound(m)'
<1>1. nops \in Nat /\ nops' \in Nat /\ nops <= nops'
  BY DEF Types, Steady
<1>2. m.op \in 1..nops => m.op \in 1..nops'
  BY <1>1
<1> QED
  BY <1>2 DEF Sound, Steady

LEMMA TruthStays ==
    ASSUME NEW l \in Layers, TruePair(l), Steady, Types, Types', cp'[l] = cp[l]
    PROVE  TruePair(l)'
<1>1. nops \in Nat /\ nops' \in Nat /\ nops <= nops'
  BY DEF Types, Steady
<1>2. PICK o \in 1..nops : op[o].layer = l /\ op[o].after = cp[l].head
  BY DEF TruePair
<1>3. o \in 1..nops' /\ op'[o].layer = l /\ op'[o].after = cp'[l].head
  BY <1>1, <1>2 DEF Steady
<1>4. cp'[l].head[2] = cp'[l].parent /\ 1..l \subseteq header'
  BY DEF TruePair, Steady
<1> QED
  BY <1>3, <1>4 DEF TruePair

\* A step that changes only what one command remembers.
LEMMA OwnStep ==
    ASSUME Bounds, Inv, NEW p \in Procs, NEW m \in MeSet, Sound(m),
           me' = [me EXCEPT ![p] = m],
           UNCHANGED <<remote, stored, journal, rest>>
    PROVE  Inv'
<1> USE DEF remote, stored, journal, rest
<1>1. Types'
  BY DEF Inv, Types, Layers, Ops
<1>2. Journal' /\ lost' = {}
  BY DEF Inv, Journal, Foreign, Ops, Layers
<1>3. Pairs'
  BY DEF Inv, Pairs, TruePair, Foreign, Layers, NoPair, Absent
<1>4. ASSUME NEW q \in Procs PROVE Sound(me[q])'
  <2>1. me'[q] = m \/ me'[q] = me[q]
    BY DEF Inv, Types
  <2>2. Sound(me'[q])
    BY <2>1 DEF Inv
  <2> QED
    BY <2>2 DEF Sound, Foreign
<1> QED
  BY <1>1, <1>2, <1>3, <1>4 DEF Inv

LEMMA IdleSound ==
    ASSUME Bounds
    PROVE  Sound(Idle)
  BY Constants DEF Sound, Early, Effecting, Deciding, Preparing

LEMMA QuitStep ==
    ASSUME Bounds, Inv, NEW p \in Procs, Quit(p), UNCHANGED <<remote, stored, journal, rest>>
    PROVE  Inv'
  BY IdleSound, Constants, OwnStep DEF Quit


\* A command at another step of the same operation.
LEMMA StepFields ==
    ASSUME NEW m \in MeSet, NEW pc \in PCs
    PROVE  LET n == [m EXCEPT !.pc = pc]
           IN  /\ n \in MeSet /\ n.pc = pc /\ n.layer = m.layer /\ n.route = m.route
               /\ n.below = m.below /\ n.op = m.op /\ n.parent = m.parent
               /\ n.before = m.before /\ n.cand = m.cand
  BY DEF MeSet

LEMMA GotoStep ==
    ASSUME Bounds, Inv, NEW p \in Procs, NEW pc \in PCs, Goto(p, pc),
           Sound([me[p] EXCEPT !.pc = pc]), UNCHANGED <<remote, stored, journal, rest>>
    PROVE  Inv'
<1>1. me[p] \in MeSet
  BY DEF Inv, Types
<1>2. [me[p] EXCEPT !.pc = pc] \in MeSet
  BY <1>1, StepFields
<1> QED
  BY <1>2, OwnStep DEF Goto

\* Steps among those of a payload, or of a record in hand, need no more than before.
LEMMA GoesOn ==
    ASSUME NEW m \in MeSet, Sound(m), NEW pc \in PCs, pc # "checkpoint", pc # "outcome",
           \/ m.pc \in Starting \cup Preparing /\ pc \in Starting \ {"observe"}
           \/ m.pc \in Preparing /\ pc \in Preparing
           \/ m.pc \in Effecting /\ pc \in Effecting \cup Deciding
           \/ m.pc \in Deciding /\ pc \in Deciding,
           pc = "converge_stack" => m.layer > 1
    PROVE  Sound([m EXCEPT !.pc = pc])
  BY StepFields DEF Sound, Early, Starting, Preparing, Effecting, Deciding, Foreign

-----------------------------------------------------------------------------
(* The steps that only read. *)

LEMMA BelowNamed ==
    ASSUME Bounds, NEW l \in Layers, Top(l) \/ Candidate(l)
    PROVE  1..(l - 1) \subseteq header
  BY DEF Top, Candidate, Published, Staged, Layers, Bounds

LEMMA ParentTyped ==
    ASSUME Bounds, Types, NEW l \in Layers
    PROVE  Parent(l) \in Nat
<1>1. CASE l = 1
  BY <1>1 DEF Parent
<1>2. CASE l # 1
  <2>1. l - 1 \in Layers
    BY <1>2 DEF Layers, Bounds
  <2>2. ref[l - 1] \in Nat \X Nat
    BY <2>1 DEF Types, Commits
  <2> QED
    BY <1>2, <2>2 DEF Parent
<1> QED
  BY <1>1, <1>2

LEMMA FirstPrepared ==
    ASSUME Unresolved # {}
    PROVE  First \in Ops /\ op[First].st = "prepared"
<1> DEFINE R == OpToRel(<, Nat)
<1>1. IsWellFoundedOn(R, Nat)
  BY NatLessThanWellFounded
<1>2. \A x, y \in Nat : <<x, y>> \in R <=> x < y
  BY DEF OpToRel
<1>3. Unresolved \subseteq Nat
  BY DEF Unresolved, Ops
<1> HIDE DEF R
<1>4. PICK o \in Unresolved : \A k \in Unresolved : ~ (<<k, o>> \in R)
  BY <1>1, <1>3, WFMin, Zenon
<1>5. ASSUME NEW k \in Unresolved PROVE o <= k
  <2>1. o \in Nat /\ k \in Nat /\ ~ (k < o)
    BY <1>2, <1>3, <1>4
  <2> QED
    BY <2>1
<1>6. First \in Unresolved
  BY <1>5 DEF First
<1> QED
  BY <1>6 DEF Unresolved

LEMMA BeginStep ==
    ASSUME Bounds, Inv, NEW p \in Procs, NEW c \in {"submit", "abandon"}, NEW l \in Layers,
           Begin(p, c, l)
    PROVE  Inv'
<1> DEFINE pc == IF c = "submit" THEN "train" ELSE "select"
           k  == IF c = "submit" THEN l ELSE 0
           m  == [Idle EXCEPT !.pc = pc, !.cmd = c, !.layer = k]
<1>1. pc \in {"train", "select"} /\ k \in 0..N /\ (pc = "train" => k \in Layers)
  BY DEF Layers, Bounds
<1>2. pc \in PCs
  BY DEF PCs, Early
<1> HIDE DEF pc, k
<1>3. /\ m \in MeSet /\ m.pc = pc /\ m.layer = k
      /\ m.cand = Absent /\ m.route = "none"
  BY <1>1, <1>2, Constants DEF MeSet
<1>4. Sound(m)
  BY <1>1, <1>3, Constants DEF Sound, Early, Effecting, Deciding, Preparing
<1>5. me' = [me EXCEPT ![p] = m] /\ UNCHANGED <<remote, stored, journal, rest>>
  BY DEF Begin, pc, k
<1> QED
  BY <1>3, <1>4, <1>5, OwnStep

LEMMA ReconstructStep ==
    ASSUME Bounds, Inv, NEW p \in Procs, Reconstruct(p)
    PROVE  Inv'
<1> DEFINE l == me[p].layer
           r == CASE Top(l) /\ ~ Blocked -> "republish"
                  [] Candidate(l) /\ ~ Blocked /\ Unresolved = {} -> "fresh"
                  [] OTHER -> "refuse"
           b == IF Top(l) /\ ~ Blocked THEN cp[l].head ELSE Absent
           m == [me[p] EXCEPT !.pc = "fold", !.named = l \in header,
                              !.below = 1..(l - 1) \subseteq header, !.route = r, !.before = b]
<1>1. UNCHANGED <<remote, stored, journal, rest>> /\ me[p].pc = "train"
  BY DEF Reconstruct, At
<1>2. me[p] \in MeSet /\ Sound(me[p]) /\ l \in Layers
  BY <1>1 DEF Inv, Types, Sound
<1>3. r \in {"republish", "fresh", "refuse"} /\ (r = "republish" => b = cp[l].head)
      /\ (r \in {"republish", "fresh"} => Top(l) \/ Candidate(l))
  OBVIOUS
<1>4. b \in Commits
  <2>1. cp[l].head \in Commits
    BY <1>2 DEF Inv, Types, PairSet
  <2> QED
    BY <2>1, Constants
<1>5. (l \in header) \in BOOLEAN /\ (1..(l - 1) \subseteq header) \in BOOLEAN
  OBVIOUS
<1> HIDE DEF r, b
<1>6. m \in MeSet /\ m.pc = "fold" /\ m.layer = l /\ m.route = r /\ m.before = b
      /\ m.cand = me[p].cand /\ m.below = (1..(l - 1) \subseteq header)
  BY <1>2, <1>3, <1>4, <1>5 DEF MeSet, PCs, Early
<1>7. r = "republish" => ~ Foreign(b)
  BY <1>2, <1>3 DEF Inv, Pairs
<1>8. Sound(m)
  <2>1. r \in {"republish", "fresh"} => 1..(l - 1) \subseteq header
    BY <1>2, <1>3, BelowNamed
  <2> QED
    BY <1>2, <1>6, <1>7, <2>1 DEF Sound, Early, Effecting, Deciding, Preparing, Foreign
<1>9. Quit(p) \/ me' = [me EXCEPT ![p] = m]
  BY <1>2 DEF Reconstruct, r, b
<1> QED
  BY <1>1, <1>6, <1>8, <1>9, OwnStep, QuitStep

LEMMA FoldStep ==
    ASSUME Bounds, Inv, NEW p \in Procs, Fold(p)
    PROVE  Inv'
<1> DEFINE l == me[p].layer
           m == [me[p] EXCEPT !.pc = "resume", !.op = First, !.route = "none",
                              !.before = Absent]
<1>1. UNCHANGED <<remote, stored, journal, rest>> /\ me[p].pc = "fold"
  BY DEF Fold, At
<1>2. me[p] \in MeSet /\ Sound(me[p]) /\ l \in Layers
  BY <1>1 DEF Inv, Types, Sound
<1>3. ASSUME Unresolved # {}, op[First].layer = l, me[p].below, me' = [me EXCEPT ![p] = m]
      PROVE  Inv'
  <2>1. First \in Ops /\ op[First].st = "prepared"
    BY <1>3, FirstPrepared
  <2>2. First \in 1..nops /\ First \in 0..MaxOps
    BY <2>1 DEF Inv, Journal, Types, Ops, Bounds
  <2>3. /\ m \in MeSet /\ m.pc = "resume" /\ m.op = First /\ m.layer = l
        /\ m.route = "none" /\ m.cand = me[p].cand
    BY <1>2, <2>2, Constants DEF MeSet, PCs, Deciding
  <2>4. Sound(m)
    BY <1>1, <1>2, <1>3, <2>2, <2>3 DEF Sound, Early, Effecting, Deciding, Preparing, Foreign
  <2> QED
    BY <1>1, <1>3, <2>3, <2>4, OwnStep
<1>4. ASSUME me[p].route = "republish", Goto(p, "republish")
      PROVE  Inv'
  <2>1. Sound([me[p] EXCEPT !.pc = "republish"])
    BY <1>1, <1>2, <1>4, StepFields
       DEF Sound, PCs, Early, Starting, Effecting, Deciding, Preparing, Foreign
  <2> QED
    BY <1>1, <1>4, <2>1, GotoStep DEF PCs, Starting
<1>5. ASSUME me[p].route = "fresh", Goto(p, "observe")
      PROVE  Inv'
  <2>1. Sound([me[p] EXCEPT !.pc = "observe"])
    BY <1>1, <1>2, <1>5, StepFields
       DEF Sound, PCs, Early, Starting, Effecting, Deciding, Preparing, Foreign
  <2> QED
    BY <1>1, <1>5, <2>1, GotoStep DEF PCs, Starting
<1>6. \/ Quit(p)
      \/ Unresolved # {} /\ op[First].layer = l /\ me[p].below /\ me' = [me EXCEPT ![p] = m]
      \/ me[p].route = "republish" /\ Goto(p, "republish")
      \/ me[p].route = "fresh" /\ Goto(p, "observe")
  BY <1>2 DEF Fold
<1> QED
  BY <1>1, <1>3, <1>4, <1>5, <1>6, QuitStep

LEMMA ObserveStep ==
    ASSUME Bounds, Inv, NEW p \in Procs, Observe(p)
    PROVE  Inv'
<1> DEFINE m == [me[p] EXCEPT !.pc = "parent", !.before = ref[me[p].layer]]
<1>1. UNCHANGED <<remote, stored, journal, rest>> /\ me[p].pc = "observe"
      /\ me' = [me EXCEPT ![p] = [me[p] EXCEPT !.pc = "parent", !.before = ref[me[p].layer]]]
  BY DEF Observe, At, Inv, Types
<1>2. me[p] \in MeSet /\ Sound(me[p]) /\ me[p].layer \in Layers
  BY <1>1 DEF Inv, Types, Sound
<1>3. ref[me[p].layer] \in Commits /\ "parent" \in PCs
  BY <1>2 DEF Inv, Types, PCs, Starting
<1>4. /\ m \in MeSet /\ m.pc = "parent" /\ m.layer = me[p].layer
      /\ m.route = me[p].route /\ m.cand = me[p].cand
  BY <1>2, <1>3 DEF MeSet
<1>5. Sound(m)
  BY <1>1, <1>2, <1>4 DEF Sound, Early, Starting, Effecting, Deciding, Preparing, Foreign
<1> QED
  BY <1>1, <1>4, <1>5, OwnStep

LEMMA CheckParentStep ==
    ASSUME Bounds, Inv, NEW p \in Procs, CheckParent(p)
    PROVE  Inv'
<1> DEFINE l  == me[p].layer
           c  == IF me[p].pc = "parent" THEN local[l] ELSE op[me[p].op].after
           pc == CASE me[p].pc = "parent" -> "payload"
                   [] me[p].pc = "retry" -> "push"
                   [] OTHER -> "create_pr"
           m  == [me[p] EXCEPT !.parent = Parent(l), !.cand = c, !.pc = pc]
<1>1. UNCHANGED <<remote, stored, journal, rest>> /\ me[p].pc \in {"parent", "contains", "retry"}
  BY DEF CheckParent
<1>2. me[p] \in MeSet /\ Sound(me[p]) /\ l \in Layers
  BY <1>1 DEF Inv, Types, Sound
<1>3. me[p].pc # "parent" => me[p].op \in 1..nops /\ me[p].op \in Ops /\ op[me[p].op].layer = l
  BY <1>1, <1>2 DEF Sound, Deciding, Inv, Types, Ops, Bounds
<1>4. c \in Commits /\ ~ Foreign(c)
  BY <1>2, <1>3 DEF Inv, Types, OpSet, Journal, Pairs, Foreign
<1>5. /\ pc \in {"payload", "push", "create_pr"} /\ pc \in PCs
      /\ (pc = "payload") = (me[p].pc = "parent")
  BY <1>1 DEF PCs, Preparing, Effecting
<1>6. Parent(l) \in Nat
  BY <1>2, ParentTyped DEF Inv
<1>7. me[p].pc # "parent" => c = op[me[p].op].after
  OBVIOUS
<1>8. Quit(p) \/ (c[2] = Parent(l) /\ me' = [me EXCEPT ![p] = m])
  BY <1>1, <1>2 DEF CheckParent, At
<1> HIDE DEF c, pc
<1>9. /\ m \in MeSet /\ m.pc = pc /\ m.layer = l /\ m.op = me[p].op /\ m.parent = Parent(l)
      /\ m.cand = c /\ m.route = me[p].route /\ m.before = me[p].before
  BY <1>2, <1>4, <1>5, <1>6 DEF MeSet
<1>10. c[2] = Parent(l) => Sound(m)
  BY <1>1, <1>2, <1>3, <1>4, <1>5, <1>7, <1>9
     DEF Sound, Early, Starting, Effecting, Deciding, Preparing, Foreign
<1> QED
  BY <1>1, <1>8, <1>9, <1>10, OwnStep, QuitStep

LEMMA PayloadStep ==
    ASSUME Bounds, Inv, NEW p \in Procs, Payload(p)
    PROVE  Inv'
<1> DEFINE l == me[p].layer
           b == IF me[p].named THEN pr[l] ELSE NoPr
           s == IF l > 1 THEN stack ELSE 0
           m == [me[p] EXCEPT !.pc = "gate", !.pr = b, !.stack = s]
<1>1. UNCHANGED <<remote, stored, journal, rest>> /\ me[p].pc = "payload"
  BY DEF Payload, At
<1>2. me[p] \in MeSet /\ Sound(me[p]) /\ l \in Layers
  BY <1>1 DEF Inv, Types, Sound
<1>3. me' = [me EXCEPT ![p] = m]
  BY <1>2 DEF Payload
<1>4. b \in PrSet /\ s \in 0..N /\ "gate" \in PCs
  BY <1>2, Constants DEF Inv, Types, PCs, Preparing, Bounds
<1> HIDE DEF b, s
<1>5. /\ m \in MeSet /\ m.pc = "gate" /\ m.layer = l /\ m.parent = me[p].parent
      /\ m.cand = me[p].cand /\ m.route = me[p].route /\ m.before = me[p].before
  BY <1>2, <1>4 DEF MeSet
<1>6. Sound(m)
  BY <1>1, <1>2, <1>5
     DEF Sound, Early, Starting, Effecting, Deciding, Preparing, Foreign
<1> QED
  BY <1>1, <1>3, <1>5, <1>6, OwnStep

\* Steps that go on or give up.
LEMMA Advance ==
    ASSUME Bounds, Inv, NEW p \in Procs, NEW pc \in PCs, Goto(p, pc),
           pc # "checkpoint", pc # "outcome", me[p].pc # "observe",
           \/ me[p].pc \in Starting \cup Preparing /\ pc \in Starting \ {"observe"}
           \/ me[p].pc \in Preparing /\ pc \in Preparing
           \/ me[p].pc \in Effecting /\ pc \in Effecting \cup Deciding
           \/ me[p].pc \in Deciding /\ pc \in Deciding,
           pc = "converge_stack" => me[p].layer > 1,
           UNCHANGED <<remote, stored, journal, rest>>
    PROVE  Inv'
<1>1. me[p] \in MeSet /\ Sound(me[p])
  BY DEF Inv, Types
<1>2. Sound([me[p] EXCEPT !.pc = pc])
  BY <1>1, GoesOn
<1> QED
  BY <1>2, GotoStep

LEMMA ReadingSteps ==
    ASSUME Bounds, Inv, NEW p \in Procs,
           \/ Republish(p) \/ Gate(p) \/ Verify(p) \/ Outcome(p) \/ Resume(p) \/ Disown(p)
    PROVE  Inv'
<1> USE DEF At
<1>0. UNCHANGED <<remote, stored, journal, rest>>
  BY DEF Republish, Gate, Verify, Outcome, Resume, Disown
<1>1. CASE Republish(p)
  <2>1. me[p].pc = "republish" /\ (Quit(p) \/ Goto(p, "parent"))
    BY <1>1 DEF Republish
  <2> QED
    BY <1>0, <2>1, Advance, QuitStep DEF PCs, Starting
<1>2. CASE Gate(p)
  <2>1. me[p].pc = "gate" /\ (Quit(p) \/ Goto(p, "prepare"))
    BY <1>2 DEF Gate
  <2> QED
    BY <1>0, <2>1, Advance, QuitStep DEF PCs, Preparing
<1>3. CASE Verify(p)
  <2>1. me[p].pc = "verify" /\ (Quit(p) \/ Goto(p, "identity"))
    BY <1>3 DEF Verify
  <2> QED
    BY <1>0, <2>1, Advance, QuitStep DEF PCs, Effecting
<1>4. CASE Outcome(p)
  <2>1. me[p].pc = "outcome" /\ (Quit(p) \/ Goto(p, "complete"))
    BY <1>4 DEF Outcome
  <2> QED
    BY <1>0, <2>1, Advance, QuitStep DEF PCs, Effecting, Deciding
<1>5. CASE Resume(p)
  <2>1. me[p].pc = "resume" /\ (Quit(p) \/ Goto(p, "contains") \/ Goto(p, "effects"))
    BY <1>5 DEF Resume
  <2> QED
    BY <1>0, <2>1, Advance, QuitStep DEF PCs, Deciding
<1>6. CASE Disown(p)
  <2>1. me[p].pc = "disown" /\ (Quit(p) \/ Goto(p, "abandon"))
    BY <1>6 DEF Disown
  <2> QED
    BY <1>0, <2>1, Advance, QuitStep DEF PCs, Deciding
<1> QED
  BY <1>1, <1>2, <1>3, <1>4, <1>5, <1>6

LEMMA AllBeforeStep ==
    ASSUME Bounds, Inv, NEW p \in Procs, AllBefore(p)
    PROVE  Inv'
<1>1. UNCHANGED <<remote, stored, journal, rest>> /\ me[p].pc = "effects"
  BY DEF AllBefore, At
<1>2. Quit(p) \/ \E pc \in {"retry", "disown", "consent"} : Goto(p, pc)
  BY DEF AllBefore, Goto
<1>3. ASSUME NEW pc \in {"retry", "disown", "consent"}, Goto(p, pc) PROVE Inv'
  BY <1>1, <1>3, Advance DEF PCs, Deciding
<1> QED
  BY <1>1, <1>2, <1>3, QuitStep

LEMMA SelectStep ==
    ASSUME Bounds, Inv, NEW p \in Procs, Select(p)
    PROVE  Inv'
<1>1. UNCHANGED <<remote, stored, journal, rest>> /\ me[p].pc = "select"
  BY DEF Select, At
<1>2. me[p] \in MeSet /\ Sound(me[p])
  BY DEF Inv, Types
<1>3. ASSUME NEW o \in Unresolved, 1..(op[o].layer - 1) \subseteq header,
             me' = [me EXCEPT ![p].pc = "resume", ![p].op = o, ![p].layer = op[o].layer]
      PROVE  Inv'
  <2> DEFINE k == op[o].layer
             m == [me[p] EXCEPT !.pc = "resume", !.op = o, !.layer = k]
  <2>1. o \in Ops /\ op[o].st = "prepared" /\ op[o] \in OpSet
    BY DEF Unresolved, Inv, Types
  <2>2. o \in 1..nops /\ o \in 0..MaxOps
    BY <2>1 DEF Inv, Journal, Types, Ops, Bounds
  <2>3. k \in Layers /\ k \in 0..N
    BY <2>1, <2>2 DEF Inv, Journal, OpSet
  <2>4. me' = [me EXCEPT ![p] = m]
    BY <1>2, <1>3
  <2> HIDE DEF k
  <2>5. /\ m \in MeSet /\ m.pc = "resume" /\ m.op = o /\ m.layer = k
        /\ m.route = me[p].route /\ m.before = me[p].before /\ m.cand = me[p].cand
    BY <1>2, <2>2, <2>3 DEF MeSet, PCs, Deciding
  <2>6. Sound(m)
    BY <1>1, <1>2, <1>3, <2>2, <2>3, <2>5
       DEF Sound, Early, Starting, Effecting, Deciding, Preparing, Foreign, k
  <2> QED
    BY <1>1, <2>4, <2>5, <2>6, OwnStep
<1> QED
  BY <1>1, <1>3, QuitStep DEF Select

LEMMA ConsentStep ==
    ASSUME Bounds, Inv, NEW p \in Procs, Consent(p)
    PROVE  Inv'
<1> DEFINE m == [me[p] EXCEPT !.pc = "resume", !.again = TRUE]
<1>1. UNCHANGED <<remote, stored, journal, rest>> /\ me[p].pc = "consent"
  BY DEF Consent, At
<1>2. me[p] \in MeSet /\ Sound(me[p])
  BY DEF Inv, Types
<1>3. me' = [me EXCEPT ![p] = m]
  BY <1>2 DEF Consent
<1>4. /\ m \in MeSet /\ m.pc = "resume" /\ m.op = me[p].op /\ m.layer = me[p].layer
      /\ m.route = me[p].route /\ m.before = me[p].before /\ m.cand = me[p].cand
  BY <1>2 DEF MeSet, PCs, Deciding
<1>5. Sound(m)
  BY <1>1, <1>2, <1>4
     DEF Sound, Early, Starting, Effecting, Deciding, Preparing, Foreign
<1> QED
  BY <1>1, <1>3, <1>4, <1>5, OwnStep

-----------------------------------------------------------------------------
(* The steps that change the remote. *)

\* They disturb types only: no pair and no record depends on what the remote shows.
LEMMA RemoteStep ==
    ASSUME Bounds, Inv, Types', UNCHANGED <<lost, stored, op, nops, local>>,
           \A q \in Procs : me'[q] = me[q] \/ Sound(me'[q])
    PROVE  Inv'
<1> USE DEF stored
<1>1. Journal' /\ lost' = {}
  BY DEF Inv, Journal, Foreign, Ops, Layers
<1>2. Pairs'
  BY DEF Inv, Pairs, TruePair, Foreign, Layers, NoPair, Absent
<1>3. ASSUME NEW q \in Procs PROVE Sound(me[q])'
  <2>1. Sound(me'[q])
    BY DEF Inv
  <2> QED
    BY <2>1 DEF Sound, Foreign, Layers
<1> QED
  BY <1>1, <1>2, <1>3 DEF Inv

\* The command that does it goes on to a step pc, or gives up.
LEMMA MeGoes ==
    ASSUME Bounds, Inv, NEW p \in Procs, NEW pc \in Effecting \ {"checkpoint", "outcome"},
           me[p].pc \in Effecting, pc = "converge_stack" => me[p].layer > 1,
           Quit(p) \/ Goto(p, pc)
    PROVE  /\ me' \in [Procs -> MeSet]
           /\ \A q \in Procs : me'[q] = me[q] \/ Sound(me'[q])
<1>1. me \in [Procs -> MeSet] /\ me[p] \in MeSet /\ Sound(me[p]) /\ pc \in PCs
  BY DEF Inv, Types, PCs
<1>2. Sound([me[p] EXCEPT !.pc = pc]) /\ [me[p] EXCEPT !.pc = pc] \in MeSet
  BY <1>1, GoesOn, StepFields
<1>3. CASE Goto(p, pc)
  BY <1>1, <1>2, <1>3 DEF Goto
<1>4. CASE Quit(p)
  BY <1>1, <1>4, IdleSound, Constants DEF Quit
<1> QED
  BY <1>3, <1>4

LEMMA PushStep ==
    ASSUME Bounds, Inv, NEW p \in Procs, Push(p)
    PROVE  Inv'
<1> DEFINE l == me[p].layer
           o == me[p].op
<1>1. /\ UNCHANGED <<pr, stack, stored, op, nops, rest>> /\ me[p].pc = "push"
      /\ Quit(p) \/ Goto(p, "create_pr")
  BY DEF Push, At
<1>2. l \in Layers /\ o \in Ops
  <2>1. Sound(me[p]) /\ me[p].pc \in Effecting
    BY <1>1 DEF Inv, Effecting
  <2>2. l \in Layers /\ o \in 1..nops
    BY <1>1, <2>1 DEF Sound
  <2> QED
    BY <2>2 DEF Inv, Types, Ops, Bounds
<1>3. me' \in [Procs -> MeSet] /\ \A q \in Procs : me'[q] = me[q] \/ Sound(me'[q])
  <2>1. "push" \in Effecting /\ "create_pr" \in Effecting \ {"checkpoint", "outcome"}
        /\ "create_pr" # "converge_stack"
    BY DEF Effecting
  <2> QED
    BY <1>1, <2>1, MeGoes
<1>4. ref' \in [Layers -> Commits]
  <2>1. ref' = ref \/ ref' = [ref EXCEPT ![l] = local[l]]
    BY DEF Push
  <2>2. local[l] \in Commits
    BY <1>2 DEF Inv, Types
  <2> QED
    BY <2>1, <2>2 DEF Inv, Types
<1>5. lost' = lost
  <2>1. op[o].republish => ~ Foreign(op[o].before)
    BY <1>2 DEF Inv, Journal
  <2>2. ASSUME ref[l] = op[o].before, op[o].republish PROVE ~ Foreign(ref[l])
    BY <2>1, <2>2 DEF Foreign
  <2> QED
    BY <2>2 DEF Push
<1>6. Types'
  BY <1>1, <1>3, <1>4 DEF Inv, Types, stored, rest, Layers, Ops
<1> QED
  BY <1>1, <1>3, <1>5, <1>6, RemoteStep DEF rest

LEMMA CreatePrStep ==
    ASSUME Bounds, Inv, NEW p \in Procs, CreatePr(p)
    PROVE  Inv'
<1>1. UNCHANGED <<ref, stack, lost, stored, journal, rest>> /\ me[p].pc = "create_pr"
  BY DEF CreatePr, At
<1>2. me[p].layer \in Layers
  BY <1>1 DEF Inv, Sound
<1>3. \E pc \in {"verify", "converge_stack"} :
         /\ pc = "converge_stack" => me[p].layer > 1
         /\ Quit(p) \/ Goto(p, pc)
  <2>1. CASE me[p].layer = 1
    <3>1. Quit(p) \/ Goto(p, "verify")
      BY <2>1 DEF CreatePr
    <3> QED
      BY <3>1
  <2>2. CASE me[p].layer # 1
    <3>1. Quit(p) \/ Goto(p, "converge_stack")
      BY <2>2 DEF CreatePr
    <3>2. me[p].layer > 1
      BY <1>2, <2>2 DEF Layers, Bounds
    <3> QED
      BY <3>1, <3>2
  <2> QED
    BY <2>1, <2>2
<1>4. me' \in [Procs -> MeSet] /\ \A q \in Procs : me'[q] = me[q] \/ Sound(me'[q])
  BY <1>1, <1>3, MeGoes DEF Effecting
<1>5. pr' \in [Layers -> PrSet]
  BY Constants DEF CreatePr, Inv, Types
<1>6. Types'
  BY <1>1, <1>4, <1>5 DEF Inv, Types, stored, journal, rest, Layers, Ops
<1> QED
  BY <1>1, <1>4, <1>6, RemoteStep DEF journal, rest

LEMMA ConvergeStackStep ==
    ASSUME Bounds, Inv, NEW p \in Procs, ConvergeStack(p)
    PROVE  Inv'
<1>1. /\ UNCHANGED <<ref, pr, lost, stored, journal, rest>> /\ me[p].pc = "converge_stack"
      /\ Quit(p) \/ Goto(p, "verify")
  BY DEF ConvergeStack, At
<1>2. me[p].layer \in Layers
  BY <1>1 DEF Inv, Sound
<1>3. me' \in [Procs -> MeSet] /\ \A q \in Procs : me'[q] = me[q] \/ Sound(me'[q])
  <2>1. Quit(p) \/ Goto(p, "verify")
    BY <1>1
  <2> QED
    BY <1>1, <2>1, MeGoes DEF Effecting
<1>4. stack' \in 0..N
  BY <1>2 DEF ConvergeStack, Inv, Types, Layers, Bounds
<1>5. Types'
  BY <1>1, <1>3, <1>4 DEF Inv, Types, stored, journal, rest, Layers, Ops
<1> QED
  BY <1>1, <1>3, <1>5, RemoteStep DEF journal, rest

LEMMA MeddleStep ==
    ASSUME Bounds, Inv, NEW l \in Layers, Meddle(l)
    PROVE  Inv'
<1>1. UNCHANGED <<stack, lost, stored, journal, local, made, me>> /\ edits' = edits + 1
  BY DEF Meddle
<1>2. ref' \in [Layers -> Commits]
  <2>1. <<MaxLocal + edits + 1, Parent(l)>> \in Commits
    BY ParentTyped DEF Inv, Types, Bounds, Commits
  <2>2. \A o \in Ops : op[o].before \in Commits
    BY DEF Inv, Types, OpSet
  <2> QED
    BY <2>1, <2>2 DEF Meddle, Inv, Types
<1>3. pr' \in [Layers -> PrSet]
  <2>1. pr[l] \in PrSet
    BY DEF Inv, Types
  <2>2. \A s \in {"CLOSED", "MERGED"} : [pr[l] EXCEPT !.st = s] \in PrSet
    BY <2>1 DEF PrSet
  <2>3. [pr[l] EXCEPT !.base = "stale"] \in PrSet
    BY <2>1 DEF PrSet
  <2>4. \/ UNCHANGED pr
        \/ \E c \in {[pr[l] EXCEPT !.st = "CLOSED"], [pr[l] EXCEPT !.st = "MERGED"],
                     [pr[l] EXCEPT !.base = "stale"]} : pr' = [pr EXCEPT ![l] = c]
    BY DEF Meddle
  <2> QED
    BY <2>2, <2>3, <2>4 DEF Inv, Types
<1>4. Types'
  BY <1>1, <1>2, <1>3 DEF Inv, Types, stored, journal, Layers, Ops
<1> QED
  BY <1>1, <1>4, RemoteStep DEF journal

-----------------------------------------------------------------------------
(* The steps that change what is stored. *)

LEMMA CommitStep ==
    ASSUME Bounds, Inv, NEW l \in Layers, Commit(l)
    PROVE  Inv'
<1>1. /\ UNCHANGED <<remote, stored, journal, me, edits>> /\ made' = made + 1
      /\ local' = [local EXCEPT ![l] = <<made + 1, Parent(l)>>] /\ made < MaxLocal
  BY DEF Commit
<1>2. /\ <<made + 1, Parent(l)>> \in Commits /\ ~ Foreign(<<made + 1, Parent(l)>>)
      /\ made' \in 0..MaxLocal
  BY <1>1, ParentTyped DEF Inv, Types, Bounds, Commits, Foreign
<1>3. /\ local' \in [Layers -> Commits]
      /\ \A k \in Layers : local'[k] = local[k] \/ local'[k] = <<made + 1, Parent(l)>>
  BY <1>1, <1>2 DEF Inv, Types
<1> USE DEF remote, stored, journal
<1>4. Types'
  BY <1>1, <1>2, <1>3 DEF Inv, Types, Layers, Ops
<1>5. Journal' /\ lost' = {}
  BY <1>1 DEF Inv, Journal, Foreign, Ops, Layers
<1>6. Pairs'
  BY <1>1, <1>2, <1>3 DEF Inv, Pairs, TruePair, Foreign, Layers, NoPair, Absent
<1>7. \A q \in Procs : Sound(me[q])'
  BY <1>1 DEF Inv, Sound, Foreign, Layers
<1> QED
  BY <1>4, <1>5, <1>6, <1>7 DEF Inv

\* The commands go on relying on what stays.
LEMMA AllSound ==
    ASSUME Inv, Steady, Types', NEW p \in Procs, \A q \in Procs : q # p => me'[q] = me[q],
           Sound(me[p])'
    PROVE  \A q \in Procs : Sound(me[q])'
<1>1. ASSUME NEW q \in Procs, q # p PROVE Sound(me[q])'
  <2>1. Sound(me[q]) /\ me'[q] = me[q]
    BY <1>1 DEF Inv
  <2>2. ASSUME NEW m, Sound(m) PROVE Sound(m)'
    BY <2>2, SoundStays DEF Inv
  <2> QED
    BY <2>1, <2>2 DEF Sound, Foreign, Steady, Inv, Layers
<1> QED
  BY <1>1

LEMMA IdentityStep ==
    ASSUME Bounds, Inv, NEW p \in Procs, Identity(p)
    PROVE  Inv'
<1> DEFINE l == me[p].layer
           n == [me[p] EXCEPT !.pc = "checkpoint"]
<1>1. /\ UNCHANGED <<remote, cp, journal, rest>> /\ me[p].pc = "identity"
      /\ header' = header \cup {l} /\ Goto(p, "checkpoint")
  BY DEF Identity, At
<1>2. me[p] \in MeSet /\ Sound(me[p]) /\ l \in Layers
  BY <1>1 DEF Inv, Types, Sound
<1>3. me' = [me EXCEPT ![p] = n] /\ "checkpoint" \in PCs
  BY <1>1, <1>2 DEF Goto, PCs, Effecting
<1>4. /\ n \in MeSet /\ n.pc = "checkpoint" /\ n.layer = l /\ n.route = me[p].route
      /\ n.op = me[p].op /\ n.parent = me[p].parent
      /\ n.before = me[p].before /\ n.cand = me[p].cand
  BY <1>2, <1>3, StepFields
<1> HIDE DEF n
<1> PICK m \in MeSet : m = n
  BY <1>4
<1> USE DEF remote, journal, rest
<1>5. Types'
  BY <1>1, <1>2, <1>3, <1>4 DEF Inv, Types, Layers, Ops
<1>6. Steady
  BY <1>1 DEF Steady, Inv, Types
<1>7. Sound(m)'
  BY <1>1, <1>2, <1>4
     DEF Sound, Early, Starting, Effecting, Deciding, Preparing, Foreign, Layers
<1>8. \A q \in Procs : Sound(me[q])'
  <2>1. me'[p] = m /\ \A q \in Procs : q # p => me'[q] = me[q]
    BY <1>3 DEF Inv, Types
  <2>2. Sound(me[p])'
    BY <1>7, <2>1 DEF Sound, Foreign, Layers
  <2> QED
    BY <1>5, <1>6, <2>1, <2>2, AllSound
<1>9. Journal' /\ lost' = {}
  BY <1>1 DEF Inv, Journal, Foreign, Ops, Layers
<1>10. Pairs'
  BY <1>1 DEF Inv, Pairs, TruePair, Foreign, Layers, NoPair, Absent
<1> QED
  BY <1>5, <1>8, <1>9, <1>10 DEF Inv

LEMMA CheckpointStep ==
    ASSUME Bounds, Inv, NEW p \in Procs, Checkpoint(p)
    PROVE  Inv'
<1> DEFINE l == me[p].layer
           o == me[p].op
           m == [me[p] EXCEPT !.pc = "outcome"]
           pair == [parent |-> me[p].parent, head |-> me[p].cand]
<1>1. /\ UNCHANGED <<remote, header, journal, rest>> /\ me[p].pc = "checkpoint"
      /\ cp' = [cp EXCEPT ![l] = pair] /\ Goto(p, "outcome")
  BY DEF Checkpoint, At
<1>2. me[p] \in MeSet /\ Sound(me[p]) /\ l \in Layers
  BY <1>1 DEF Inv, Types, Sound
<1>3. /\ o \in 1..nops /\ op[o].layer = l /\ op[o].after = me[p].cand
      /\ 1..(l - 1) \subseteq header /\ l \in header
      /\ me[p].cand[2] = me[p].parent /\ ~ Foreign(me[p].cand)
  BY <1>1, <1>2 DEF Sound, Early, Effecting
<1>4. 1..l \subseteq header
  BY <1>2, <1>3 DEF Layers, Bounds
<1>5. pair \in PairSet /\ pair.head = me[p].cand /\ pair.parent = me[p].parent
  BY <1>2 DEF MeSet, PairSet
<1>6. me' = [me EXCEPT ![p] = m] /\ "outcome" \in PCs
  BY <1>1, <1>2 DEF Goto, PCs, Effecting
<1>7. /\ m \in MeSet /\ m.pc = "outcome" /\ m.layer = l /\ m.route = me[p].route
      /\ m.op = o /\ m.parent = me[p].parent
      /\ m.before = me[p].before /\ m.cand = me[p].cand
  BY <1>2, <1>6, StepFields
<1> HIDE DEF m, pair
<1> USE DEF remote, journal, rest
<1>8. Types'
  BY <1>1, <1>2, <1>5, <1>6, <1>7 DEF Inv, Types, Layers, Ops
<1>9. Sound(m)
  BY <1>1, <1>2, <1>3, <1>7
     DEF Sound, Early, Starting, Effecting, Deciding, Preparing, Foreign, Layers
<1>10. \A q \in Procs : Sound(me[q])'
  <2>1. \A q \in Procs : me'[q] = me[q] \/ me'[q] = m
    BY <1>6 DEF Inv, Types
  <2>2. ASSUME NEW q \in Procs PROVE Sound(me'[q])
    BY <1>9, <2>1 DEF Inv
  <2> QED
    BY <1>1, <2>2 DEF Sound, Foreign, Layers
<1>11. Journal' /\ lost' = {}
  BY <1>1 DEF Inv, Journal, Foreign, Ops, Layers
<1>12. Pairs'
  <2> SUFFICES ASSUME NEW k \in Layers
               PROVE  (/\ ~ Foreign(local[k]) /\ ~ Foreign(cp[k].head)
                       /\ cp[k] # NoPair => TruePair(k))'
    BY DEF Pairs, Layers
  <2>1. CASE k = l
    <3>1. cp'[l] = pair
      BY <1>1, <1>2 DEF Inv, Types
    <3>2. cp'[k] = pair /\ 1..k \subseteq header /\ op[o].layer = k
      BY <1>3, <1>4, <2>1, <3>1
    <3>3. TruePair(k)'
      BY <1>1, <1>3, <1>5, <3>2 DEF TruePair
    <3> QED
      BY <1>1, <1>3, <1>5, <3>2, <3>3 DEF Inv, Pairs, Foreign
  <2>2. CASE k # l
    <3>1. cp'[k] = cp[k]
      BY <1>1, <2>2 DEF Inv, Types
    <3> QED
      BY <1>1, <3>1 DEF Inv, Pairs, TruePair, Foreign, NoPair, Absent
  <2> QED
    BY <2>1, <2>2
<1> QED
  BY <1>8, <1>10, <1>11, <1>12 DEF Inv

LEMMA PrepareStep ==
    ASSUME Bounds, Inv, NEW p \in Procs, Prepare(p)
    PROVE  Inv'
<1> DEFINE l == me[p].layer
           o == nops + 1
           r == [st |-> "prepared", layer |-> l, before |-> me[p].before,
                 after |-> me[p].cand, pr |-> me[p].pr, stack |-> me[p].stack,
                 republish |-> me[p].route = "republish"]
           n == [me[p] EXCEPT !.pc = "push", !.op = o, !.pr = NoPr, !.stack = 0,
                              !.before = Absent, !.route = "none"]
<1>1. /\ UNCHANGED <<remote, stored, rest>> /\ me[p].pc = "prepare" /\ nops < MaxOps
      /\ op' = [op EXCEPT ![o] = r] /\ nops' = o
  BY DEF Prepare, At
<1>2. me[p] \in MeSet /\ Sound(me[p]) /\ l \in Layers
  BY <1>1 DEF Inv, Types, Sound
<1>3. o \in Ops /\ o \in 1..o /\ o \in 0..MaxOps
  BY <1>1 DEF Inv, Types, Ops, Bounds
<1>4. (me[p].route = "republish") \in BOOLEAN
  OBVIOUS
<1>5. /\ r \in OpSet /\ r.layer = l /\ r.before = me[p].before /\ r.after = me[p].cand
      /\ r.republish = (me[p].route = "republish")
  BY <1>2, <1>4 DEF MeSet, OpSet
<1>6. me' = [me EXCEPT ![p] = n]
  BY <1>2 DEF Prepare
<1>7. /\ n \in MeSet /\ n.pc = "push" /\ n.layer = l /\ n.route = "none"
      /\ n.op = o /\ n.parent = me[p].parent
      /\ n.before = Absent /\ n.cand = me[p].cand
  <2>1. "push" \in PCs /\ 0 \in 0..N /\ NoPr \in PrSet /\ Absent \in Commits
    BY Constants DEF PCs, Effecting, Bounds
  <2> HIDE DEF o
  <2> QED
    BY <1>2, <1>3, <2>1 DEF MeSet
<1> HIDE DEF n, r
<1> PICK m \in MeSet : m = n
  BY <1>7
<1> USE DEF remote, stored, rest
<1>8. op' \in [Ops -> OpSet] /\ op'[o] = r /\ \A k \in Ops : k # o => op'[k] = op[k]
  BY <1>1, <1>3, <1>5 DEF Inv, Types
<1>9. Types'
  BY <1>1, <1>3, <1>6, <1>7, <1>8 DEF Inv, Types, Layers, Ops
<1>10. Steady
  <2>1. \A k \in 1..nops : k \in Ops /\ k # o
    BY DEF Inv, Types, Ops, Bounds
  <2> QED
    BY <1>1, <1>8, <2>1 DEF Steady, Inv, Types
<1>11. \A q \in Procs : Sound(me[q])'
  <2>1. Sound(m)'
    <3>1. op'[m.op].layer = m.layer /\ op'[m.op].after = m.cand /\ m.op \in 1..nops'
      BY <1>1, <1>3, <1>5, <1>7, <1>8
    <3> QED
      BY <1>1, <1>2, <1>7, <3>1
         DEF Sound, Early, Starting, Effecting, Deciding, Preparing, Foreign, Layers
  <2>2. me'[p] = m /\ \A q \in Procs : q # p => me'[q] = me[q]
    BY <1>6 DEF Inv, Types
  <2>3. Sound(me[p])'
    BY <2>1, <2>2 DEF Sound, Foreign, Layers
  <2> QED
    BY <1>9, <1>10, <2>2, <2>3, AllSound
<1>12. Journal'
  <2> SUFFICES ASSUME NEW k \in Ops
               PROVE  (/\ op[k].st # "none" => k <= nops
                       /\ k <= nops => op[k].layer \in Layers
                       /\ ~ Foreign(op[k].after)
                       /\ op[k].republish => ~ Foreign(op[k].before))'
    BY DEF Journal, Ops
  <2>1. CASE k = o
    <3>1. op'[k] = r /\ k <= nops'
      BY <1>1, <1>3, <1>8, <2>1 DEF Inv, Types, Ops
    <3>2. ~ Foreign(me[p].cand) /\ (r.republish => ~ Foreign(me[p].before))
      BY <1>2, <1>5 DEF Sound
    <3> QED
      BY <1>2, <1>5, <3>1, <3>2 DEF Foreign, Layers
  <2>2. CASE k # o
    <3>1. op'[k] = op[k] /\ (k <= nops' => k <= nops) /\ (k <= nops => k <= nops')
      BY <1>1, <1>8, <2>2 DEF Inv, Types, Ops
    <3>2. /\ (op[k].st # "none" => k <= nops) /\ (k <= nops => op[k].layer \in Layers)
          /\ ~ Foreign(op[k].after) /\ (op[k].republish => ~ Foreign(op[k].before))
      BY DEF Inv, Journal
    <3> QED
      BY <3>1, <3>2 DEF Foreign, Layers
  <2> QED
    BY <2>1, <2>2
<1>13. Pairs'
  <2> SUFFICES ASSUME NEW k \in Layers
               PROVE  (/\ ~ Foreign(local[k]) /\ ~ Foreign(cp[k].head)
                       /\ cp[k] # NoPair => TruePair(k))'
    BY DEF Pairs, Layers
  <2>1. cp'[k] = cp[k] /\ local'[k] = local[k]
    BY <1>1
  <2>2. cp[k] # NoPair => TruePair(k)'
    BY <1>9, <1>10, <2>1, TruthStays DEF Inv, Pairs
  <2> QED
    BY <2>1, <2>2 DEF Inv, Pairs, Foreign, NoPair, Absent
<1> QED
  BY <1>1, <1>9, <1>11, <1>12, <1>13 DEF Inv

\* An outcome: a record keeps everything but its state.
LEMMA ConcludeStep ==
    ASSUME Bounds, Inv, NEW p \in Procs, NEW o \in 1..nops, NEW st \in {"completed", "abandoned"},
           Conclude(o, st), UNCHANGED <<remote, stored, rest>>,
           NEW m \in MeSet, me' = [me EXCEPT ![p] = m], m.pc \in Early, m.pc # "fold",
           m.pc = "train" => m.layer \in Layers,
           m.route = "none", ~ Foreign(m.cand)
    PROVE  Inv'
<1> USE DEF remote, stored, rest
<1>1. o \in Ops
  BY DEF Inv, Types, Ops, Bounds
<1> DEFINE s == IF op[o].st = "prepared" THEN st ELSE "both"
<1>2. op[o] \in OpSet /\ op' = [op EXCEPT ![o] = [op[o] EXCEPT !.st = s]] /\ nops' = nops
  BY <1>1 DEF Conclude, Inv, Types
<1>3. s \in {"completed", "abandoned", "both"}
  OBVIOUS
<1> HIDE DEF s
<1>4. LET n == [op[o] EXCEPT !.st = s]
      IN  /\ n \in OpSet /\ n.st = s /\ n.layer = op[o].layer /\ n.before = op[o].before
          /\ n.after = op[o].after /\ n.republish = op[o].republish
  BY <1>2, <1>3 DEF OpSet
<1>5. /\ op' \in [Ops -> OpSet]
      /\ \A k \in Ops : /\ op'[k].layer = op[k].layer /\ op'[k].before = op[k].before
                        /\ op'[k].after = op[k].after /\ op'[k].republish = op[k].republish
                        /\ k # o => op'[k] = op[k]
  BY <1>1, <1>2, <1>4 DEF Inv, Types
<1>6. Types'
  BY <1>2, <1>5 DEF Inv, Types, Layers, Ops
<1>7. Steady
  <2>1. \A k \in 1..nops : k \in Ops
    BY DEF Inv, Types, Ops, Bounds
  <2> QED
    BY <1>2, <1>5, <2>1 DEF Steady, Inv, Types
<1>8. \A q \in Procs : Sound(me[q])'
  <2>1. me'[p] = m /\ \A q \in Procs : q # p => me'[q] = me[q]
    BY DEF Inv, Types
  <2>2. Sound(m)'
    BY DEF Sound, Early, Starting, Effecting, Deciding, Preparing, Foreign, Layers
  <2>3. Sound(me[p])'
    BY <2>1, <2>2 DEF Sound, Foreign, Layers
  <2> QED
    BY <1>6, <1>7, <2>1, <2>3, AllSound
<1>9. Journal'
  <2> SUFFICES ASSUME NEW k \in Ops
               PROVE  (/\ op[k].st # "none" => k <= nops
                       /\ k <= nops => op[k].layer \in Layers
                       /\ ~ Foreign(op[k].after)
                       /\ op[k].republish => ~ Foreign(op[k].before))'
    BY DEF Journal, Ops
  <2>1. /\ (op[k].st # "none" => k <= nops) /\ (k <= nops => op[k].layer \in Layers)
        /\ ~ Foreign(op[k].after) /\ (op[k].republish => ~ Foreign(op[k].before))
    BY DEF Inv, Journal
  <2>2. CASE k = o
    <3>1. k <= nops /\ op[k].layer \in Layers
      BY <2>1, <2>2 DEF Inv, Types
    <3>2. /\ op'[k].layer = op[k].layer /\ op'[k].after = op[k].after
          /\ op'[k].republish = op[k].republish /\ op'[k].before = op[k].before
      BY <1>5
    <3> QED
      BY <1>2, <2>1, <3>1, <3>2 DEF Foreign, Layers
  <2>3. CASE k # o
    BY <1>2, <1>5, <2>1, <2>3 DEF Foreign, Layers
  <2> QED
    BY <2>2, <2>3
<1>10. Pairs'
  <2> SUFFICES ASSUME NEW k \in Layers
               PROVE  (/\ ~ Foreign(local[k]) /\ ~ Foreign(cp[k].head)
                       /\ cp[k] # NoPair => TruePair(k))'
    BY DEF Pairs, Layers
  <2>1. cp[k] # NoPair => TruePair(k)'
    BY <1>6, <1>7, TruthStays DEF Inv, Pairs
  <2> QED
    BY <2>1 DEF Inv, Pairs, Foreign, NoPair, Absent
<1> QED
  BY <1>6, <1>8, <1>9, <1>10 DEF Inv

LEMMA CompleteStep ==
    ASSUME Bounds, Inv, NEW p \in Procs, Complete(p)
    PROVE  Inv'
<1>1. /\ me[p].pc = "complete" /\ Conclude(me[p].op, "completed")
      /\ me' = [me EXCEPT ![p] = Idle] /\ UNCHANGED <<remote, stored, rest>>
  BY DEF Complete, At, Quit
<1>2. me[p].op \in 1..nops
  BY <1>1 DEF Inv, Sound, Deciding
<1>3. Idle.pc \in Early /\ Idle.pc # "fold" /\ Idle.pc # "train"
  BY Constants DEF Early
<1>4. Idle \in MeSet /\ Idle.route = "none" /\ ~ Foreign(Idle.cand)
  BY Constants
<1>5. PICK o \in 1..nops : o = me[p].op
  BY <1>2
<1>6. Conclude(o, "completed")
  BY <1>1, <1>5 DEF Conclude
<1> QED
  BY <1>1, <1>3, <1>4, <1>6, ConcludeStep

LEMMA AbandonStep ==
    ASSUME Bounds, Inv, NEW p \in Procs, Abandon(p)
    PROVE  Inv'
<1> DEFINE m == [Idle EXCEPT !.pc = "train", !.cmd = "submit",
                             !.layer = me[p].layer, !.again = TRUE]
<1>1. /\ me[p].pc = "abandon" /\ Conclude(me[p].op, "abandoned")
      /\ UNCHANGED <<remote, stored, rest>>
      /\ Quit(p) \/ me' = [me EXCEPT ![p] = m]
  BY DEF Abandon, At
<1>2. me[p].op \in 1..nops /\ me[p].layer \in Layers
  BY <1>1 DEF Inv, Sound, Deciding
<1>3. Idle.pc \in Early /\ Idle.pc # "fold" /\ Idle.pc # "train"
  BY Constants DEF Early
<1>4. Idle \in MeSet /\ Idle.route = "none" /\ ~ Foreign(Idle.cand)
  BY Constants
<1>5. PICK o \in 1..nops : o = me[p].op
  BY <1>2
<1>6. Conclude(o, "abandoned")
  BY <1>1, <1>5 DEF Conclude
<1>7. CASE Quit(p)
  BY <1>1, <1>3, <1>4, <1>6, <1>7, ConcludeStep DEF Quit
<1>8. CASE me' = [me EXCEPT ![p] = m]
  <2>1. PICK k \in Layers : k = me[p].layer
    BY <1>2
  <2>2. k \in 0..N /\ "train" \in PCs
    BY DEF Layers, Bounds, PCs, Early
  <2>3. /\ m \in MeSet /\ m.pc = "train" /\ m.layer = k /\ m.route = "none"
        /\ m.cand = Idle.cand
    BY <1>4, <2>1, <2>2 DEF MeSet
  <2>4. m.pc \in Early /\ m.pc # "fold" /\ m.layer \in Layers /\ ~ Foreign(m.cand)
    BY <1>4, <2>3 DEF Early, Foreign
  <2> HIDE DEF m
  <2>5. PICK n \in MeSet : n = m
    BY <2>3
  <2> QED
    BY <1>1, <1>6, <1>8, <2>3, <2>4, <2>5, ConcludeStep
<1> QED
  BY <1>1, <1>7, <1>8

-----------------------------------------------------------------------------
(* The theorems. *)

LEMMA InitInv ==
    ASSUME Bounds, Init
    PROVE  Inv
<1>1. Types
  BY Constants DEF Init, Types, Bounds
<1>2. Journal
  <2>1. \A o \in Ops : op[o] = NoOp
    BY DEF Init
  <2>2. nops = 0 /\ \A o \in Ops : ~ (o <= nops)
    BY DEF Init, Ops
  <2> QED
    BY <2>1, <2>2, Constants DEF Journal, Foreign
<1>3. Pairs
  BY Constants DEF Init, Pairs, Foreign
<1>4. \A p \in Procs : Sound(me[p])
  BY IdleSound DEF Init
<1> QED
  BY <1>1, <1>2, <1>3, <1>4 DEF Inv, Init

LEMMA NextInv ==
    ASSUME Bounds, Inv, [Next]_vars
    PROVE  Inv'
<1>1. CASE UNCHANGED vars
  <2>1. UNCHANGED <<ref, local, pr, stack, header, cp, op, nops, made, me, lost, edits>>
    BY <1>1 DEF vars
  <2>2. Types'
    BY <2>1 DEF Inv, Types, Layers, Ops
  <2> QED
    BY <2>1, <2>2, RemoteStep DEF stored
<1>2. ASSUME NEW l \in Layers, Commit(l) \/ Meddle(l) PROVE Inv'
  BY <1>2, CommitStep, MeddleStep
<1>3. ASSUME NEW p \in Procs, Crash(p) PROVE Inv'
  BY <1>3, QuitStep DEF Crash
<1>4. ASSUME NEW p \in Procs, Work(p) PROVE Inv'
  <2>1. CASE Reconstruct(p) \/ Fold(p) \/ Observe(p) \/ CheckParent(p) \/ Payload(p)
             \/ AllBefore(p) \/ Select(p) \/ Consent(p)
    BY <2>1, ReconstructStep, FoldStep, ObserveStep, CheckParentStep, PayloadStep,
       AllBeforeStep, SelectStep, ConsentStep
  <2>2. CASE Republish(p) \/ Gate(p) \/ Verify(p) \/ Outcome(p) \/ Resume(p) \/ Disown(p)
    BY <2>2, ReadingSteps
  <2>3. CASE Prepare(p) \/ Push(p) \/ CreatePr(p) \/ ConvergeStack(p) \/ Identity(p)
             \/ Checkpoint(p) \/ Complete(p) \/ Abandon(p)
    BY <2>3, PrepareStep, PushStep, CreatePrStep, ConvergeStackStep, IdentityStep,
       CheckpointStep, CompleteStep, AbandonStep
  <2> QED
    BY <1>4, <2>1, <2>2, <2>3 DEF Work
<1>5. ASSUME NEW p \in Procs, NEW l \in Layers, NEW c \in {"submit", "abandon"}, Begin(p, c, l)
      PROVE  Inv'
  BY <1>5, BeginStep
<1> QED
  BY <1>1, <1>2, <1>3, <1>4, <1>5 DEF Next

LEMMA Always ==
    ASSUME Bounds
    PROVE  Spec => []Inv
<1>1. Init => Inv
  BY InitInv
<1>2. Inv /\ [Next]_vars => Inv'
  BY NextInv
<1> QED
  BY <1>1, <1>2, PTL DEF Spec

\* Branches, pull requests, headers, pairs and journal keep their types.
THEOREM PublicationTyped ==
    ASSUME Bounds
    PROVE  Spec => []TypeOK
<1>1. Inv => TypeOK
  BY DEF Inv, Types, TypeOK, Commits, PrSet, PairSet
<1> QED
  BY <1>1, Always, PTL

\* Whatever overlaps, every checkpoint pair is true: its head contains its parent,
\* was journaled, and the layers up to it name their pull requests.  A command
\* writes what it checked before its record, which keeps its layer and candidate
\* whoever concludes it; headers are never withdrawn.
THEOREM PairsAreTrue ==
    ASSUME Bounds
    PROVE  Spec => []CheckpointsAreTrue
<1>1. Inv => CheckpointsAreTrue
  BY DEF Inv, Pairs, TruePair, CheckpointsAreTrue
<1> QED
  BY <1>1, Always, PTL

\* Whatever overlaps, and whoever pushes the record in the end, no republication
\* overwrites a foreign commit: the lease of its record is a checkpoint, and no
\* checkpoint is foreign.
THEOREM NoForeignCommitLost ==
    ASSUME Bounds
    PROVE  Spec => []ForeignCommitsSurvive
<1>1. Inv => ForeignCommitsSurvive
  BY DEF Inv, ForeignCommitsSurvive
<1> QED
  BY <1>1, Always, PTL

=============================================================================
