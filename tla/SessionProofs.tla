---------------------------- MODULE SessionProofs ----------------------------
(***************************************************************************)
(* Theorems about what the sessions of one project contend for: the nodes  *)
(* and plans of an objective (Planning), for every set of nodes and        *)
(* dependencies and every number of sessions, saves, resets, lost answers  *)
(* and crashes; the objective store over Linear projects (LinearStore),    *)
(* for every number of node operations, changes by hand and crashes; the   *)
(* owner lock of a durable store (OwnerLock), for every set of processes,  *)
(* every relation of who can see whose death, and every number of          *)
(* acquisitions; the report a learn-dream session saves (DreamReport), for *)
(* every number of parts, saves, lost answers and edits; and the node      *)
(* refinements kept as comments (Refinement), for every number of nodes,   *)
(* sessions, contexts, comments, late writes and edits.                    *)
(***************************************************************************)
EXTENDS Planning, SequenceTheorems, WellFoundedInduction, TLAPS

\* Node ids and run ids are not the None of a link and of a human's issue.
Names == Nodes \subseteq Nat \ {0} /\ 0 \notin Runs /\ Page \in Nat

Stats == {"pending", "planning", "in_progress", "done", "skipped"}
Road  == [Nodes -> [st : Stats, pr : Nat]]
Steps == {"idle", "mark", "find", "adopt", "rewrite", "post", "link", "finalize", "land",
          "complete", "reset"}

Issue   == [run : Runs \cup {0}, open : BOOLEAN, notes : Seq(Nat), last : Nat]
Session == [pc : Steps, node : Nodes \cup {0}, adopt : BOOLEAN, cur : Nat,
            snap : Road \cup {<<>>}, seen : Road \cup {<<>>}, ver : Nat]

Fields ==
    /\ road \in Road /\ closed \in BOOLEAN
    /\ issues \in Seq(Issue) /\ me \in [Runs -> Session]
    /\ earned \subseteq Nodes /\ nver \in Nat

-----------------------------------------------------------------------------
(* The inductive invariant. *)

\* What a session holds at each step.  An adopter works on the human's issue only.
Holding(r) ==
    /\ me[r].adopt => me[r].pc \in {"idle", "adopt", "rewrite", "finalize", "reset"} /\ me[r].cur = 1
    /\ ~ me[r].adopt /\ me[r].pc \notin {"idle", "finalize", "reset"} =>
         me[r].node # 0 /\ me[r].pc # "adopt"
    /\ me[r].pc \in {"rewrite", "post", "link", "finalize"} => me[r].cur # 0
    /\ me[r].snap # <<>> => me[r].pc \in {"mark", "link", "land", "reset"}
    /\ me[r].pc \in {"land", "complete"} => me[r].seen \in Road

\* Backlinks and issues in use exist.
Linked == /\ 1 \in DOMAIN issues
          /\ \A n \in Nodes : road[n].pr <= Len(issues)
          /\ \A r \in Runs : /\ me[r].cur <= Len(issues)
                             /\ me[r].snap # <<>> => \A n \in Nodes : me[r].snap[n].pr <= Len(issues)

\* The human's issue belongs to an adopter, every other to a session that has a
\* node and adopted none.
Owned == /\ issues[1].run = 0 \/ me[issues[1].run].adopt
         /\ \A i \in DOMAIN issues : i # 1 =>
              /\ issues[i].run # 0 /\ ~ me[issues[i].run].adopt /\ me[issues[i].run].node # 0

\* Whatever roadmap is stored or was read, its terminal nodes have been earned.
Terminals(b) == {n \in Nodes : b[n].st \in Terminal}
Earned ==
    /\ Terminals(road) \subseteq earned
    /\ \A r \in Runs : /\ me[r].snap # <<>> => Terminals(me[r].snap) \subseteq earned
                       /\ me[r].pc \in {"land", "complete"} => Terminals(me[r].seen) \subseteq earned
                       /\ me[r].pc = "complete" => me[r].node \in earned

Inv == /\ Fields /\ \A r \in Runs : Holding(r)
       /\ Linked /\ Owned /\ Earned /\ OnePlanPerRun /\ ClosedWasEarned

-----------------------------------------------------------------------------
(* Smallest members, and what the steps of one session leave alone. *)

LEMMA SmallestMember ==
    ASSUME NEW S, S \subseteq Nat, S # {}
    PROVE  Min(S) \in S
<1> DEFINE R == OpToRel(<, Nat)
<1>1. IsWellFoundedOn(R, Nat)
  BY NatLessThanWellFounded
<1>2. \A x, y \in Nat : <<x, y>> \in R <=> x < y
  BY DEF OpToRel
<1> HIDE DEF R
<1>3. PICK l \in S : \A k \in S : ~ (<<k, l>> \in R)
  BY <1>1, WFMin, Zenon
<1>4. ASSUME NEW k \in S PROVE l <= k
  <2>1. l \in Nat /\ k \in Nat /\ ~ (<<k, l>> \in R)
    BY <1>3
  <2>2. ~ (k < l)
    BY <1>2, <2>1
  <2> QED
    BY <2>1, <2>2
<1>5. \E x \in S : \A y \in S : x <= y
  BY <1>4
<1> QED
  BY <1>5 DEF Min

LEMMA IdleSession == ASSUME Names PROVE Idle \in Session /\ Idle.node = 0 /\ ~ Idle.adopt
BY DEF Idle, Session, Steps

\* What a session r that writes nothing shared may become.
MayBecome(r, m) ==
    /\ m.adopt => m.pc \in {"idle", "adopt", "rewrite", "finalize", "reset"} /\ m.cur = 1
    /\ ~ m.adopt /\ m.pc \notin {"idle", "finalize", "reset"} =>
         m.node # 0 /\ m.pc # "adopt"
    /\ m.pc \in {"rewrite", "post", "link", "finalize"} => m.cur # 0
    /\ m.snap # <<>> => m.pc \in {"mark", "link", "land", "reset"}
    /\ m.adopt = me[r].adopt \/ me[r] = Idle
    /\ me[r].node # 0 => m.node # 0
    /\ m.snap \in {me[r].snap, road, <<>>}
    /\ m.pc \in {"land", "complete"} =>
         m.seen = road \/ (m.seen = me[r].seen /\ me[r].pc \in {"land", "complete"})
    /\ m.pc = "complete" => m.node \in earned

LEMMA ClosingStep ==
    ASSUME Names, Inv, NEW r \in Runs, UNCHANGED <<road, earned>>,
           closed' \in BOOLEAN, ClosedWasEarned',
           nver' \in Nat, NEW m \in Session, me' = [me EXCEPT ![r] = m], MayBecome(r, m),
           issues' \in Seq(Issue), Len(issues') >= Len(issues), m.cur <= Len(issues'),
           Owned', OnePlanPerRun'
    PROVE  Inv'
<1> USE DEF MayBecome
<1>1. me'[r] = m /\ (\A q \in Runs : q # r => me'[q] = me[q]) /\ me' \in [Runs -> Session]
  BY DEF Inv, Fields
<1>2. Fields'
  BY <1>1 DEF Inv, Fields
<1>3. \A q \in Runs : Holding(q)'
  <2>1. me[r].pc \in {"land", "complete"} => me[r].seen \in Road
    BY DEF Inv, Holding
  <2> QED
    BY <1>1, <2>1 DEF Inv, Holding, Fields
<1>4. Linked'
  <2>1. Len(issues) \in Nat /\ Len(issues') \in Nat /\ DOMAIN issues = 1..Len(issues)
        /\ DOMAIN issues' = 1..Len(issues')
    BY DEF Inv, Fields
  <2>2. \A n \in Nodes : road[n].pr \in Nat /\ road[n].pr <= Len(issues)
    BY DEF Inv, Linked, Fields, Road
  <2>3. \A q \in Runs : /\ me[q].cur \in Nat /\ me[q].cur <= Len(issues)
                        /\ me[q].snap # <<>> => \A n \in Nodes : me[q].snap[n].pr \in Nat
                                                     /\ me[q].snap[n].pr <= Len(issues)
    BY DEF Inv, Linked, Fields, Session, Road
  <2>4. 1 \in DOMAIN issues'
    BY <2>1 DEF Inv, Linked
  <2>5. \A n \in Nodes : road'[n].pr <= Len(issues')
    BY <2>1, <2>2
  <2>6. m.snap # <<>> => \A n \in Nodes : m.snap[n].pr <= Len(issues')
    BY <2>1, <2>2, <2>3
  <2>7. \A q \in Runs : /\ me'[q].cur <= Len(issues')
                        /\ me'[q].snap # <<>> => \A n \in Nodes : me'[q].snap[n].pr <= Len(issues')
    BY <1>1, <2>1, <2>3, <2>6
  <2> QED
    BY <2>4, <2>5, <2>7 DEF Linked
<1>5. Earned'
  <2>1. m.snap # <<>> => Terminals(m.snap) \subseteq earned
    BY DEF Inv, Earned
  <2>2. m.pc \in {"land", "complete"} => Terminals(m.seen) \subseteq earned
    BY DEF Inv, Earned
  <2> QED
    BY <1>1, <2>1, <2>2 DEF Inv, Earned, Terminals
<1> QED
  BY <1>2, <1>3, <1>4, <1>5 DEF Inv

LEMMA SharedStep ==
    ASSUME Names, Inv, NEW r \in Runs, UNCHANGED <<road, closed, earned>>,
           nver' \in Nat, NEW m \in Session, me' = [me EXCEPT ![r] = m], MayBecome(r, m),
           issues' \in Seq(Issue), Len(issues') >= Len(issues), m.cur <= Len(issues'),
           Owned', OnePlanPerRun'
    PROVE  Inv'
<1>1. closed' \in BOOLEAN /\ ClosedWasEarned'
  BY DEF Inv, Fields, ClosedWasEarned
<1> QED
  BY <1>1, ClosingStep

\* A session that becomes m owns no more and no less than before.
LEMMA OwnedStays ==
    ASSUME Names, Inv, NEW r \in Runs, NEW m \in Session, me' = [me EXCEPT ![r] = m],
           MayBecome(r, m)
    PROVE  /\ \A q \in Runs : me[q].adopt => me'[q].adopt
           /\ \A q \in Runs : me[q].node # 0 /\ ~ me[q].adopt => me'[q].node # 0 /\ ~ me'[q].adopt
<1>1. me'[r] = m /\ (\A q \in Runs : q # r => me'[q] = me[q])
  BY DEF Inv, Fields
<1> QED
  BY <1>1, IdleSession DEF MayBecome

LEMMA SessionStep ==
    ASSUME Names, Inv, NEW r \in Runs, UNCHANGED <<road, closed, issues, earned>>,
           nver' \in Nat, NEW m \in Session, me' = [me EXCEPT ![r] = m], MayBecome(r, m),
           m.cur \in {me[r].cur, 1} \cup DOMAIN issues
    PROVE  Inv'
<1>1. Owned'
  <2>1. \A i \in DOMAIN issues : issues[i].run \in Runs \cup {0}
    <3>1. \A i \in DOMAIN issues : issues[i] \in Issue
      BY DEF Inv, Fields
    <3> QED
      BY <3>1 DEF Issue
  <2> QED
    BY <2>1, OwnedStays DEF Inv, Owned, Linked
<1>2. OnePlanPerRun'
  BY DEF Inv, OnePlanPerRun
<1>3. m.cur <= Len(issues) /\ Len(issues') >= Len(issues) /\ issues' \in Seq(Issue)
  BY DEF Inv, Linked, Fields
<1> QED
  BY <1>1, <1>2, <1>3, SharedStep

\* What Goto leaves of a session.
LEMMA GotoFields ==
    ASSUME Fields, NEW r \in Runs, NEW pc \in Steps, Goto(r, pc)
    PROVE  LET m == [me[r] EXCEPT !.pc = pc]
           IN  /\ me' = [me EXCEPT ![r] = m] /\ m \in Session /\ m.pc = pc
               /\ m.node = me[r].node /\ m.adopt = me[r].adopt /\ m.cur = me[r].cur
               /\ m.snap = me[r].snap /\ m.seen = me[r].seen
BY DEF Goto, Fields, Session

LEMMA Plannables == ASSUME Names PROVE NextPlannable(road) \cup Plannable(road) \subseteq Nodes
<1>1. Pending(road) \subseteq Nodes /\ Resumable(road) \subseteq Nodes /\ Plannable(road) \subseteq Nodes
  BY DEF Pending, Resumable, Plannable, Unblocked
<1>2. Pending(road) # {} => Min(Pending(road)) \in Pending(road)
  BY <1>1, SmallestMember DEF Names
<1>3. Resumable(road) # {} => Min(Resumable(road)) \in Resumable(road)
  BY <1>1, SmallestMember DEF Names
<1> QED
  BY <1>1, <1>2, <1>3 DEF NextPlannable

LEMMA SelectInv ==
    ASSUME Names, Inv, NEW r \in Runs, Select(r)
    PROVE  Inv'
<1>1. PICK n \in Nodes : me' = [me EXCEPT ![r].pc = "mark", ![r].node = n]
  BY Plannables DEF Select
<1>2. me[r] = Idle /\ UNCHANGED <<road, closed, issues, earned, nver, edits>>
  BY DEF Select
<1>3. PICK m \in Session :
        /\ me' = [me EXCEPT ![r] = m] /\ m.pc = "mark" /\ m.node = n /\ ~ m.adopt
        /\ m.cur = me[r].cur /\ m.snap = <<>>
  <2> DEFINE m == [me[r] EXCEPT !.pc = "mark", !.node = n]
  <2>1. me' = [me EXCEPT ![r] = m]
    BY <1>1 DEF Inv, Fields
  <2>2. /\ m \in Session /\ m.pc = "mark" /\ m.node = n /\ ~ m.adopt
        /\ m.cur = me[r].cur /\ m.snap = <<>>
    <3>1. me[r] \in Session /\ ~ me[r].adopt /\ me[r].snap = <<>>
      BY <1>2, IdleSession DEF Idle
    <3> QED
      BY <3>1 DEF Session, Steps
  <2> QED
    BY <2>1, <2>2
<1>4. MayBecome(r, m) /\ nver' \in Nat
  BY <1>2, <1>3 DEF MayBecome, Names, Inv, Fields
<1> QED
  BY <1>2, <1>3, <1>4, SessionStep

LEMMA FromInv ==
    ASSUME Names, Inv, NEW r \in Runs, From(r)
    PROVE  Inv'
<1>1. /\ me' = [me EXCEPT ![r].adopt = TRUE, ![r].cur = 1]
      /\ me[r] = Idle /\ UNCHANGED <<road, closed, issues, earned, nver, edits>>
  BY DEF From
<1>2. PICK m \in Session :
        /\ me' = [me EXCEPT ![r] = m] /\ m.pc = "idle" /\ m.adopt /\ m.cur = 1
        /\ m.snap = <<>> /\ m.node = me[r].node
  <2> DEFINE m == [me[r] EXCEPT !.adopt = TRUE, !.cur = 1]
  <2>1. me' = [me EXCEPT ![r] = m]
    BY <1>1 DEF Inv, Fields
  <2>2. /\ m \in Session /\ m.pc = "idle" /\ m.adopt /\ m.cur = 1
        /\ m.snap = <<>> /\ m.node = me[r].node
    <3>1. me[r] \in Session /\ me[r].pc = "idle" /\ me[r].snap = <<>>
      BY <1>1, IdleSession DEF Idle
    <3> QED
      BY <3>1 DEF Session, Steps
  <2> QED
    BY <2>1, <2>2
<1>3. MayBecome(r, m) /\ nver' \in Nat
  BY <1>1, <1>2 DEF MayBecome, Inv, Fields
<1> QED
  BY <1>1, <1>2, <1>3, SessionStep

LEMMA ReadBodyInv ==
    ASSUME Names, Inv, NEW r \in Runs, ReadBody(r)
    PROVE  Inv'
<1>1. /\ me' = [me EXCEPT ![r].snap = road] /\ me[r].pc \in {"mark", "link", "land"}
      /\ UNCHANGED <<road, closed, issues, earned, nver, edits>>
  BY DEF ReadBody
<1>2. PICK m \in Session :
        /\ me' = [me EXCEPT ![r] = m] /\ m.snap = road /\ m.pc = me[r].pc
        /\ m.adopt = me[r].adopt /\ m.node = me[r].node /\ m.cur = me[r].cur
        /\ m.seen = me[r].seen
  <2> DEFINE m == [me[r] EXCEPT !.snap = road]
  <2>1. me' = [me EXCEPT ![r] = m]
    BY <1>1 DEF Inv, Fields
  <2>2. /\ m \in Session /\ m.snap = road /\ m.pc = me[r].pc
        /\ m.adopt = me[r].adopt /\ m.node = me[r].node /\ m.cur = me[r].cur
        /\ m.seen = me[r].seen
    BY DEF Inv, Fields, Session
  <2> QED
    BY <2>1, <2>2
<1>3. Holding(r)
  BY DEF Inv
<1>4. MayBecome(r, m) /\ nver' \in Nat
  BY <1>1, <1>2, <1>3 DEF MayBecome, Holding, Inv, Fields
<1> QED
  BY <1>1, <1>2, <1>4, SessionStep

LEMMA SaveInv ==
    ASSUME Names, Inv, NEW r \in Runs, Save(r)
    PROVE  Inv'
<1>1. /\ me[r].pc = "idle" /\ (me[r].node # 0 \/ me[r].adopt) /\ nver' = nver + 1
      /\ me' = [me EXCEPT ![r].pc = IF me[r].adopt THEN "adopt" ELSE "find", ![r].ver = nver + 1]
      /\ UNCHANGED <<road, closed, issues, earned, edits>>
  BY DEF Save
<1>2. PICK m \in Session :
        /\ me' = [me EXCEPT ![r] = m] /\ m.snap = me[r].snap
        /\ m.pc = IF me[r].adopt THEN "adopt" ELSE "find"
        /\ m.adopt = me[r].adopt /\ m.node = me[r].node /\ m.cur = me[r].cur
  <2> DEFINE m == [me[r] EXCEPT !.pc = IF me[r].adopt THEN "adopt" ELSE "find", !.ver = nver + 1]
  <2>1. me' = [me EXCEPT ![r] = m]
    BY <1>1 DEF Inv, Fields
  <2>2. /\ m \in Session /\ m.snap = me[r].snap
        /\ m.pc = IF me[r].adopt THEN "adopt" ELSE "find"
        /\ m.adopt = me[r].adopt /\ m.node = me[r].node /\ m.cur = me[r].cur
    <3>1. me[r] \in Session /\ nver + 1 \in Nat
      BY DEF Inv, Fields
    <3>2. CASE me[r].adopt
      BY <3>1, <3>2 DEF Session, Steps
    <3>3. CASE ~ me[r].adopt
      BY <3>1, <3>3 DEF Session, Steps
    <3> QED
      BY <3>2, <3>3
  <2> QED
    BY <2>1, <2>2
<1>3. Holding(r) /\ nver' \in Nat
  BY <1>1 DEF Inv, Fields
<1>4. MayBecome(r, m)
  BY <1>1, <1>2, <1>3 DEF MayBecome, Holding
<1> QED
  BY <1>1, <1>2, <1>3, <1>4, SessionStep

LEMMA LinkFailsInv ==
    ASSUME Names, Inv, NEW r \in Runs, LinkFails(r)
    PROVE  Inv'
<1>1. /\ me[r].pc = "link" /\ me[r].snap = <<>> /\ Goto(r, "idle")
      /\ UNCHANGED <<road, closed, issues, earned, nver>>
  BY DEF LinkFails
<1>2. Holding(r)
  BY DEF Inv
<1>3. PICK m \in Session :
        /\ me' = [me EXCEPT ![r] = m] /\ m.pc = "idle" /\ m.node = me[r].node
        /\ m.adopt = me[r].adopt /\ m.cur = me[r].cur /\ m.snap = me[r].snap
  BY <1>1, GotoFields, ZenonT(60) DEF Inv, Steps
<1>4. MayBecome(r, m) /\ nver' \in Nat
  BY <1>1, <1>2, <1>3 DEF MayBecome, Holding, Inv, Fields
<1> QED
  BY <1>1, <1>3, <1>4, SessionStep

LEMMA CrashInv ==
    ASSUME Names, Inv, NEW r \in Runs, Crash(r)
    PROVE  Inv'
<1>1. /\ me' = [me EXCEPT ![r].pc = "idle", ![r].snap = <<>>, ![r].seen = <<>>]
      /\ UNCHANGED <<road, closed, issues, earned, nver>>
  BY DEF Crash
<1>2. PICK m \in Session :
        /\ me' = [me EXCEPT ![r] = m] /\ m.snap = <<>> /\ m.pc = "idle"
        /\ m.adopt = me[r].adopt /\ m.node = me[r].node /\ m.cur = me[r].cur
  <2> DEFINE m == [me[r] EXCEPT !.pc = "idle", !.snap = <<>>, !.seen = <<>>]
  <2>1. me' = [me EXCEPT ![r] = m]
    BY <1>1 DEF Inv, Fields
  <2>2. /\ m \in Session /\ m.snap = <<>> /\ m.pc = "idle"
        /\ m.adopt = me[r].adopt /\ m.node = me[r].node /\ m.cur = me[r].cur
    BY ZenonT(60) DEF Inv, Fields, Session, Steps
  <2> QED
    BY <2>1, <2>2
<1>3. Holding(r)
  BY DEF Inv
<1>4. MayBecome(r, m) /\ nver' \in Nat
  BY <1>1, <1>2, <1>3 DEF MayBecome, Holding, Inv, Fields
<1> QED
  BY <1>1, <1>2, <1>4, SessionStep

LEMMA ReconcileInv ==
    ASSUME Names, Inv, NEW r \in Runs, Reconcile(r)
    PROVE  Inv'
<1>1. /\ me[r].pc = "finalize" /\ UNCHANGED <<road, closed, issues, earned, nver, edits>>
  BY DEF Reconcile
<1>2. Holding(r)
  BY DEF Inv
<1>3. CASE Goto(r, "idle")
  <2>1. PICK m \in Session :
          /\ me' = [me EXCEPT ![r] = m] /\ m.pc = "idle" /\ m.node = me[r].node
          /\ m.adopt = me[r].adopt /\ m.cur = me[r].cur /\ m.snap = me[r].snap
    BY <1>3, GotoFields, ZenonT(60) DEF Inv, Steps
  <2>2. MayBecome(r, m) /\ nver' \in Nat
    BY <1>1, <1>2, <2>1 DEF MayBecome, Holding, Inv, Fields
  <2> QED
    BY <1>1, <2>1, <2>2, SessionStep
<1>4. ASSUME ~ me[r].adopt, NEW n \in Nodes,
             me' = [me EXCEPT ![r].node = n, ![r].seen = road,
                      ![r].pc = IF road[n].st \in Terminal THEN "complete" ELSE "land"]
      PROVE  Inv'
  <2>1. PICK m \in Session :
          /\ me' = [me EXCEPT ![r] = m] /\ m.snap = me[r].snap /\ m.seen = road
          /\ m.pc = IF road[n].st \in Terminal THEN "complete" ELSE "land"
          /\ m.adopt = me[r].adopt /\ m.node = n /\ m.cur = me[r].cur
    <3> DEFINE m == [me[r] EXCEPT !.node = n, !.seen = road,
                       !.pc = IF road[n].st \in Terminal THEN "complete" ELSE "land"]
    <3>1. me' = [me EXCEPT ![r] = m]
      BY <1>4 DEF Inv, Fields
    <3>2. /\ m \in Session /\ m.snap = me[r].snap /\ m.seen = road
          /\ m.pc = IF road[n].st \in Terminal THEN "complete" ELSE "land"
          /\ m.adopt = me[r].adopt /\ m.node = n /\ m.cur = me[r].cur
      BY ZenonT(60) DEF Inv, Fields, Session, Steps
    <3> QED
      BY <3>1, <3>2
  <2>2. m.pc = "complete" => m.node \in earned
    BY <2>1 DEF Inv, Earned, Terminals
  <2>3. n # 0 /\ m.snap = <<>>
    BY <1>1, <1>2, <2>1 DEF Holding, Names
  <2>4. MayBecome(r, m) /\ nver' \in Nat
    BY <1>1, <1>4, <2>1, <2>2, <2>3 DEF MayBecome, Inv, Fields
  <2> QED
    BY <1>1, <2>1, <2>4, SessionStep
<1> QED
  BY <1>3, <1>4, ZenonT(60) DEF Reconcile

-----------------------------------------------------------------------------
(* The steps that write issues. *)

Written(t, i, x) ==
    /\ t \in Seq(Issue) /\ Len(t) = Len(issues) /\ DOMAIN t = DOMAIN issues
    /\ t[i] = x /\ \A j \in DOMAIN issues : j # i => t[j] = issues[j]

LEMMA IssueWritten ==
    ASSUME Fields, NEW i \in DOMAIN issues, NEW x \in Issue
    PROVE  Written([issues EXCEPT ![i] = x], i, x)
BY ExceptSeq DEF Fields, Written

\* A write that changes no run id and opens nothing.
LEMMA SameOwners ==
    ASSUME Names, Inv, NEW r \in Runs, NEW m \in Session, me' = [me EXCEPT ![r] = m],
           MayBecome(r, m), DOMAIN issues' = DOMAIN issues,
           \A i \in DOMAIN issues : /\ issues'[i].run = issues[i].run
                                    /\ issues'[i].open => issues[i].open
    PROVE  Owned' /\ OnePlanPerRun'
<1>1. \A i \in DOMAIN issues : issues[i].run \in Runs \cup {0}
  <2>1. \A i \in DOMAIN issues : issues[i] \in Issue
    BY DEF Inv, Fields
  <2> QED
    BY <2>1 DEF Issue
<1>2. Owned'
  BY <1>1, OwnedStays, ZenonT(60) DEF Inv, Owned, Linked
<1>3. OnePlanPerRun'
  BY DEF Inv, OnePlanPerRun
<1> QED
  BY <1>2, <1>3

LEMMA AdoptInv ==
    ASSUME Names, Inv, NEW r \in Runs, Adopt(r)
    PROVE  Inv'
<1>1. /\ me[r].pc = "adopt" /\ issues' = [issues EXCEPT ![1].run = r] /\ Goto(r, "rewrite")
      /\ UNCHANGED <<road, closed, earned, nver, edits>>
  BY DEF Adopt
<1>2. Holding(r) /\ 1 \in DOMAIN issues
  BY DEF Inv, Linked
<1>3. PICK m \in Session :
        /\ me' = [me EXCEPT ![r] = m] /\ m.pc = "rewrite" /\ m.node = me[r].node
        /\ m.adopt = me[r].adopt /\ m.cur = me[r].cur /\ m.snap = me[r].snap
  BY <1>1, GotoFields, ZenonT(60) DEF Inv, Steps
<1>4. me[r].adopt /\ MayBecome(r, m) /\ nver' \in Nat
  BY <1>1, <1>2, <1>3 DEF MayBecome, Holding, Inv, Fields
<1>5. PICK x \in Issue : issues' = [issues EXCEPT ![1] = x] /\ x.run = r
  <2> DEFINE x == [issues[1] EXCEPT !.run = r]
  <2>1. issues[1] \in Issue
    BY <1>2 DEF Inv, Fields
  <2>2. x \in Issue /\ x.run = r
    BY <2>1 DEF Issue
  <2>3. issues' = [issues EXCEPT ![1] = x]
    BY <1>1
  <2> QED
    BY <2>2, <2>3
<1>6. /\ issues' \in Seq(Issue) /\ Len(issues') = Len(issues) /\ DOMAIN issues' = DOMAIN issues
      /\ issues'[1] = x /\ \A j \in DOMAIN issues : j # 1 => issues'[j] = issues[j]
  <2>1. Written([issues EXCEPT ![1] = x], 1, x)
    BY <1>2, IssueWritten DEF Inv
  <2> QED
    BY <1>5, <2>1 DEF Written
<1>7. \A i \in DOMAIN issues : issues[i].run \in Runs \cup {0}
  <2>1. \A i \in DOMAIN issues : issues[i] \in Issue
    BY DEF Inv, Fields
  <2> QED
    BY <2>1 DEF Issue
<1>8. me'[r].adopt
  BY <1>3, <1>4 DEF Inv, Fields
<1>9. Owned'
  BY <1>3, <1>4, <1>5, <1>6, <1>7, <1>8, OwnedStays DEF Inv, Owned
<1>10. OnePlanPerRun'
  BY <1>4, <1>5, <1>6 DEF Inv, Owned, OnePlanPerRun
<1>11. m.cur <= Len(issues') /\ Len(issues') >= Len(issues)
  BY <1>3, <1>6 DEF Inv, Linked, Fields
<1> QED
  BY <1>1, <1>3, <1>4, <1>6, <1>9, <1>10, <1>11, SharedStep

LEMMA LandInv ==
    ASSUME Names, Inv, NEW r \in Runs, Land(r)
    PROVE  Inv'
<1>1. /\ me[r].pc = "idle" /\ me[r].cur # 0
      /\ issues' = [issues EXCEPT ![me[r].cur].open = FALSE] /\ Goto(r, "finalize")
      /\ UNCHANGED <<road, closed, earned, nver, edits>>
  BY DEF Land
<1>2. PICK i \in DOMAIN issues : i = me[r].cur
  BY <1>1 DEF Inv, Linked, Fields, Session
<1>3. PICK m \in Session :
        /\ me' = [me EXCEPT ![r] = m] /\ m.pc = "finalize" /\ m.node = me[r].node
        /\ m.adopt = me[r].adopt /\ m.cur = me[r].cur /\ m.snap = me[r].snap
  BY <1>1, GotoFields, ZenonT(60) DEF Inv, Steps
<1>4. MayBecome(r, m) /\ nver' \in Nat
  BY <1>1, <1>3 DEF MayBecome, Holding, Inv, Fields
<1>5. PICK x \in Issue : issues' = [issues EXCEPT ![i] = x] /\ x.run = issues[i].run /\ ~ x.open
  <2> DEFINE x == [issues[i] EXCEPT !.open = FALSE]
  <2>1. issues[i] \in Issue
    BY DEF Inv, Fields
  <2>2. x \in Issue /\ x.run = issues[i].run /\ ~ x.open
    BY <2>1 DEF Issue
  <2>3. issues' = [issues EXCEPT ![i] = x]
    BY <1>1, <1>2
  <2> QED
    BY <2>2, <2>3
<1>6. /\ issues' \in Seq(Issue) /\ Len(issues') = Len(issues) /\ DOMAIN issues' = DOMAIN issues
      /\ issues'[i] = x /\ \A j \in DOMAIN issues : j # i => issues'[j] = issues[j]
  <2>1. Written([issues EXCEPT ![i] = x], i, x)
    BY IssueWritten DEF Inv
  <2> QED
    BY <1>5, <2>1 DEF Written
<1>7. Owned' /\ OnePlanPerRun'
  <2>1. \A j \in DOMAIN issues : /\ issues'[j].run = issues[j].run
                                 /\ issues'[j].open => issues[j].open
    BY <1>5, <1>6
  <2> QED
    BY <1>3, <1>4, <1>6, <2>1, SameOwners
<1>8. m.cur <= Len(issues') /\ Len(issues') >= Len(issues)
  BY <1>3, <1>6 DEF Inv, Linked, Fields
<1> QED
  BY <1>1, <1>3, <1>4, <1>6, <1>7, <1>8, SharedStep

\* A fresh issue is posted only when the session has none that is open.
LEMMA CreateInv ==
    ASSUME Names, Inv, NEW r \in Runs, Create(r)
    PROVE  Inv'
<1>1. me[r].pc = "find" /\ UNCHANGED <<road, closed, earned, nver>>
  BY DEF Create
<1>2. ~ me[r].adopt /\ me[r].node # 0 /\ me[r].snap = <<>> /\ nver' \in Nat
  BY <1>1 DEF Inv, Holding, Fields
<1>3. CASE /\ Found(r) # {} /\ UNCHANGED <<issues, edits>>
           /\ me' = [me EXCEPT ![r].pc = "rewrite", ![r].cur = Min(Found(r))]
  <2>1. PICK i \in DOMAIN issues : i = Min(Found(r)) /\ i # 0
    <3>1. Found(r) \subseteq DOMAIN issues /\ DOMAIN issues = 1..Len(issues) /\ Len(issues) \in Nat
      BY DEF Found, Inv, Fields
    <3>2. Found(r) \subseteq Nat
      BY <3>1
    <3>3. Min(Found(r)) \in Found(r)
      BY <1>3, <3>2, SmallestMember
    <3> QED
      BY <3>1, <3>3
  <2>2. PICK m \in Session :
          /\ me' = [me EXCEPT ![r] = m] /\ m.pc = "rewrite" /\ m.node = me[r].node
          /\ m.adopt = me[r].adopt /\ m.cur = i /\ m.snap = me[r].snap
    <3> DEFINE m == [me[r] EXCEPT !.pc = "rewrite", !.cur = i]
    <3>1. me' = [me EXCEPT ![r] = m]
      BY <1>3, <2>1 DEF Inv, Fields
    <3>2. i \in Nat /\ me[r] \in Session
      BY DEF Inv, Fields
    <3>3. /\ m \in Session /\ m.pc = "rewrite" /\ m.node = me[r].node
          /\ m.adopt = me[r].adopt /\ m.cur = i /\ m.snap = me[r].snap
      BY <3>2 DEF Session, Steps
    <3> QED
      BY <3>1, <3>3
  <2>3. MayBecome(r, m)
    BY <1>2, <2>1, <2>2 DEF MayBecome
  <2> QED
    BY <1>1, <1>2, <1>3, <2>1, <2>2, <2>3, SessionStep
<1>4. CASE /\ Found(r) = {}
           /\ issues' = Append(issues, [run |-> r, open |-> TRUE, notes |-> <<>>, last |-> 0])
           /\ \/ me' = [me EXCEPT ![r].pc = "post", ![r].cur = Len(issues) + 1]
              \/ Goto(r, "idle")
  <2>1. PICK x \in Issue : x.run = r /\ issues' = Append(issues, x)
    <3>1. [run |-> r, open |-> TRUE, notes |-> <<>>, last |-> 0] \in Issue
      BY DEF Issue
    <3> QED
      BY <1>4, <3>1
  <2>2. /\ issues' \in Seq(Issue) /\ Len(issues') = Len(issues) + 1
        /\ DOMAIN issues = 1..Len(issues) /\ DOMAIN issues' = 1..(Len(issues) + 1)
        /\ Len(issues) \in Nat /\ issues'[Len(issues) + 1] = x
        /\ \A j \in DOMAIN issues : issues'[j] = issues[j]
    BY <2>1 DEF Inv, Fields
  <2>3. PICK m \in Session :
          /\ me' = [me EXCEPT ![r] = m] /\ m.node = me[r].node
          /\ m.adopt = me[r].adopt /\ m.snap = me[r].snap
          /\ \/ m.pc = "post" /\ m.cur = Len(issues) + 1
             \/ m.pc = "idle" /\ m.cur = me[r].cur
    <3>1. CASE Goto(r, "idle")
      BY <3>1, GotoFields, ZenonT(60) DEF Inv, Steps
    <3>2. CASE me' = [me EXCEPT ![r].pc = "post", ![r].cur = Len(issues) + 1]
      <4> DEFINE m == [me[r] EXCEPT !.pc = "post", !.cur = Len(issues) + 1]
      <4>1. me' = [me EXCEPT ![r] = m]
        BY <3>2 DEF Inv, Fields
      <4>2. me[r] \in Session /\ Len(issues) + 1 \in Nat
        BY <2>2 DEF Inv, Fields
      <4>3. /\ m \in Session /\ m.node = me[r].node
            /\ m.adopt = me[r].adopt /\ m.snap = me[r].snap
            /\ m.pc = "post" /\ m.cur = Len(issues) + 1
        BY <4>2 DEF Session, Steps
      <4> QED
        BY <4>1, <4>3
    <3> QED
      BY <1>4, <3>1, <3>2
  <2>4. MayBecome(r, m)
    BY <1>2, <2>2, <2>3 DEF MayBecome
  <2>5. m.cur <= Len(issues') /\ Len(issues') >= Len(issues)
    BY <2>2, <2>3 DEF Inv, Linked, Fields, Session
  <2>6. \A i \in DOMAIN issues : issues[i].run \in Runs \cup {0}
    <3>1. \A i \in DOMAIN issues : issues[i] \in Issue
      BY DEF Inv, Fields
    <3> QED
      BY <3>1 DEF Issue
  <2>7. me'[r].node # 0 /\ ~ me'[r].adopt
    BY <1>2, <2>3 DEF Inv, Fields
  <2>8. Owned'
    <3>1. issues'[1].run = 0 \/ me'[issues'[1].run].adopt
      BY <2>2, <2>3, <2>4, <2>6, OwnedStays DEF Inv, Owned, Linked
    <3>2. ASSUME NEW i \in DOMAIN issues', i # 1
          PROVE  /\ issues'[i].run # 0 /\ ~ me'[issues'[i].run].adopt
                 /\ me'[issues'[i].run].node # 0
      <4>1. CASE i \in DOMAIN issues
        BY <2>2, <2>3, <2>4, <2>6, <3>2, <4>1, OwnedStays DEF Inv, Owned
      <4>2. CASE i = Len(issues) + 1
        BY <2>1, <2>2, <2>7, <4>2 DEF Names
      <4> QED
        BY <2>2, <4>1, <4>2
    <3> QED
      BY <3>1, <3>2 DEF Owned
  <2>9. OnePlanPerRun'
    <3>1. \A i \in DOMAIN issues : issues[i].open => issues[i].run # r
      BY <1>4 DEF Found
    <3>2. \A i \in DOMAIN issues' : i \in DOMAIN issues \/ i = Len(issues) + 1
      BY <2>2
    <3> QED
      BY <2>1, <2>2, <3>1, <3>2 DEF Inv, OnePlanPerRun
  <2> QED
    BY <1>1, <1>2, <2>2, <2>3, <2>4, <2>5, <2>8, <2>9, SharedStep
<1> QED
  BY <1>3, <1>4 DEF Create

\* A plan body is put at an index of the comments, or behind them.
LEMMA PutInv ==
    ASSUME Names, Inv, NEW r \in Runs, me[r].pc \in {"post", "rewrite"}, NEW k \in Nat \ {0},
           k <= Len(issues[me[r].cur].notes) + 1, Put(r, k)
    PROVE  Inv'
<1>1. PICK i \in DOMAIN issues : i = me[r].cur
  BY DEF Inv, Holding, Linked, Fields, Session
<1>2. issues[i] \in Issue /\ me[r] \in Session
  BY DEF Inv, Fields
<1>3. issues[i].notes \in Seq(Nat) /\ me[r].ver \in Nat
  BY <1>2 DEF Issue, Session
<1> DEFINE t == IF k > Len(issues[i].notes) THEN Append(issues[i].notes, me[r].ver)
                ELSE [issues[i].notes EXCEPT ![k] = me[r].ver]
<1>4. t \in Seq(Nat)
  <2>1. CASE k > Len(issues[i].notes)
    BY <1>3, <2>1
  <2>2. CASE ~ (k > Len(issues[i].notes))
    <3>1. k \in 1..Len(issues[i].notes)
      BY <1>3, <2>2
    <3> QED
      BY <1>3, <2>2, <3>1, ExceptSeq
  <2> QED
    BY <2>1, <2>2
<1>5. PICK x \in Issue : issues' = [issues EXCEPT ![i] = x] /\ x.run = issues[i].run
                         /\ x.open = issues[i].open
  <2> DEFINE x == [issues[i] EXCEPT !.last = me[r].ver, !.notes = t]
  <2> HIDE DEF t
  <2>1. x \in Issue /\ x.run = issues[i].run /\ x.open = issues[i].open
    BY <1>2, <1>3, <1>4 DEF Issue
  <2>2. issues' = [issues EXCEPT ![i] = x]
    BY <1>1, <1>2 DEF Put, t, Issue, Inv, Fields
  <2> QED
    BY <2>1, <2>2
<1>6. PICK m \in Session :
        /\ me' = [me EXCEPT ![r] = m] /\ m.pc = (IF me[r].adopt THEN "idle" ELSE "link")
        /\ m.node = me[r].node /\ m.adopt = me[r].adopt /\ m.cur = me[r].cur
        /\ m.snap = me[r].snap
  <2>1. Goto(r, IF me[r].adopt THEN "idle" ELSE "link")
    BY DEF Put
  <2>2. CASE me[r].adopt
    <3>1. Goto(r, "idle")
      BY <2>1, <2>2
    <3>2. \E m \in Session :
            /\ me' = [me EXCEPT ![r] = m] /\ m.pc = "idle" /\ m.node = me[r].node
            /\ m.adopt = me[r].adopt /\ m.cur = me[r].cur /\ m.snap = me[r].snap
      BY <3>1, GotoFields, ZenonT(60) DEF Inv, Steps
    <3> QED
      BY <2>2, <3>2
  <2>3. CASE ~ me[r].adopt
    <3>1. Goto(r, "link")
      BY <2>1, <2>3
    <3>2. \E m \in Session :
            /\ me' = [me EXCEPT ![r] = m] /\ m.pc = "link" /\ m.node = me[r].node
            /\ m.adopt = me[r].adopt /\ m.cur = me[r].cur /\ m.snap = me[r].snap
      BY <3>1, GotoFields, ZenonT(60) DEF Inv, Steps
    <3> QED
      BY <2>3, <3>2
  <2> QED
    BY <2>2, <2>3
<1>7. MayBecome(r, m) /\ nver' \in Nat /\ UNCHANGED <<road, closed, earned>>
  BY <1>1, <1>6 DEF MayBecome, Holding, Inv, Fields, Put
<1>8. /\ issues' \in Seq(Issue) /\ Len(issues') = Len(issues) /\ DOMAIN issues' = DOMAIN issues
      /\ issues'[i] = x /\ \A j \in DOMAIN issues : j # i => issues'[j] = issues[j]
  <2>1. Written([issues EXCEPT ![i] = x], i, x)
    BY IssueWritten DEF Inv
  <2> QED
    BY <1>5, <2>1 DEF Written
<1>9. Owned' /\ OnePlanPerRun'
  <2>1. \A j \in DOMAIN issues : /\ issues'[j].run = issues[j].run
                                 /\ issues'[j].open => issues[j].open
    BY <1>5, <1>8
  <2> QED
    BY <1>6, <1>7, <1>8, <2>1, SameOwners
<1>10. m.cur <= Len(issues') /\ Len(issues') >= Len(issues)
  BY <1>6, <1>8 DEF Inv, Linked, Fields
<1> QED
  BY <1>6, <1>7, <1>8, <1>9, <1>10, SharedStep

LEMMA BodyInv ==
    ASSUME Names, Inv, NEW r \in Runs, PostBody(r) \/ Rewrite(r)
    PROVE  Inv'
<1>1. PICK i \in DOMAIN issues : i = me[r].cur
  BY DEF Inv, Holding, Linked, Fields, Session, PostBody, Rewrite
<1>2. issues[i].notes \in Seq(Nat)
  <2>1. issues[i] \in Issue
    BY DEF Inv, Fields
  <2> QED
    BY <2>1 DEF Issue
<1>3. /\ Len(issues[i].notes) + 1 \in Nat \ {0}
      /\ DOMAIN issues[i].notes = 1..Len(issues[i].notes) /\ Len(issues[i].notes) \in Nat
  BY <1>2
<1>4. CASE PostBody(r)
  BY <1>1, <1>3, <1>4, PutInv, SMTT(60) DEF PostBody
<1>5. CASE Rewrite(r)
  <2> DEFINE found == {k \in Bodies(i) : k <= Page}
  <2>1. me[r].pc = "rewrite" /\ Put(r, IF found # {} THEN Min(found) ELSE Len(issues[i].notes) + 1)
    BY <1>1, <1>5 DEF Rewrite
  <2>2. found \subseteq 1..Len(issues[i].notes)
    BY <1>3 DEF Bodies
  <2>3. found # {} => Min(found) \in found
    BY <1>3, <2>2, SmallestMember, SMTT(60)
  <2> HIDE DEF found
  <2>4. CASE found # {}
    <3>1. PICK k \in 1..Len(issues[i].notes) : k = Min(found)
      BY <2>2, <2>3, <2>4
    <3>2. Put(r, k)
      BY <2>1, <2>4, <3>1
    <3>3. k \in Nat \ {0} /\ k <= Len(issues[me[r].cur].notes) + 1
      BY <1>1, <1>3, <3>1
    <3> QED
      BY <2>1, <3>2, <3>3, PutInv
  <2>5. CASE found = {}
    BY <1>1, <1>3, <2>1, <2>5, PutInv, SMTT(60)
  <2> QED
    BY <2>4, <2>5
<1> QED
  BY <1>4, <1>5

-----------------------------------------------------------------------------
(* The steps that write the roadmap. *)

\* What a session keeps when the roadmap is written, by itself or by another.
Kept(q) ==
    /\ me'[q].cur = me[q].cur /\ me'[q].node = me[q].node
    /\ me'[q].adopt = me[q].adopt /\ me'[q].seen = me[q].seen
    /\ \/ me'[q].pc = me[q].pc /\ me'[q].snap = me[q].snap
       \/ me'[q].pc = "idle" /\ me'[q].snap = <<>>
       \/ /\ me[q].pc = "land" /\ me'[q].pc = "complete" /\ me'[q].snap = <<>>
          /\ me[q].node \in earned'

LEMMA RoadStep ==
    ASSUME Names, Inv, UNCHANGED <<closed, issues, nver>>, road' \in Road,
           me' \in [Runs -> Session], \A q \in Runs : Kept(q),
           earned \subseteq earned', earned' \subseteq Nodes,
           Terminals(road') \subseteq earned', \A n \in Nodes : road'[n].pr <= Len(issues)
    PROVE  Inv'
<1>1. Fields'
  BY DEF Inv, Fields
<1>2. \A q \in Runs : Holding(q)'
  BY DEF Inv, Holding, Kept
<1>3. Linked'
  BY DEF Inv, Linked, Kept
<1>4. Owned'
  <2>1. \A i \in DOMAIN issues : issues[i].run \in Runs \cup {0}
    <3>1. \A i \in DOMAIN issues : issues[i] \in Issue
      BY DEF Inv, Fields
    <3> QED
      BY <3>1 DEF Issue
  <2> QED
    BY <2>1 DEF Inv, Owned, Linked, Kept
<1>5. Earned'
  <2>1. ASSUME NEW q \in Runs
        PROVE  /\ me'[q].snap # <<>> => Terminals(me'[q].snap) \subseteq earned'
               /\ me'[q].pc \in {"land", "complete"} => Terminals(me'[q].seen) \subseteq earned'
               /\ me'[q].pc = "complete" => me'[q].node \in earned'
    BY <2>1 DEF Inv, Earned, Kept
  <2> QED
    BY <2>1 DEF Earned, Terminals
<1>6. OnePlanPerRun' /\ ClosedWasEarned'
  BY DEF Inv, OnePlanPerRun, ClosedWasEarned
<1> QED
  BY <1>1, <1>2, <1>3, <1>4, <1>5, <1>6 DEF Inv

\* The body that is written back is the one that was read, with one entry changed.
LEMMA PatchBodyInv ==
    ASSUME Names, Inv, NEW r \in Runs, PatchBody(r)
    PROVE  Inv'
<1>1. PICK b : b = me[r].snap
  OBVIOUS
<1>2. PICK n : n = me[r].node
  OBVIOUS
<1>3. /\ b # <<>> /\ me[r].pc # "reset" /\ UNCHANGED <<closed, issues, nver, edits>>
      /\ road' = [b EXCEPT ![n] = CASE me[r].pc = "mark" -> [@ EXCEPT !.st = "planning"]
                                    [] me[r].pc = "link" -> [st |-> "in_progress", pr |-> me[r].cur]
                                    [] me[r].pc = "land" -> [@ EXCEPT !.st = "done"]]
      /\ earned' = IF me[r].pc = "land" THEN earned \cup {n} ELSE earned
      /\ me' = [me EXCEPT ![r].snap = <<>>,
                          ![r].pc = IF me[r].pc = "land" THEN "complete" ELSE "idle"]
  BY <1>1, <1>2 DEF PatchBody
<1>4. /\ me[r].pc \in {"mark", "link", "land"} /\ ~ me[r].adopt /\ n \in Nodes /\ b \in Road
      /\ Terminals(b) \subseteq earned /\ \A k \in Nodes : b[k].pr <= Len(issues)
      /\ me[r].cur \in Nat /\ me[r].cur <= Len(issues) /\ me[r] \in Session
  <2>1. me[r] \in Session
    BY DEF Inv, Fields
  <2>2. Holding(r)
    BY DEF Inv
  <2> QED
    BY <1>1, <1>2, <1>3, <2>1, <2>2 DEF Inv, Holding, Linked, Earned, Session
<1>5. /\ earned \subseteq earned' /\ earned' \subseteq Nodes
      /\ me[r].pc = "land" => n \in earned'
  BY <1>3, <1>4 DEF Inv, Fields
<1>6. PICK v \in [st : Stats, pr : Nat] :
        /\ road' = [b EXCEPT ![n] = v] /\ v.pr <= Len(issues)
        /\ v.st \in Terminal => n \in earned'
  <2>1. b[n] \in [st : Stats, pr : Nat] /\ b[n].pr <= Len(issues)
    BY <1>4 DEF Road
  <2>2. CASE me[r].pc = "mark"
    <3> DEFINE v == [b[n] EXCEPT !.st = "planning"]
    <3>1. v \in [st : Stats, pr : Nat] /\ v.pr <= Len(issues) /\ v.st \notin Terminal
      BY <2>1 DEF Stats, Terminal
    <3>2. road' = [b EXCEPT ![n] = v]
      BY <1>3, <2>2
    <3> QED
      BY <3>1, <3>2
  <2>3. CASE me[r].pc = "link"
    <3> DEFINE v == [st |-> "in_progress", pr |-> me[r].cur]
    <3>1. v \in [st : Stats, pr : Nat] /\ v.pr <= Len(issues) /\ v.st \notin Terminal
      BY <1>4 DEF Stats, Terminal
    <3>2. road' = [b EXCEPT ![n] = v]
      BY <1>3, <2>3
    <3> QED
      BY <3>1, <3>2
  <2>4. CASE me[r].pc = "land"
    <3> DEFINE v == [b[n] EXCEPT !.st = "done"]
    <3>1. v \in [st : Stats, pr : Nat] /\ v.pr <= Len(issues)
      BY <2>1 DEF Stats
    <3>2. road' = [b EXCEPT ![n] = v]
      BY <1>3, <2>4
    <3> QED
      BY <1>5, <2>4, <3>1, <3>2
  <2> QED
    BY <1>4, <2>2, <2>3, <2>4
<1>7. /\ road' \in Road /\ road'[n] = v
      /\ \A k \in Nodes : k # n => road'[k] = b[k]
  BY <1>4, <1>6 DEF Road
<1>8. Terminals(road') \subseteq earned' /\ \A k \in Nodes : road'[k].pr <= Len(issues)
  BY <1>4, <1>5, <1>6, <1>7 DEF Terminals
<1>9. PICK m \in Session :
        /\ me' = [me EXCEPT ![r] = m] /\ m.snap = <<>>
        /\ m.pc = IF me[r].pc = "land" THEN "complete" ELSE "idle"
        /\ m.adopt = me[r].adopt /\ m.node = me[r].node /\ m.cur = me[r].cur
        /\ m.seen = me[r].seen
  <2> DEFINE m == [me[r] EXCEPT !.snap = <<>>,
                     !.pc = IF me[r].pc = "land" THEN "complete" ELSE "idle"]
  <2>1. me' = [me EXCEPT ![r] = m]
    BY <1>3 DEF Inv, Fields
  <2>2. /\ m \in Session /\ m.snap = <<>>
        /\ m.pc = IF me[r].pc = "land" THEN "complete" ELSE "idle"
        /\ m.adopt = me[r].adopt /\ m.node = me[r].node /\ m.cur = me[r].cur
        /\ m.seen = me[r].seen
    BY <1>4 DEF Session, Steps
  <2> QED
    BY <2>1, <2>2
<1>10. me'[r] = m /\ (\A q \in Runs : q # r => me'[q] = me[q]) /\ me' \in [Runs -> Session]
  BY <1>9 DEF Inv, Fields
<1>11. \A q \in Runs : Kept(q)
  BY <1>2, <1>4, <1>5, <1>9, <1>10 DEF Kept
<1> QED
  BY <1>3, <1>5, <1>7, <1>8, <1>10, <1>11, RoadStep

LEMMA NodeInv ==
    ASSUME Names, Inv, NEW r \in Runs, Node(r)
    PROVE  Inv'
<1>1. /\ me' = [me EXCEPT ![r].pc = "reset", ![r].snap = road] /\ me[r].pc = "idle"
      /\ UNCHANGED <<road, closed, issues, earned, nver>>
  BY DEF Node
<1>2. PICK m \in Session :
        /\ me' = [me EXCEPT ![r] = m] /\ m.snap = road /\ m.pc = "reset"
        /\ m.adopt = me[r].adopt /\ m.node = me[r].node /\ m.cur = me[r].cur
  <2> DEFINE m == [me[r] EXCEPT !.pc = "reset", !.snap = road]
  <2>1. me' = [me EXCEPT ![r] = m]
    BY <1>1 DEF Inv, Fields
  <2>2. /\ m \in Session /\ m.snap = road /\ m.pc = "reset"
        /\ m.adopt = me[r].adopt /\ m.node = me[r].node /\ m.cur = me[r].cur
    BY DEF Inv, Fields, Session, Steps
  <2> QED
    BY <2>1, <2>2
<1>3. Holding(r)
  BY DEF Inv
<1>4. MayBecome(r, m) /\ nver' \in Nat
  BY <1>1, <1>2, <1>3 DEF MayBecome, Holding, Inv, Fields
<1> QED
  BY <1>1, <1>2, <1>4, SessionStep

LEMMA ResetInv ==
    ASSUME Names, Inv, NEW r \in Runs, NEW n \in Nodes, Reset(r, n)
    PROVE  Inv'
<1>1. PICK b : b = me[r].snap
  OBVIOUS
<1>2. /\ me[r].pc = "reset" /\ b # <<>>
      /\ me' = [me EXCEPT ![r].snap = <<>>, ![r].pc = "idle"]
      /\ UNCHANGED <<closed, issues, nver>>
  BY <1>1 DEF Reset
<1>3. /\ b \in Road /\ Terminals(b) \subseteq earned /\ me[r] \in Session
      /\ \A k \in Nodes : b[k].pr <= Len(issues)
  <2>1. me[r] \in Session /\ Holding(r)
    BY DEF Inv, Fields
  <2> QED
    BY <1>1, <1>2, <2>1 DEF Inv, Holding, Linked, Earned, Session
<1>4. PICK v \in [st : Stats, pr : Nat] :
        /\ road' = [b EXCEPT ![n] = v] /\ v.pr <= Len(issues)
        /\ earned \subseteq earned' /\ earned' \subseteq Nodes
        /\ v.st \in Terminal => n \in earned'
  <2>1. /\ b[n] \in [st : Stats, pr : Nat] /\ b[n].pr <= Len(issues)
        /\ Len(issues) \in Nat /\ earned \subseteq Nodes
    BY <1>3 DEF Inv, Fields, Road
  <2>2. CASE road' = [b EXCEPT ![n] = [st |-> "pending", pr |-> None]] /\ UNCHANGED earned
    <3> DEFINE v == [st |-> "pending", pr |-> None]
    <3>1. v \in [st : Stats, pr : Nat] /\ v.pr <= Len(issues) /\ v.st \notin Terminal
      BY <2>1 DEF Stats, Terminal, None
    <3> QED
      BY <2>1, <2>2, <3>1
  <2>3. CASE road' = [b EXCEPT ![n].st = "skipped"] /\ earned' = earned \cup {n}
    <3> DEFINE v == [b[n] EXCEPT !.st = "skipped"]
    <3>1. v \in [st : Stats, pr : Nat] /\ v.pr <= Len(issues)
      BY <2>1 DEF Stats
    <3>2. road' = [b EXCEPT ![n] = v]
      BY <2>3
    <3> QED
      BY <2>1, <2>3, <3>1, <3>2
  <2> QED
    BY <1>1, <2>2, <2>3 DEF Reset
<1>5. /\ road' \in Road /\ road'[n] = v
      /\ \A k \in Nodes : k # n => road'[k] = b[k]
  BY <1>3, <1>4 DEF Road
<1>6. Terminals(road') \subseteq earned' /\ \A k \in Nodes : road'[k].pr <= Len(issues)
  BY <1>3, <1>4, <1>5 DEF Terminals
<1>7. PICK m \in Session :
        /\ me' = [me EXCEPT ![r] = m] /\ m.snap = <<>> /\ m.pc = "idle"
        /\ m.adopt = me[r].adopt /\ m.node = me[r].node /\ m.cur = me[r].cur
        /\ m.seen = me[r].seen
  <2> DEFINE m == [me[r] EXCEPT !.snap = <<>>, !.pc = "idle"]
  <2>1. me' = [me EXCEPT ![r] = m]
    BY <1>2 DEF Inv, Fields
  <2>2. /\ m \in Session /\ m.snap = <<>> /\ m.pc = "idle"
        /\ m.adopt = me[r].adopt /\ m.node = me[r].node /\ m.cur = me[r].cur
        /\ m.seen = me[r].seen
    BY <1>3 DEF Session, Steps
  <2> QED
    BY <2>1, <2>2
<1>8. me'[r] = m /\ (\A q \in Runs : q # r => me'[q] = me[q]) /\ me' \in [Runs -> Session]
  BY <1>7 DEF Inv, Fields
<1>9. \A q \in Runs : Kept(q)
  BY <1>7, <1>8 DEF Kept
<1> QED
  BY <1>2, <1>4, <1>5, <1>6, <1>8, <1>9, RoadStep

\* The session saw every node but its own as terminal, and its own is done.
LEMMA CloseInv ==
    ASSUME Names, Inv, NEW r \in Runs, Close(r)
    PROVE  Inv'
<1>1. /\ me[r].pc = "complete" /\ closed' = (closed \/ Completes(r))
      /\ me' = [me EXCEPT ![r].pc = "idle", ![r].seen = <<>>]
      /\ UNCHANGED <<road, issues, earned, nver, edits>>
  BY DEF Close
<1>2. Holding(r)
  BY DEF Inv
<1>3. closed' \in BOOLEAN
  BY <1>1 DEF Inv, Fields, Completes
<1>4. ClosedWasEarned'
  <2>1. Completes(r) => Nodes \subseteq earned
    BY <1>1 DEF Completes, Inv, Earned, Terminals
  <2>2. closed => earned = Nodes
    BY DEF Inv, ClosedWasEarned
  <2> QED
    BY <1>1, <2>1, <2>2 DEF Inv, Fields, ClosedWasEarned
<1>5. PICK m \in Session :
        /\ me' = [me EXCEPT ![r] = m] /\ m.pc = "idle" /\ m.node = me[r].node
        /\ m.adopt = me[r].adopt /\ m.cur = me[r].cur /\ m.snap = me[r].snap
  <2> DEFINE m == [me[r] EXCEPT !.pc = "idle", !.seen = <<>>]
  <2>1. me' = [me EXCEPT ![r] = m]
    BY <1>1 DEF Inv, Fields
  <2>2. /\ m \in Session /\ m.pc = "idle" /\ m.node = me[r].node
        /\ m.adopt = me[r].adopt /\ m.cur = me[r].cur /\ m.snap = me[r].snap
    BY ZenonT(60) DEF Inv, Fields, Session, Steps
  <2> QED
    BY <2>1, <2>2
<1>6. MayBecome(r, m) /\ nver' \in Nat
  BY <1>1, <1>2, <1>5 DEF MayBecome, Holding, Inv, Fields
<1>7. \A i \in DOMAIN issues : issues[i].run \in Runs \cup {0}
  <2>1. \A i \in DOMAIN issues : issues[i] \in Issue
    BY DEF Inv, Fields
  <2> QED
    BY <2>1 DEF Issue
<1>8. Owned' /\ OnePlanPerRun'
  <2>1. Owned'
    BY <1>1, <1>5, <1>6, <1>7, OwnedStays DEF Inv, Owned, Linked
  <2>2. OnePlanPerRun'
    BY <1>1 DEF Inv, OnePlanPerRun
  <2> QED
    BY <2>1, <2>2
<1>9. issues' \in Seq(Issue) /\ Len(issues') >= Len(issues) /\ m.cur <= Len(issues')
  BY <1>1, <1>5 DEF Inv, Linked, Fields
<1> QED
  BY <1>1, <1>3, <1>4, <1>5, <1>6, <1>8, <1>9, ClosingStep

-----------------------------------------------------------------------------
(* The theorems. *)

LEMMA InitInv == ASSUME Names, Init PROVE Inv
<1>1. /\ road = [n \in Nodes |-> [st |-> "pending", pr |-> None]] /\ closed = FALSE
      /\ me = [r \in Runs |-> Idle] /\ earned = {} /\ nver = 0
  BY DEF Init
<1>2. PICK x \in Issue : issues = <<x>> /\ x.run = 0
  <2>1. PICK k \in {0, Page} :
          issues = <<[run |-> 0, open |-> TRUE, notes |-> [i \in 1..k |-> 0], last |-> 0]>>
    BY DEF Init
  <2>2. k \in Nat /\ [i \in 1..k |-> 0] \in Seq(Nat)
    BY <2>1 DEF Names
  <2> DEFINE t == [i \in 1..k |-> 0]
             x == [run |-> 0, open |-> TRUE, notes |-> t, last |-> 0]
  <2>3. issues = <<x>>
    BY <2>1
  <2>4. t \in Seq(Nat)
    BY <2>2
  <2> HIDE DEF t
  <2>5. x \in Issue /\ x.run = 0
    BY <2>4 DEF Issue
  <2> HIDE DEF x
  <2> QED
    BY <2>3, <2>5
<1>3. issues \in Seq(Issue) /\ Len(issues) = 1 /\ DOMAIN issues = {1} /\ issues[1] = x
  <2>1. <<x>> \in Seq(Issue) /\ Len(<<x>>) = 1 /\ <<x>>[1] = x
    OBVIOUS
  <2>2. DOMAIN <<x>> = 1..1
    OBVIOUS
  <2> QED
    BY <1>2, <2>1, <2>2
<1>4. road \in Road
  BY <1>1 DEF Road, Stats, None
<1>5. Fields
  <2>1. me \in [Runs -> Session]
    BY <1>1, IdleSession
  <2> QED
    BY <1>1, <1>3, <1>4, <2>1 DEF Fields
<1>6. \A r \in Runs : Holding(r)
  BY <1>1 DEF Holding, Idle
<1>7. Linked /\ Owned
  BY <1>1, <1>2, <1>3 DEF Linked, Owned, Idle, None
<1>8. Earned /\ OnePlanPerRun /\ ClosedWasEarned
  BY <1>1, <1>3 DEF Earned, Terminals, Terminal, OnePlanPerRun, ClosedWasEarned, Idle
<1> QED
  BY <1>5, <1>6, <1>7, <1>8 DEF Inv

LEMMA NextInv == ASSUME Names, Inv, [Next]_vars PROVE Inv'
<1>1. CASE UNCHANGED vars
  <2>1. UNCHANGED <<road, closed, issues, me, earned, nver>>
    BY <1>1 DEF vars
  <2> QED
    BY <2>1 DEF Inv, Fields, Holding, Linked, Owned, Earned, OnePlanPerRun, ClosedWasEarned
<1>2. ASSUME NEW r \in Runs,
             \/ Select(r) \/ From(r) \/ ReadBody(r) \/ PatchBody(r) \/ Save(r) \/ Adopt(r)
             \/ Create(r) \/ PostBody(r) \/ Rewrite(r) \/ LinkFails(r) \/ Land(r)
             \/ Reconcile(r) \/ Close(r) \/ Node(r) \/ Crash(r)
      PROVE  Inv'
  BY <1>2, SelectInv, FromInv, ReadBodyInv, PatchBodyInv, SaveInv, AdoptInv, CreateInv,
     BodyInv, LinkFailsInv, LandInv, ReconcileInv, CloseInv, NodeInv, CrashInv
<1>3. ASSUME NEW r \in Runs, NEW n \in Nodes, Reset(r, n) PROVE Inv'
  BY <1>3, ResetInv
<1> QED
  BY <1>1, <1>2, <1>3 DEF Next

LEMMA SpecInv == ASSUME Names PROVE Spec => []Inv
BY InitInv, NextInv, PTL DEF Spec

\* Nodes have a status of the roadmap, and links and sessions name issues that exist.
THEOREM PlanningTyped ==
    ASSUME Names
    PROVE  Spec => []TypeOK
<1>1. Inv => TypeOK
  <2> SUFFICES ASSUME Inv PROVE TypeOK
    OBVIOUS
  <2>1. DOMAIN issues = 1..Len(issues) /\ Len(issues) \in Nat
    BY DEF Inv, Fields
  <2>2. ASSUME NEW n \in Nodes
        PROVE  /\ road[n].st \in {"pending", "planning", "in_progress"} \cup Terminal
               /\ road[n].pr \in DOMAIN issues \cup {None}
    <3>1. road[n].st \in Stats /\ road[n].pr \in Nat /\ road[n].pr <= Len(issues)
      BY DEF Inv, Fields, Road, Linked
    <3> QED
      BY <2>1, <3>1 DEF Stats, Terminal, None
  <2>3. ASSUME NEW r \in Runs
        PROVE  me[r].node \in Nodes \cup {0} /\ me[r].cur \in 0..Len(issues)
    <3>1. me[r] \in Session /\ me[r].cur <= Len(issues)
      BY DEF Inv, Fields, Linked
    <3> QED
      BY <2>1, <3>1 DEF Session
  <2> QED
    BY <2>2, <2>3 DEF TypeOK
<1> QED
  BY <1>1, SpecInv, PTL

(***************************************************************************)
(* The guarantee of `plan save` (save_cmd.py): the plan issue is found by  *)
(* its run id before one is created, so a run never has two open ones,     *)
(* whatever answer was lost and however often it is saved or dies.         *)
(***************************************************************************)
THEOREM OneOpenPlan ==
    ASSUME Names
    PROVE  Spec => []OnePlanPerRun
<1>1. Inv => OnePlanPerRun
  BY DEF Inv
<1> QED
  BY <1>1, SpecInv, PTL

(***************************************************************************)
(* Closing on land (_reconcile_objective_on_land): completeness is judged  *)
(* on a list that was read before other sessions wrote theirs; every node  *)
(* has been done or skipped all the same when the objective is closed.     *)
(***************************************************************************)
THEOREM ClosesWhenEarned ==
    ASSUME Names
    PROVE  Spec => []ClosedWasEarned
<1>1. Inv => ClosedWasEarned
  BY DEF Inv
<1> QED
  BY <1>1, SpecInv, PTL

-----------------------------------------------------------------------------
(* The objective store over Linear projects.  The invariant says how far   *)
(* the command has come (Course), what has no issue yet (Fresh, Waiting),  *)
(* and that an issue about to be stamped is the only one of its project    *)
(* that may carry the node id (OneStamp).  The carried issue is safe while *)
(* dropped ones are canceled because it was moved first (Moved).           *)

CONSTANTS MaxChanges, MaxFaults
VARIABLES proj, iss, rel, carry, policy, act, changes, faults

Store == INSTANCE LinearStore WITH me <- act, edits <- changes, MaxEdits <- MaxChanges

IssSet == [p : 0..2, text : Nat, node : Nat, st : {"open", "done", "canceled"}]
ProjSet == [header : BOOLEAN, manifest : SUBSET Nat, phases : SUBSET Nat,
            st : {"open", "completed"}, next : 0..2, mended : BOOLEAN]
Commands == {"none", "create", "defer", "replan", "finalize", "doctor", "add"}
Points == {"idle", "project", "header", "manifest", "phases", "node", "stamp", "edges",
           "super", "cancel", "complete", "backfill", "repair", "edge", "sync"}
MeSet == [cmd : Commands, pc : Points, p : 0..2, k : Nat, cur : Nat, nodes : SUBSET Nat,
          todo : SUBSET Nat]
StoreTyped == /\ iss \in Seq(IssSet) /\ proj \in [1..2 -> ProjSet] /\ act \in MeSet
              /\ carry \in 0..Len(iss) /\ policy \in {"defer", "replan"}
              /\ rel \subseteq (DOMAIN iss) \X (DOMAIN iss)

\* Node ids are given out one by one.
Top == 2 + changes
Counted == /\ changes \in 0..MaxChanges
           /\ \A q \in 1..2 : proj[q].manifest \subseteq 0..Top
           /\ \A i \in DOMAIN iss : iss[i].node <= Top

Awaited == /\ act.pc \in {"phases", "node", "stamp", "edge", "sync"} => act.k \in 1..Top
           /\ act.todo \subseteq 1..Top

Moved == carry # 0 /\ iss[carry].p = 2

\* How far a command has come.
Building == {"create", "defer", "replan"}
Course ==
    /\ act.pc \in {"project", "header", "manifest", "phases", "node", "edges"} =>
          act.cmd \in Building
    /\ act.pc \in {"backfill", "repair"} => act.cmd = "doctor"
    /\ act.pc # "idle" => act.p # 0
    /\ act.cmd = "create" => act.p = 1
    /\ act.cmd \in {"defer", "replan", "finalize"} => act.p = 2 /\ carry # 0
    /\ act.pc \in {"phases", "node"} => act.k \in 1..2
    /\ act.pc = "stamp" =>
          /\ act.cur \in DOMAIN iss
          /\ act.cmd \in Building \cup {"doctor", "add"}
          /\ act.cmd \in Building => act.k \in 1..2
    /\ act.pc \in {"manifest", "phases", "node", "stamp", "repair", "edges"} => proj[act.p].header
    /\ act.cmd \in {"defer", "replan"}
       /\ (act.pc \in {"stamp", "edges"} \/ (act.pc = "node" /\ act.k = 2))
          => Moved
    /\ act.pc \in {"super", "cancel"} => Moved

\* What has no issue yet.
Fresh ==
    /\ \A q \in 1..2 : ~ proj[q].header => Store!Issues(q) = {}
    /\ carry = 0 => ~ proj[2].header
    /\ ~ proj[2].mended /\ ~ Moved => Store!Issues(2) = {}

\* A creation that is not convergent works on an empty project.
Waiting ==
    act.cmd \in {"create", "replan"} =>
        /\ act.pc \in {"project", "header", "manifest", "phases"} => Store!Issues(act.p) = {}
        /\ act.pc = "node" => \A i \in Store!Issues(act.p) : iss[i].node < act.k

\* The issue to be stamped is the only one that may carry the node id.
OneStamp ==
    /\ act.pc = "stamp" =>
          /\ iss[act.cur].p \in {act.p, 0}
          /\ act.cmd \in {"create", "replan"} =>
                \A i \in Store!Issues(act.p) : i # act.cur => iss[i].node < act.k
          /\ ~ proj[act.p].mended =>
                \A i \in Store!Issues(act.p) : iss[i].node = act.k => i = act.cur
          /\ act.p = 2 /\ act.k = 1 /\ ~ proj[2].mended => act.cur = carry
    /\ ~ proj[2].mended => \A i \in Store!Issues(2) : iss[i].node = 1 => i = carry

NeverCanceled == carry = 0 => \A i \in DOMAIN iss : iss[i].st # "canceled"

LInv == /\ StoreTyped /\ Counted /\ Awaited /\ Course /\ Fresh /\ Waiting /\ OneStamp
        /\ Store!NodeIdsUnique
        /\ NeverCanceled /\ Store!CarriedSurvives

-----------------------------------------------------------------------------
\* What the writes leave.

LEMMA Grows ==
    ASSUME StoreTyped, NEW x \in IssSet, iss' = Append(iss, x)
    PROVE  /\ iss' \in Seq(IssSet) /\ Len(iss') = Len(iss) + 1
           /\ DOMAIN iss' = DOMAIN iss \cup {Len(iss) + 1} /\ Len(iss) + 1 \notin DOMAIN iss
           /\ \A i \in DOMAIN iss : iss'[i] = iss[i]
           /\ iss'[Len(iss) + 1] = x
  BY DEF StoreTyped

LEMMA Changes ==
    ASSUME StoreTyped, NEW c \in DOMAIN iss, NEW x \in IssSet, iss' = [iss EXCEPT ![c] = x]
    PROVE  /\ iss' \in Seq(IssSet) /\ Len(iss') = Len(iss) /\ DOMAIN iss' = DOMAIN iss
           /\ \A i \in DOMAIN iss \ {c} : iss'[i] = iss[i]
           /\ iss'[c] = x
  BY DEF StoreTyped

LEMMA IssueTyped ==
    ASSUME StoreTyped, NEW i \in DOMAIN iss
    PROVE  /\ iss[i].p \in 0..2 /\ iss[i].node \in Nat /\ iss[i].text \in Nat
           /\ iss[i].st \in {"open", "done", "canceled"}
           /\ i \in Nat /\ i # 0
<1>1. iss[i] \in IssSet /\ i \in 1..Len(iss)
  BY DEF StoreTyped
<1> QED
  BY <1>1 DEF IssSet

\* A new issue, without its node attachment.
Grown(p, w) ==
    /\ iss' \in Seq(IssSet) /\ Len(iss') = Len(iss) + 1 /\ w = Len(iss) + 1
    /\ DOMAIN iss' = DOMAIN iss \cup {w} /\ w \notin DOMAIN iss
    /\ \A i \in DOMAIN iss : iss'[i] = iss[i]
    /\ iss'[w].p = p /\ iss'[w].node = 0 /\ iss'[w].st = "open"

LEMMA GrownByAppend ==
    ASSUME StoreTyped, NEW p \in 0..2, NEW k \in Nat,
           iss' = Append(iss, [p |-> p, text |-> k, node |-> 0, st |-> "open"])
    PROVE  Grown(p, Len(iss) + 1)
<1>1. PICK x : x = [p |-> p, text |-> k, node |-> 0, st |-> "open"]
  OBVIOUS
<1>2. x \in IssSet /\ x.p = p /\ x.node = 0 /\ x.st = "open"
  BY <1>1 DEF IssSet
<1> QED
  BY <1>1, <1>2, Grows DEF Grown

\* One issue is changed.
Changed(c, p, n, s) ==
    /\ iss' \in Seq(IssSet) /\ Len(iss') = Len(iss) /\ DOMAIN iss' = DOMAIN iss
    /\ c \in DOMAIN iss
    /\ \A i \in DOMAIN iss \ {c} : iss'[i] = iss[i]
    /\ iss'[c].p = p /\ iss'[c].node = n /\ iss'[c].st = s

LEMMA PutProject ==
    ASSUME StoreTyped, NEW c \in DOMAIN iss, NEW p \in 0..2, iss' = [iss EXCEPT ![c].p = p]
    PROVE  Changed(c, p, iss[c].node, iss[c].st)
<1>1. PICK x : x = [iss[c] EXCEPT !.p = p]
  OBVIOUS
<1>2. iss[c] \in IssSet
  BY DEF StoreTyped
<1>3. x \in IssSet /\ x.p = p /\ x.node = iss[c].node /\ x.st = iss[c].st
  BY <1>1, <1>2 DEF IssSet
<1> QED
  BY <1>1, <1>3, Changes DEF Changed

LEMMA PutNode ==
    ASSUME StoreTyped, NEW c \in DOMAIN iss, NEW n \in Nat, iss' = [iss EXCEPT ![c].node = n]
    PROVE  Changed(c, iss[c].p, n, iss[c].st)
<1>1. PICK x : x = [iss[c] EXCEPT !.node = n]
  OBVIOUS
<1>2. iss[c] \in IssSet
  BY DEF StoreTyped
<1>3. x \in IssSet /\ x.p = iss[c].p /\ x.node = n /\ x.st = iss[c].st
  BY <1>1, <1>2 DEF IssSet
<1> QED
  BY <1>1, <1>3, Changes DEF Changed

LEMMA PutState ==
    ASSUME StoreTyped, NEW c \in DOMAIN iss, NEW s \in {"done", "canceled"},
           iss' = [iss EXCEPT ![c].st = s]
    PROVE  Changed(c, iss[c].p, iss[c].node, s)
<1>1. PICK x : x = [iss[c] EXCEPT !.st = s]
  OBVIOUS
<1>2. iss[c] \in IssSet
  BY DEF StoreTyped
<1>3. x \in IssSet /\ x.p = iss[c].p /\ x.node = iss[c].node /\ x.st = s
  BY <1>1, <1>2 DEF IssSet
<1> QED
  BY <1>1, <1>3, Changes DEF Changed

LEMMA ProjectSet ==
    ASSUME StoreTyped, NEW p \in 1..2, NEW x \in ProjSet, proj' = [proj EXCEPT ![p] = x]
    PROVE  /\ proj' \in [1..2 -> ProjSet] /\ proj'[p] = x
           /\ \A q \in 1..2 \ {p} : proj'[q] = proj[q]
  BY DEF StoreTyped

LEMMA IdleFields ==
    /\ Store!Idle \in MeSet /\ Store!Idle.pc = "idle" /\ Store!Idle.cmd = "none"
    /\ Store!Idle.p = 0 /\ Store!Idle.k = 0
    /\ Store!Idle.todo = {} /\ Store!Idle.cur = 0 /\ Store!Idle.nodes = {}
  BY DEF Store!Idle, MeSet, Commands, Points

LEMMA GoFields ==
    ASSUME act \in MeSet, NEW q \in Points, Store!Go(q)
    PROVE  /\ act' \in MeSet /\ act'.pc = q /\ act'.cmd = act.cmd /\ act'.p = act.p
           /\ act'.k = act.k
           /\ act'.cur = act.cur /\ act'.todo = act.todo /\ act'.nodes = act.nodes
  BY DEF Store!Go, MeSet

LEMMA NextFields ==
    ASSUME act \in MeSet, Store!NextNode
    PROVE  /\ act' \in MeSet /\ act'.pc = IF act.k = 2 THEN "edges" ELSE "node"
           /\ act'.cmd = act.cmd /\ act'.p = act.p /\ act'.k = act.k + 1
           /\ act'.todo = act.todo
<1>1. PICK q, k : q = (IF act.k = 2 THEN "edges" ELSE "node") /\ k = act.k + 1
  OBVIOUS
<1>2. q \in Points /\ k \in Nat
  BY <1>1 DEF MeSet, Points
<1>3. act' = [act EXCEPT !.pc = q, !.k = k, !.cur = 0]
  BY <1>1 DEF Store!NextNode
<1>4. act' \in MeSet /\ act'.pc = q /\ act'.cmd = act.cmd /\ act'.p = act.p /\ act'.k = k
      /\ act'.todo = act.todo
  BY <1>2, <1>3 DEF MeSet
<1> QED
  BY <1>1, <1>4

\* The least and the greatest member.
LEMMA StoreLeast ==
    ASSUME NEW S, S \subseteq Nat, S # {}
    PROVE  Store!Min(S) \in S
<1> DEFINE R == OpToRel(<, Nat)
<1>1. IsWellFoundedOn(R, Nat)
  BY NatLessThanWellFounded
<1>2. \A x, y \in Nat : <<x, y>> \in R <=> x < y
  BY DEF OpToRel
<1> HIDE DEF R
<1>3. PICK l \in S : \A k \in S : ~ (<<k, l>> \in R)
  BY <1>1, WFMin, Zenon
<1>4. ASSUME NEW k \in S PROVE l <= k
  <2>1. l \in Nat /\ k \in Nat /\ ~ (<<k, l>> \in R)
    BY <1>3
  <2>2. ~ (k < l)
    BY <1>2, <2>1
  <2> QED
    BY <2>1, <2>2
<1>5. \E x \in S : \A y \in S : x <= y
  BY <1>3, <1>4
<1> QED
  BY <1>5 DEF Store!Min

LEMMA StoreGreatest ==
    ASSUME NEW b \in Nat, NEW S, S \subseteq 0..b, S # {}
    PROVE  Store!Max(S) \in S /\ \A x \in S : x <= Store!Max(S)
<1> DEFINE U == {u \in Nat : \A x \in S : x <= u}
<1>1. b \in U
  OBVIOUS
<1> DEFINE R == OpToRel(<, Nat)
<1>2. IsWellFoundedOn(R, Nat)
  BY NatLessThanWellFounded
<1>3. \A x, y \in Nat : <<x, y>> \in R <=> x < y
  BY DEF OpToRel
<1>4. U \subseteq Nat
  OBVIOUS
<1> HIDE DEF R, U
<1>5. PICK l \in U : \A k \in U : ~ (<<k, l>> \in R)
  BY <1>1, <1>2, <1>4, WFMin, Zenon
<1>6. l \in Nat /\ (\A x \in S : x <= l) /\ (\A k \in U : ~ (k < l))
  BY <1>3, <1>4, <1>5 DEF U
<1>7. l \in S
  <2>1. SUFFICES ASSUME l \notin S PROVE FALSE
    OBVIOUS
  <2>2. \A x \in S : x \in Nat /\ x < l
    BY <1>6, <2>1
  <2>3. PICK z \in S : z \in Nat /\ z < l
    BY <2>2
  <2>4. l - 1 \in Nat
    BY <1>6, <2>3
  <2>5. \A x \in S : x <= l - 1
    BY <1>6, <2>2
  <2> QED
    BY <1>6, <2>4, <2>5 DEF U
<1>8. \E x \in S : \A y \in S : x >= y
  BY <1>6, <1>7
<1>9. Store!Max(S) \in S /\ \A y \in S : Store!Max(S) >= y
  BY <1>8 DEF Store!Max
<1>10. \A y \in S : y \in Nat
  OBVIOUS
<1>11. Store!Max(S) \in Nat
  BY <1>9, <1>10
<1> QED
  BY <1>9, <1>10, <1>11

-----------------------------------------------------------------------------
\* A step that stamps nothing, moves no issue, and takes no node id.

ProjStep ==
    /\ proj' \in [1..2 -> ProjSet]
    /\ \A q \in 1..2 : /\ proj[q].header => proj'[q].header
                       /\ proj'[q].mended = proj[q].mended
                       /\ proj'[q].manifest \subseteq 0..Top
    /\ carry = 0 => ~ proj'[2].header

SameProjects ==
    /\ proj' \in [1..2 -> ProjSet]
    /\ \A q \in 1..2 : /\ proj'[q].header = proj[q].header /\ proj'[q].mended = proj[q].mended
                       /\ proj'[q].manifest = proj[q].manifest

Restated ==
    /\ iss' \in Seq(IssSet) /\ Len(iss') = Len(iss) /\ DOMAIN iss' = DOMAIN iss
    /\ \A i \in DOMAIN iss : iss'[i].p = iss[i].p /\ iss'[i].node = iss[i].node

Links == rel' \subseteq (DOMAIN iss) \X (DOMAIN iss)
Spent == changes' \in 0..MaxChanges /\ changes <= changes'

LEMMA SameProjectsStep == ASSUME LInv, SameProjects PROVE ProjStep
  BY DEF LInv, Counted, Fresh, SameProjects, ProjStep

LEMMA SameIssues ==
    ASSUME DOMAIN iss' = DOMAIN iss, \A i \in DOMAIN iss : iss'[i].p = iss[i].p
    PROVE  \A q : Store!Issues(q)' = Store!Issues(q)
  BY DEF Store!Issues

LEMMA IssuesIn ==
    \A q : Store!Issues(q) \subseteq DOMAIN iss /\ \A i \in Store!Issues(q) : iss[i].p = q
  BY DEF Store!Issues

LEMMA CarryIn == ASSUME StoreTyped, carry # 0 PROVE carry \in DOMAIN iss
  BY DEF StoreTyped

LEMMA TwoMore ==
    ASSUME NEW a \in Nat, NEW b \in Nat, a <= b
    PROVE  2 + a \in Nat /\ 2 + b \in Nat /\ 2 + a <= 2 + b /\ 2 <= 2 + a
  OBVIOUS

LEMMA TopGrows ==
    ASSUME Counted, Spent
    PROVE  changes \in Nat /\ Top \in Nat /\ Top' \in Nat /\ Top <= Top' /\ 2 <= Top
<1>1. changes \in Nat /\ changes' \in Nat /\ changes <= changes'
  BY DEF Spent, Counted
<1>2. Top = 2 + changes /\ Top' = 2 + changes'
  BY DEF Top
<1>3. PICK a, b \in Nat : a = changes /\ b = changes' /\ a <= b
  BY <1>1
<1>4. 2 + a \in Nat /\ 2 + b \in Nat /\ 2 + a <= 2 + b /\ 2 <= 2 + a
  BY <1>3, TwoMore
<1> QED
  BY <1>1, <1>2, <1>3, <1>4

LEMMA QuietKeeps ==
    ASSUME MaxChanges \in Nat, LInv, Restated, UNCHANGED <<carry, policy>>, ProjStep, Links,
           Spent,
           NeverCanceled', Store!CarriedSurvives', act' \in MeSet, act'.pc # "stamp",
           Awaited', Course', Waiting'
    PROVE  LInv'
<1>1. StoreTyped /\ Counted /\ Fresh /\ OneStamp /\ Store!NodeIdsUnique
  BY DEF LInv
<1>2. \A q : Store!Issues(q)' = Store!Issues(q)
  BY SameIssues DEF Restated
<1>3. StoreTyped'
  BY <1>1 DEF StoreTyped, Restated, ProjStep, Links
<1>4. Moved' = Moved
  BY <1>1, CarryIn DEF Moved, Restated
<1>5. Counted'
  <2>1. Top \in Nat /\ Top' \in Nat /\ Top <= Top'
    BY <1>1, TopGrows
  <2>2. \A q \in 1..2 : proj'[q].manifest \subseteq 0..Top'
    BY <2>1 DEF ProjStep
  <2>3. \A i \in DOMAIN iss' : iss'[i].node <= Top'
    <3>1. SUFFICES ASSUME NEW i \in DOMAIN iss PROVE iss'[i].node <= Top'
      BY DEF Restated
    <3>2. iss[i].node \in Nat /\ iss[i].node <= Top /\ iss'[i].node = iss[i].node
      BY <1>1, IssueTyped DEF Restated, Counted
    <3> QED
      BY <2>1, <3>2
  <2> QED
    BY <2>2, <2>3 DEF Counted, Spent
<1>6. Fresh'
  BY <1>1, <1>2, <1>4 DEF Fresh, ProjStep
<1>7. \A q, i : i \in Store!Issues(q) => iss'[i].node = iss[i].node
  BY IssuesIn DEF Restated
<1>8. OneStamp'
  BY <1>1, <1>2, <1>7 DEF OneStamp, ProjStep
<1>9. Store!NodeIdsUnique'
  BY <1>1, <1>2, <1>7 DEF Store!NodeIdsUnique, ProjStep
<1> QED
  BY <1>3, <1>5, <1>6, <1>8, <1>9 DEF LInv

LEMMA SameIss ==
    ASSUME LInv, UNCHANGED <<iss, carry>>
    PROVE  Restated /\ NeverCanceled' /\ Store!CarriedSurvives'
  BY DEF LInv, StoreTyped, Restated, NeverCanceled, Store!CarriedSurvives

\* ... and leaves the course of the command to be shown.
LEMMA CalmKeeps ==
    ASSUME MaxChanges \in Nat, LInv, UNCHANGED <<iss, carry, policy>>, ProjStep, Links, Spent,
           act' \in MeSet, act'.pc # "stamp", Awaited', Course', Waiting'
    PROVE  LInv'
  BY SameIss, QuietKeeps

LEMMA IdleCourse ==
    ASSUME LInv, act' = Store!Idle
    PROVE  /\ act' \in MeSet /\ act'.pc # "stamp" /\ Awaited' /\ Course' /\ Waiting'
<1>1. act' \in MeSet /\ act'.pc = "idle" /\ act'.cmd = "none" /\ act'.todo = {}
  BY IdleFields
<1>2. act'.pc # "stamp"
  BY <1>1
<1>3. Awaited' /\ Waiting'
  BY <1>1 DEF Awaited, Waiting
<1>4. Course'
  BY <1>1 DEF Course, Building
<1> QED
  BY <1>1, <1>2, <1>3, <1>4

LEMMA NoEdit ==
    ASSUME LInv, changes' = changes, rel' = rel
    PROVE  Links /\ Spent
  BY DEF LInv, StoreTyped, Counted, Links, Spent

LEMMA ProjUnchanged ==
    ASSUME LInv, proj' = proj
    PROVE  SameProjects /\ ProjStep
<1>1. SameProjects
  BY DEF LInv, StoreTyped, SameProjects
<1> QED
  BY <1>1, SameProjectsStep

LEMMA MeIn ==
    ASSUME LInv
    PROVE  /\ act \in MeSet /\ act.pc \in Points /\ act.cmd \in Commands /\ act.p \in 0..2
              /\ act.k \in Nat
           /\ act.pc # "idle" => act.p \in 1..2
  BY DEF LInv, StoreTyped, MeSet, Course

-----------------------------------------------------------------------------
\* Creating a project, and converging on one.

LEMMA BeginKeeps ==
    ASSUME MaxChanges \in Nat, LInv, NEW c \in {"create", "defer", "replan"}, NEW p \in 1..2,
           Store!Begin(c, p)
    PROVE  LInv'
<1>1. /\ act = Store!Idle /\ UNCHANGED <<proj, iss, rel, policy, changes>>
      /\ c = "create" => p = 1 /\ carry' = carry
      /\ c # "create" => /\ p = 2
                         /\ \/ carry' = carry /\ carry # 0
                            \/ carry = 0 /\ carry' \in Store!Hits(1, 2)
      /\ ~ (c # "defer" /\ proj[p].header)
  BY DEF Store!Begin, LInv, StoreTyped
<1>2. PICK q : /\ q = IF proj[p].header THEN "manifest" ELSE "project"
               /\ act' = [Store!Idle EXCEPT !.cmd = c, !.p = p, !.pc = q]
  BY DEF Store!Begin
<1>3. /\ act' \in MeSet /\ act'.pc = q /\ act'.cmd = c /\ act'.p = p /\ act'.todo = {}
  <2>1. q \in Points /\ c \in Commands /\ p \in 0..2
    BY <1>2 DEF Points, Commands
  <2>2. PICK v : v = Store!Idle
    OBVIOUS
  <2>3. v \in MeSet /\ v.todo = {} /\ act' = [v EXCEPT !.cmd = c, !.p = p, !.pc = q]
    BY <1>2, <2>2, IdleFields
  <2> QED
    BY <2>1, <2>3 DEF MeSet
<1>4. /\ q \in {"manifest", "project"} /\ (q = "manifest" => proj[p].header)
  BY <1>2
<1>5. Awaited'
  BY <1>3, <1>4 DEF Awaited
<1>6. carry' = 0 => carry = 0
  BY <1>1, IssuesIn, IssueTyped DEF LInv, Store!Hits
<1>7. c # "create" => carry' # 0
  <2>1. ASSUME carry' \in Store!Hits(1, 2) PROVE carry' # 0
    BY <2>1, IssuesIn, IssueTyped DEF LInv, Store!Hits
  <2> QED
    BY <1>1, <2>1
<1>8. Course'
  BY <1>1, <1>3, <1>4, <1>7 DEF Course, Building
<1>9. Waiting'
  <2>1. c # "defer" => Store!Issues(p) = {}
    BY <1>1 DEF LInv, Fresh
  <2> QED
    BY <1>1, <1>3, <1>4, <2>1 DEF Waiting, Store!Issues
<1>10. CASE carry' = carry
  BY <1>1, <1>3, <1>4, <1>5, <1>8, <1>9, <1>10, CalmKeeps, ProjUnchanged, NoEdit
<1>11. CASE carry = 0 /\ carry' \in Store!Hits(1, 2)
  <2>1. StoreTyped /\ Counted /\ Fresh /\ OneStamp /\ Store!NodeIdsUnique /\ NeverCanceled
    BY DEF LInv
  <2>2. carry' \in DOMAIN iss /\ iss[carry'].p = 1
    BY <1>11, IssuesIn DEF Store!Hits
  <2>3. StoreTyped'
    BY <1>1, <1>3, <2>1, <2>2 DEF StoreTyped
  <2>4. ~ Moved' /\ ~ Moved
    BY <1>1, <1>11, <2>2 DEF Moved
  <2>5. Counted'
    BY <1>1, <2>1 DEF Counted, Top
  <2>6. \A r : Store!Issues(r)' = Store!Issues(r)
    BY <1>1 DEF Store!Issues
  <2>7. Store!Issues(2) = {}
    BY <1>11, <2>1 DEF Fresh
  <2>8. Fresh'
    BY <1>1, <1>6, <1>7, <1>11, <2>1, <2>4, <2>6, <2>7 DEF Fresh
  <2>9. OneStamp'
    BY <1>1, <1>3, <1>4, <2>6, <2>7 DEF OneStamp
  <2>10. Store!NodeIdsUnique'
    BY <1>1, <2>1, <2>6 DEF Store!NodeIdsUnique
  <2>11. NeverCanceled' /\ Store!CarriedSurvives'
    BY <1>1, <1>11, <2>1, <2>2, IssueTyped DEF NeverCanceled, Store!CarriedSurvives
  <2> QED
    BY <1>5, <1>8, <1>9, <2>3, <2>5, <2>8, <2>9, <2>10, <2>11 DEF LInv
<1> QED
  BY <1>1, <1>10, <1>11

LEMMA ProjectKeeps == ASSUME MaxChanges \in Nat, LInv, Store!Project PROVE LInv'
<1>1. /\ act.pc = "project" /\ UNCHANGED <<proj, iss, rel, carry, policy, changes>>
      /\ Store!Go("header")
  BY DEF Store!Project
<1>2. act' \in MeSet /\ act'.pc = "header" /\ act'.cmd = act.cmd /\ act'.p = act.p
      /\ act'.todo = act.todo
  BY <1>1, MeIn, GoFields DEF Points
<1>3. Awaited' /\ Course' /\ Waiting'
  BY <1>1, <1>2 DEF LInv, Awaited, Course, Waiting, Building, Top, Store!Issues, Moved
<1> QED
  BY <1>1, <1>2, <1>3, CalmKeeps, ProjUnchanged, NoEdit

LEMMA HeaderKeeps == ASSUME MaxChanges \in Nat, LInv, Store!Header PROVE LInv'
<1>1. /\ act.pc = "header" /\ UNCHANGED <<iss, rel, carry, policy, changes>>
      /\ Store!Go("manifest") /\ proj' = [proj EXCEPT ![act.p].header = TRUE]
  BY DEF Store!Header
<1>2. act' \in MeSet /\ act'.pc = "manifest" /\ act'.cmd = act.cmd /\ act'.p = act.p
      /\ act'.todo = act.todo
  BY <1>1, MeIn, GoFields DEF Points
<1>3. act.p \in 1..2
  BY <1>1, MeIn
<1>4. PICK x : x = [proj[act.p] EXCEPT !.header = TRUE]
  OBVIOUS
<1>5. /\ x \in ProjSet /\ x.header = TRUE /\ x.mended = proj[act.p].mended
      /\ x.manifest = proj[act.p].manifest
  BY <1>3, <1>4, ZenonT(60) DEF LInv, StoreTyped, ProjSet
<1>6. proj' \in [1..2 -> ProjSet] /\ proj'[act.p] = x
      /\ \A q \in 1..2 \ {act.p} : proj'[q] = proj[q]
  BY <1>1, <1>3, <1>4, <1>5, ProjectSet DEF LInv
<1>7. carry = 0 => act.p # 2
  BY <1>1 DEF LInv, Course, Building
<1>8. ProjStep
  BY <1>3, <1>5, <1>6, <1>7 DEF ProjStep, LInv, Counted, Fresh
<1>9. Awaited' /\ Waiting'
  BY <1>1, <1>2 DEF LInv, Awaited, Waiting, Top, Store!Issues
<1>10. Course'
  BY <1>1, <1>2, <1>5, <1>6 DEF LInv, Course, Building, Moved
<1> QED
  BY <1>1, <1>2, <1>8, <1>9, <1>10, CalmKeeps, NoEdit

\* A project gets a manifest, milestones, a state or a successor.
Described(p, x) == /\ p \in 1..2 /\ x \in ProjSet
                   /\ x.header = proj[p].header /\ x.mended = proj[p].mended
                   /\ x.manifest \subseteq 0..Top
                   /\ proj' = [proj EXCEPT ![p] = x]

LEMMA DescribedStep ==
    ASSUME LInv, NEW p, NEW x, Described(p, x)
    PROVE  ProjStep /\ \A q \in 1..2 : proj'[q].header = proj[q].header
<1>1. proj' \in [1..2 -> ProjSet] /\ proj'[p] = x /\ \A q \in 1..2 \ {p} : proj'[q] = proj[q]
  BY ProjectSet DEF Described, LInv
<1>2. \A q \in 1..2 : proj'[q].header = proj[q].header /\ proj'[q].mended = proj[q].mended
  BY <1>1 DEF Described
<1>3. \A q \in 1..2 : proj'[q].manifest \subseteq 0..Top
  BY <1>1 DEF Described, LInv, Counted
<1> QED
  BY <1>1, <1>2, <1>3 DEF ProjStep, LInv, Fresh

LEMMA ManifestKeeps == ASSUME MaxChanges \in Nat, LInv, Store!Manifest PROVE LInv'
<1>1. /\ act.pc = "manifest" /\ UNCHANGED <<iss, rel, carry, policy, changes>>
      /\ act' = [act EXCEPT !.pc = "phases", !.k = 1]
      /\ act.p \in 1..2
  BY MeIn DEF Store!Manifest
<1>2. /\ act' \in MeSet /\ act'.pc = "phases" /\ act'.cmd = act.cmd /\ act'.p = act.p
      /\ act'.todo = act.todo /\ act'.k = 1
  BY <1>1, MeIn DEF MeSet, Points
<1>3. PICK m : m = IF proj[act.p].manifest = Store!Absent THEN Store!Roadmap
                   ELSE proj[act.p].manifest
  OBVIOUS
<1>4. proj' = [proj EXCEPT ![act.p].manifest = m]
  BY <1>3 DEF Store!Manifest
<1>5. changes \in Nat /\ m \subseteq 0..Top /\ m \subseteq Nat /\ 1 \in 1..Top
  BY <1>1, <1>3 DEF LInv, Counted, Store!Roadmap, Top
<1>6. PICK x : x = [proj[act.p] EXCEPT !.manifest = m]
  OBVIOUS
<1>7. Described(act.p, x)
  BY <1>1, <1>4, <1>5, <1>6, SMTT(60) DEF LInv, StoreTyped, ProjSet, Described
<1>8. ProjStep /\ \A q \in 1..2 : proj'[q].header = proj[q].header
  BY <1>7, DescribedStep
<1>9. Awaited'
  BY <1>1, <1>2, <1>5 DEF LInv, Awaited, Top
<1>10. Waiting'
  BY <1>1, <1>2 DEF LInv, Waiting, Store!Issues
<1>11. Course'
  BY <1>1, <1>2, <1>8 DEF LInv, Course, Building, Moved
<1> QED
  BY <1>1, <1>2, <1>8, <1>9, <1>10, <1>11, CalmKeeps, NoEdit

LEMMA MilestoneKeeps == ASSUME MaxChanges \in Nat, LInv, Store!Milestone PROVE LInv'
<1>1. /\ act.pc = "phases" /\ UNCHANGED <<iss, rel, carry, policy, changes>>
      /\ proj' = [proj EXCEPT ![act.p].phases = @ \cup {act.k}]
      /\ act.p \in 1..2 /\ act.k \in 1..2
  BY MeIn DEF Store!Milestone, LInv, Course
<1>2. PICK k, q : /\ k = (IF act.k = 2 THEN 1 ELSE 2)
                  /\ q = (IF act.k = 2 THEN "node" ELSE "phases")
                  /\ act' = [act EXCEPT !.k = k, !.pc = q]
  BY DEF Store!Milestone
<1>3. k \in 1..2 /\ q \in {"node", "phases"} /\ (q = "node" => k = 1)
  BY <1>1, <1>2
<1>4. /\ act' \in MeSet /\ act'.pc = q /\ act'.cmd = act.cmd /\ act'.p = act.p
      /\ act'.todo = act.todo /\ act'.k = k
  BY <1>2, <1>3, MeIn, ZenonT(60) DEF MeSet, Points
<1>5. PICK f : f = proj[act.p].phases \cup {act.k}
  OBVIOUS
<1>6. PICK x : x = [proj[act.p] EXCEPT !.phases = f]
  OBVIOUS
<1>7. Described(act.p, x)
  <2>1. proj[act.p] \in ProjSet /\ f \subseteq Nat
    BY <1>1, <1>5 DEF LInv, StoreTyped, ProjSet
  <2>2. proj[act.p].manifest \subseteq 0..Top
    BY <1>1 DEF LInv, Counted
  <2>3. proj' = [proj EXCEPT ![act.p] = x]
    BY <1>1, <1>5, <1>6
  <2> QED
    BY <1>1, <1>6, <2>1, <2>2, <2>3 DEF ProjSet, Described
<1>8. ProjStep /\ \A r \in 1..2 : proj'[r].header = proj[r].header
  BY <1>7, DescribedStep
<1>9. Awaited'
  BY <1>1, <1>3, <1>4 DEF LInv, Awaited, Top, Counted
<1>10. Waiting'
  BY <1>1, <1>3, <1>4 DEF LInv, Waiting, Store!Issues
<1>11. Course'
  BY <1>1, <1>3, <1>4, <1>8 DEF LInv, Course, Building, Moved
<1> QED
  BY <1>1, <1>3, <1>4, <1>8, <1>9, <1>10, <1>11, CalmKeeps, NoEdit

-----------------------------------------------------------------------------
\* The issue of a node.

LEMMA GrownTyped ==
    ASSUME MaxChanges \in Nat, LInv, NEW p, NEW w, Grown(p, w),
           UNCHANGED <<rel, carry, policy>>, Spent,
           proj' \in [1..2 -> ProjSet], \A q \in 1..2 : proj'[q].manifest \subseteq 0..Top',
           act' \in MeSet
    PROVE  StoreTyped' /\ Counted'
<1>1. StoreTyped /\ Counted
  BY DEF LInv
<1>2. Top \in Nat /\ Top' \in Nat /\ Top <= Top'
  BY <1>1, TopGrows
<1>3. StoreTyped'
  BY <1>1 DEF StoreTyped, Grown
<1>4. \A i \in DOMAIN iss' : iss'[i].node <= Top'
  <2>1. SUFFICES ASSUME NEW i \in DOMAIN iss, i # w PROVE iss'[i].node <= Top'
    BY <1>2 DEF Grown
  <2>2. iss[i].node \in Nat /\ iss[i].node <= Top /\ iss'[i].node = iss[i].node
    BY <1>1, IssueTyped DEF Grown, Counted
  <2> QED
    BY <1>2, <2>2
<1> QED
  BY <1>3, <1>4 DEF Counted, Spent

LEMMA PutTyped ==
    ASSUME LInv, NEW c, NEW p, NEW n \in 0..Top, NEW s, Changed(c, p, n, s),
           UNCHANGED <<proj, rel, carry, policy, changes>>, act' \in MeSet
    PROVE  StoreTyped' /\ Counted'
<1>1. StoreTyped /\ Counted
  BY DEF LInv
<1>2. Top' = Top
  BY DEF Top
<1>3. StoreTyped'
  BY <1>1 DEF StoreTyped, Changed
<1>4. \A i \in DOMAIN iss' : iss'[i].node <= Top'
  <2>1. SUFFICES ASSUME NEW i \in DOMAIN iss PROVE iss'[i].node <= Top'
    BY DEF Changed
  <2>2. CASE i = c
    <3>1. iss'[i].node = n /\ n <= Top
      BY <1>1, <2>2 DEF Changed, Counted
    <3> QED
      BY <1>2, <3>1
  <2>3. CASE i # c
    BY <1>1, <1>2, <2>3 DEF Changed, Counted
  <2> QED
    BY <2>2, <2>3
<1> QED
  BY <1>1, <1>2, <1>3, <1>4 DEF Counted

LEMMA NodeFacts ==
    ASSUME LInv, act.pc = "node"
    PROVE  /\ act.p \in 1..2 /\ act.k \in 1..2 /\ act.cmd \in Building /\ proj[act.p].header
           /\ act.cmd = "create" => act.p = 1
           /\ act.cmd # "create" => act.p = 2 /\ carry # 0
           /\ ~ Store!Carried(act.p, act.k) /\ act.cmd # "create" => act.k = 2 /\ Moved
  BY MeIn DEF LInv, Course, Building, Store!Carried

LEMMA StampEntered ==
    ASSUME LInv, act.pc = "node", NEW c \in Nat, c \in DOMAIN iss',
           act' = [act EXCEPT !.pc = "stamp", !.cur = c], UNCHANGED <<proj, carry, changes>>,
           act.cmd # "create" => Moved'
    PROVE  /\ act' \in MeSet /\ act'.pc = "stamp" /\ act'.cmd = act.cmd /\ act'.p = act.p
           /\ act'.k = act.k /\ act'.cur = c
           /\ Awaited' /\ Course' /\ Waiting'
<1>1. /\ act' \in MeSet /\ act'.pc = "stamp" /\ act'.cmd = act.cmd /\ act'.p = act.p
      /\ act'.k = act.k /\ act'.cur = c /\ act'.todo = act.todo
  BY MeIn DEF MeSet, Points
<1>2. Awaited'
  BY <1>1 DEF LInv, Awaited, Top
<1>3. Waiting'
  BY <1>1 DEF Waiting
<1>4. Course'
  BY <1>1, NodeFacts DEF LInv, Course, Building
<1> QED
  BY <1>1, <1>2, <1>3, <1>4

\* The carried issue is moved into the project of the successor.
LEMMA MoveKeeps ==
    ASSUME LInv, act.pc = "node", Store!Carried(act.p, act.k), iss' = [iss EXCEPT ![carry].p = 2],
           act' = [act EXCEPT !.pc = "stamp", !.cur = carry],
           UNCHANGED <<proj, rel, carry, policy, changes>>
    PROVE  LInv'
<1>1. /\ StoreTyped /\ Counted /\ Fresh /\ Waiting /\ OneStamp /\ Store!NodeIdsUnique
      /\ NeverCanceled /\ Store!CarriedSurvives
  BY DEF LInv
<1>2. /\ act.p = 2 /\ act.k = 1 /\ act.cmd \in {"defer", "replan"} /\ proj[2].header
      /\ carry \in DOMAIN iss /\ carry \in Nat /\ carry # 0
  BY <1>1, NodeFacts, CarryIn, IssueTyped DEF Store!Carried, Building
<1>3. Changed(carry, 2, iss[carry].node, iss[carry].st)
  <2>1. PICK c : c = carry
    OBVIOUS
  <2>2. c \in DOMAIN iss /\ iss' = [iss EXCEPT ![c].p = 2] /\ 2 \in 0..2
    BY <1>2, <2>1
  <2>3. Changed(c, 2, iss[c].node, iss[c].st)
    BY <1>1, <2>2, PutProject
  <2> QED
    BY <2>1, <2>3
<1>4. Moved' /\ carry \in DOMAIN iss'
  BY <1>2, <1>3 DEF Moved, Changed
<1>5. /\ act' \in MeSet /\ act'.pc = "stamp" /\ act'.cmd = act.cmd /\ act'.p = 2
      /\ act'.k = 1 /\ act'.cur = carry
      /\ Awaited' /\ Course' /\ Waiting'
  BY <1>2, <1>4, StampEntered
<1>6. iss[carry].node \in 0..Top
  BY <1>1, <1>2, IssueTyped, TopGrows DEF Counted, Spent, Top
<1>7. StoreTyped' /\ Counted'
  BY <1>3, <1>5, <1>6, PutTyped
<1>8. /\ Store!Issues(2)' = Store!Issues(2) \cup {carry}
      /\ Store!Issues(1)' = Store!Issues(1) \ {carry}
      /\ \A i \in DOMAIN iss : iss'[i].node = iss[i].node /\ iss'[i].st = iss[i].st
      /\ DOMAIN iss' = DOMAIN iss
  BY <1>2, <1>3 DEF Changed, Store!Issues
<1>9. Fresh'
  BY <1>1, <1>2, <1>4, <1>8 DEF Fresh
<1>10. ~ proj[2].mended => \A i \in Store!Issues(2) : iss[i].node = 1 => i = carry
  BY <1>1 DEF OneStamp
<1>11. OneStamp'
  <2>1. iss'[carry].p = 2
    BY <1>3 DEF Changed
  <2>2. act.cmd = "replan" => \A i \in Store!Issues(2) : iss[i].node < 1
    BY <1>1, <1>2 DEF Waiting
  <2> QED
    BY <1>2, <1>5, <1>8, <1>10, <2>1, <2>2, IssuesIn DEF OneStamp
<1>12. Store!NodeIdsUnique'
  <2>1. ASSUME ~ proj[2].mended PROVE Store!Issues(2)' = Store!Issues(2) \/ Store!Issues(2) = {}
    BY <1>1, <1>2, <1>8, <2>1 DEF Fresh, Moved, Store!Issues
  <2>2. ASSUME ~ proj[2].mended, NEW i \in Store!Issues(2)', NEW j \in Store!Issues(2)',
               iss'[i].node # 0, iss'[i].node = iss'[j].node
        PROVE  i = j
    BY <1>1, <1>8, <2>1, <2>2, IssuesIn DEF Store!NodeIdsUnique
  <2>3. ASSUME ~ proj[1].mended, NEW i \in Store!Issues(1)', NEW j \in Store!Issues(1)',
               iss'[i].node # 0, iss'[i].node = iss'[j].node
        PROVE  i = j
    BY <1>1, <1>8, <2>3, IssuesIn DEF Store!NodeIdsUnique
  <2> QED
    BY <2>2, <2>3 DEF Store!NodeIdsUnique
<1>13. NeverCanceled' /\ Store!CarriedSurvives'
  BY <1>1, <1>2, <1>8 DEF NeverCanceled, Store!CarriedSurvives
<1> QED
  BY <1>5, <1>7, <1>9, <1>11, <1>12, <1>13 DEF LInv

\* An interrupted creation is taken up.
LEMMA RecoverKeeps ==
    ASSUME MaxChanges \in Nat, LInv, act.pc = "node", ~ Store!Carried(act.p, act.k),
           act.cmd = "defer",
           Store!Hits(act.p, act.k) = {}, NEW row \in Store!Interrupted(act.p, act.k),
           act' = [act EXCEPT !.pc = "stamp", !.cur = row],
           UNCHANGED <<iss, proj, rel, carry, policy, changes>>
    PROVE  LInv'
<1>1. /\ StoreTyped /\ Counted /\ Fresh /\ Waiting /\ OneStamp /\ Store!NodeIdsUnique
      /\ NeverCanceled /\ Store!CarriedSurvives
  BY DEF LInv
<1>2. /\ act.p = 2 /\ act.k = 2 /\ proj[2].header /\ Moved
  BY NodeFacts DEF Building
<1>3. row \in Store!Issues(2) /\ row \in DOMAIN iss /\ row \in Nat
  BY <1>1, <1>2, IssuesIn, IssueTyped DEF Store!Interrupted
<1>4. /\ act' \in MeSet /\ act'.pc = "stamp" /\ act'.cmd = act.cmd /\ act'.p = 2
      /\ act'.k = 2 /\ act'.cur = row
      /\ Awaited' /\ Course' /\ Waiting'
  <2>1. Moved'
    BY <1>2 DEF Moved
  <2> QED
    BY <1>2, <1>3, <2>1, StampEntered
<1>5. \A q : Store!Issues(q)' = Store!Issues(q)
  BY DEF Store!Issues
<1>6. StoreTyped' /\ Counted'
  BY <1>1, <1>4 DEF StoreTyped, Counted, Top
<1>7. Fresh'
  BY <1>1, <1>5 DEF Fresh, Moved
<1>8. OneStamp'
  <2>1. \A i \in Store!Issues(2) : iss[i].node # 2
    BY <1>2 DEF Store!Hits
  <2> QED
    BY <1>1, <1>3, <1>4, <1>5, <2>1, IssuesIn DEF OneStamp
<1>9. Store!NodeIdsUnique' /\ NeverCanceled' /\ Store!CarriedSurvives'
  BY <1>1, <1>5 DEF Store!NodeIdsUnique, NeverCanceled, Store!CarriedSurvives
<1> QED
  BY <1>4, <1>6, <1>7, <1>8, <1>9 DEF LInv

\* A fresh issue, to be stamped with a node id that no issue of its project has.
Spare(p, k) ==
    /\ ~ proj'[p].mended => \A i \in Store!Issues(p) : iss[i].node # k
    /\ p = 2 /\ ~ proj'[2].mended => k # 1 /\ Moved

Marked == /\ proj' \in [1..2 -> ProjSet]
          /\ \A q \in 1..2 : /\ proj'[q].header = proj[q].header
                             /\ proj[q].mended => proj'[q].mended
                             /\ proj'[q].manifest = proj[q].manifest

LEMMA GrownMoved ==
    ASSUME StoreTyped, NEW p, NEW w, Grown(p, w), carry' = carry
    PROVE  Moved' = Moved
<1>1. carry # 0 => carry \in DOMAIN iss
  BY CarryIn
<1> QED
  BY <1>1 DEF Moved, Grown

LEMMA GrownKeeps ==
    ASSUME MaxChanges \in Nat, LInv, NEW p \in 1..2, NEW k \in Nat, k # 0, NEW w, Grown(p, w),
           UNCHANGED <<rel, carry, policy>>, Spent, Marked, proj[p].header, Spare(p, k),
           act' \in MeSet, act'.pc = "stamp", act'.p = p, act'.k = k, act'.cur = w,
           act'.cmd \in {"create", "replan"} => \A i \in Store!Issues(p) : iss[i].node < k,
           Awaited', Course'
    PROVE  LInv'
<1>1. /\ StoreTyped /\ Counted /\ Fresh /\ OneStamp /\ Store!NodeIdsUnique
      /\ NeverCanceled /\ Store!CarriedSurvives
  BY DEF LInv
<1>2. \A q \in 1..2 : proj'[q].manifest \subseteq 0..Top'
  BY <1>1, TopGrows DEF Marked, Counted
<1>3. StoreTyped' /\ Counted'
  BY <1>2, GrownTyped DEF Marked
<1>4. Moved' = Moved
  BY <1>1, GrownMoved
<1>5. /\ Store!Issues(p)' = Store!Issues(p) \cup {w} /\ w \notin Store!Issues(p)
      /\ \A q \in 1..2 \ {p} : Store!Issues(q)' = Store!Issues(q)
      /\ \A i \in DOMAIN iss : iss'[i] = iss[i]
      /\ iss'[w].p = p /\ iss'[w].node = 0 /\ iss'[w].st = "open"
      /\ DOMAIN iss' = DOMAIN iss \cup {w}
  BY DEF Grown, Store!Issues
<1>6. Fresh'
  BY <1>1, <1>4, <1>5 DEF Fresh, Marked, Spare
<1>7. Waiting'
  BY DEF Waiting
<1>8. \A q \in 1..2 : \A i \in Store!Issues(q)' :
         (i \in Store!Issues(q) /\ iss'[i] = iss[i]) \/ (i = w /\ q = p)
  BY <1>5, IssuesIn
<1>9. OneStamp'
  <2>1. iss'[act'.cur].p = p
    BY <1>5
  <2>2. act'.cmd \in {"create", "replan"} =>
            \A i \in Store!Issues(p)' : i # w => iss'[i].node < k
    BY <1>8
  <2>3. ~ proj'[p].mended => \A i \in Store!Issues(p)' : iss'[i].node = k => i = w
    BY <1>8 DEF Spare
  <2>4. p = 2 /\ k = 1 /\ ~ proj'[2].mended => w = carry
    BY DEF Spare
  <2>5. ~ proj'[2].mended => \A i \in Store!Issues(2)' : iss'[i].node = 1 => i = carry
    <3>1. ~ proj'[2].mended => ~ proj[2].mended
      BY DEF Marked
    <3>2. \A i \in Store!Issues(2)' : iss'[i].node = 1 => i \in Store!Issues(2) /\ iss[i].node = 1
      BY <1>5, <1>8
    <3> QED
      BY <1>1, <3>1, <3>2 DEF OneStamp
  <2> QED
    BY <2>1, <2>2, <2>3, <2>4, <2>5 DEF OneStamp
<1>10. Store!NodeIdsUnique'
  <2>1. SUFFICES ASSUME NEW q \in 1..2, ~ proj'[q].mended, NEW i \in Store!Issues(q)',
                        NEW j \in Store!Issues(q)', iss'[i].node # 0, iss'[i].node = iss'[j].node
                 PROVE  i = j
    BY DEF Store!NodeIdsUnique
  <2>2. i \in Store!Issues(q) /\ iss'[i] = iss[i] /\ j \in Store!Issues(q) /\ iss'[j] = iss[j]
    BY <1>5, <1>8, <2>1
  <2>3. ~ proj[q].mended
    BY <2>1 DEF Marked
  <2> QED
    BY <1>1, <2>1, <2>2, <2>3 DEF Store!NodeIdsUnique
<1>11. NeverCanceled' /\ Store!CarriedSurvives'
  BY <1>1, <1>5, CarryIn DEF NeverCanceled, Store!CarriedSurvives
<1> QED
  BY <1>3, <1>6, <1>7, <1>9, <1>10, <1>11 DEF LInv

LEMMA LengthIn == ASSUME StoreTyped PROVE Len(iss) + 1 \in Nat
  BY DEF StoreTyped

LEMMA SameMarks == ASSUME LInv, proj' = proj PROVE Marked
  BY DEF LInv, StoreTyped, Marked

LEMMA MintKeeps ==
    ASSUME MaxChanges \in Nat, LInv, act.pc = "node", ~ Store!Carried(act.p, act.k), Store!Mint,
           act.cmd = "defer" => Store!Hits(act.p, act.k) = {},
           UNCHANGED <<proj, rel, carry, policy, changes>>
    PROVE  LInv'
<1>1. StoreTyped /\ Counted /\ Waiting
  BY DEF LInv
<1>2. /\ act.p \in 1..2 /\ act.k \in 1..2 /\ act.cmd \in Building /\ proj[act.p].header
      /\ act.cmd # "create" => act.p = 2 /\ act.k = 2 /\ Moved
      /\ act.cmd = "create" => act.p = 1
  BY NodeFacts
<1>3. PICK w \in Nat : w = Len(iss) + 1
  BY <1>1, LengthIn
<1>4. /\ iss' = Append(iss, [p |-> act.p, text |-> act.k, node |-> 0, st |-> "open"])
      /\ act' = [act EXCEPT !.pc = "stamp", !.cur = w]
  BY <1>3 DEF Store!Mint
<1>5. Grown(act.p, w)
  BY <1>1, <1>2, <1>3, <1>4, GrownByAppend
<1>6. Moved' = Moved /\ w \in DOMAIN iss'
  BY <1>1, <1>5, GrownMoved DEF Grown
<1>7. /\ act' \in MeSet /\ act'.pc = "stamp" /\ act'.cmd = act.cmd /\ act'.p = act.p
      /\ act'.k = act.k /\ act'.cur = w /\ Awaited' /\ Course'
  BY <1>2, <1>4, <1>6, StampEntered
<1>8. act.cmd \in {"create", "replan"} => \A i \in Store!Issues(act.p) : iss[i].node < act.k
  BY <1>1 DEF Waiting
<1>9. \A i \in Store!Issues(act.p) : iss[i].node # act.k
  <2>1. CASE act.cmd = "defer"
    BY <2>1 DEF Store!Hits
  <2>2. CASE act.cmd # "defer"
    <3>1. SUFFICES ASSUME NEW i \in Store!Issues(act.p) PROVE iss[i].node # act.k
      OBVIOUS
    <3>2. iss[i].node \in Nat /\ iss[i].node < act.k
      BY <1>1, <1>2, <1>8, <2>2, IssuesIn, IssueTyped DEF Building
    <3> QED
      BY <1>2, <3>2
  <2> QED
    BY <2>1, <2>2
<1>10. Spare(act.p, act.k)
  BY <1>2, <1>9 DEF Spare
<1>11. Marked /\ Spent
  BY SameMarks, NoEdit
<1>12. act.k \in Nat /\ act.k # 0
  BY <1>2
<1> QED
  BY <1>2, <1>5, <1>7, <1>8, <1>10, <1>11, <1>12, GrownKeeps

LEMMA NodeIssueKeeps == ASSUME MaxChanges \in Nat, LInv, Store!NodeIssue PROVE LInv'
<1>1. act.pc = "node" /\ UNCHANGED <<proj, rel, carry, policy, changes>>
  BY DEF Store!NodeIssue
<1>2. CASE Store!Carried(act.p, act.k)
  BY <1>1, <1>2, MoveKeeps DEF Store!NodeIssue
<1>3. ASSUME ~ Store!Carried(act.p, act.k), Store!NextNode, iss' = iss,
             act.cmd = "defer"
      PROVE  LInv'
  <2>1. /\ act' \in MeSet /\ act.k = 2 /\ act'.pc = "edges" /\ act'.cmd = act.cmd
        /\ act'.p = act.p
        /\ act'.todo = act.todo
    BY <1>1, <1>3, MeIn, NextFields, NodeFacts
  <2>2. Awaited' /\ Waiting'
    BY <1>1, <1>3, <2>1 DEF LInv, Awaited, Waiting, Top
  <2>3. Course'
    BY <1>1, <1>3, <2>1, NodeFacts DEF LInv, Course, Building, Moved
  <2> QED
    BY <1>1, <1>3, <2>1, <2>2, <2>3, CalmKeeps, ProjUnchanged, NoEdit
<1>4. ASSUME Store!Stop, iss' = iss PROVE LInv'
  BY <1>1, <1>4, IdleCourse, CalmKeeps, ProjUnchanged, NoEdit DEF Store!Stop
<1>5. ASSUME ~ Store!Carried(act.p, act.k), act.cmd = "defer", Store!Hits(act.p, act.k) = {},
             NEW row \in Store!Interrupted(act.p, act.k), iss' = iss,
             act' = [act EXCEPT !.pc = "stamp", !.cur = row]
      PROVE  LInv'
  BY <1>1, <1>5, RecoverKeeps
<1>6. ASSUME ~ Store!Carried(act.p, act.k), act.cmd = "defer" => Store!Hits(act.p, act.k) = {},
             Store!Mint
      PROVE  LInv'
  BY <1>1, <1>6, MintKeeps
<1>7. CASE ~ Store!Carried(act.p, act.k)
  <2>1. \/ Store!NextNode /\ iss' = iss /\ act.cmd = "defer"
        \/ Store!Stop /\ iss' = iss
        \/ /\ act.cmd = "defer" /\ Store!Hits(act.p, act.k) = {} /\ iss' = iss
           /\ \E row \in Store!Interrupted(act.p, act.k) :
                 act' = [act EXCEPT !.pc = "stamp", !.cur = row]
        \/ (act.cmd = "defer" => Store!Hits(act.p, act.k) = {}) /\ Store!Mint
    BY <1>7 DEF Store!NodeIssue
  <2> QED
    BY <1>3, <1>4, <1>5, <1>6, <1>7, <2>1, ZenonT(60)
<1> QED
  BY <1>2, <1>7

LEMMA StampKeeps == ASSUME MaxChanges \in Nat, LInv, Store!Stamp PROVE LInv'
<1>1. /\ StoreTyped /\ Counted /\ Awaited /\ Course /\ Fresh /\ Waiting /\ OneStamp
      /\ Store!NodeIdsUnique /\ NeverCanceled /\ Store!CarriedSurvives
  BY DEF LInv
<1>2. /\ act.pc = "stamp" /\ iss' = [iss EXCEPT ![act.cur].node = act.k]
      /\ UNCHANGED <<proj, rel, carry, policy, changes>>
  BY DEF Store!Stamp
<1>3. PICK c, k, p : c = act.cur /\ k = act.k /\ p = act.p
  OBVIOUS
<1>4. /\ c \in DOMAIN iss /\ k \in Nat /\ k # 0 /\ k \in 1..Top /\ p \in 1..2
      /\ proj[p].header /\ act.cmd \in Building \cup {"doctor", "add"}
      /\ act.cmd \in Building => k \in 1..2
      /\ act.cmd = "create" => p = 1
      /\ act.cmd \in {"defer", "replan"} => p = 2 /\ carry # 0 /\ Moved
  BY <1>1, <1>2, <1>3, MeIn DEF Awaited, Course, Top, Counted
<1>5. Changed(c, iss[c].p, k, iss[c].st)
  BY <1>1, <1>2, <1>3, <1>4, PutNode
<1>6. /\ \A q : Store!Issues(q)' = Store!Issues(q)
      /\ \A i \in DOMAIN iss : iss'[i].p = iss[i].p /\ iss'[i].st = iss[i].st
      /\ \A i \in DOMAIN iss \ {c} : iss'[i].node = iss[i].node
      /\ iss'[c].node = k /\ DOMAIN iss' = DOMAIN iss
  BY <1>4, <1>5, SameIssues DEF Changed
<1>7. Moved' = Moved
  BY <1>1, <1>2, <1>6, CarryIn DEF Moved
<1>8. /\ iss[c].p \in {p, 0}
      /\ act.cmd \in {"create", "replan"} => \A i \in Store!Issues(p) : i # c => iss[i].node < k
      /\ ~ proj[p].mended => \A i \in Store!Issues(p) : iss[i].node = k => i = c
      /\ p = 2 /\ k = 1 /\ ~ proj[2].mended => c = carry
      /\ ~ proj[2].mended => \A i \in Store!Issues(2) : iss[i].node = 1 => i = carry
  BY <1>1, <1>2, <1>3 DEF OneStamp
<1>9. /\ act' \in MeSet /\ act'.cmd = act.cmd /\ act'.p = p /\ act'.todo = act.todo
      /\ act.cmd = "doctor" => act'.pc = "repair"
      /\ act.cmd = "add" => act'.pc = "edge" /\ act'.k = k
      /\ act.cmd \in Building => act'.pc = (IF k = 2 THEN "edges" ELSE "node") /\ act'.k = k + 1
  <2>1. CASE act.cmd = "doctor"
    BY <1>3, <2>1, MeIn, GoFields DEF Store!Stamp, Building, Points
  <2>2. CASE act.cmd = "add"
    BY <1>3, <2>2, MeIn, GoFields DEF Store!Stamp, Building, Points
  <2>3. CASE act.cmd \in Building
    <3>1. Store!NextNode
      BY <2>3 DEF Store!Stamp, Building
    <3> QED
      BY <1>3, <2>3, <3>1, MeIn, NextFields DEF Building
  <2> QED
    BY <1>4, <2>1, <2>2, <2>3
<1>10. act'.pc # "stamp"
  BY <1>4, <1>9 DEF Building
<1>11. k \in 0..Top
  BY <1>1, <1>4 DEF Top, Counted
<1>12. StoreTyped' /\ Counted'
  BY <1>2, <1>5, <1>9, <1>11, PutTyped
<1>13. Awaited'
  <2>1. Top' = Top
    BY <1>2 DEF Top
  <2>2. act.cmd \in Building /\ k # 2 => act'.k = 2
    BY <1>4, <1>9
  <2>3. 2 \in 1..Top
    BY <1>1 DEF Counted, Top
  <2> QED
    BY <1>1, <1>4, <1>9, <2>1, <2>2, <2>3 DEF Awaited, Building
<1>14. Course'
  <2>1. act.cmd \in Building /\ k # 2 => k = 1 /\ act'.k = 2
    BY <1>4, <1>9
  <2>2. CASE act.cmd = "doctor"
    BY <1>2, <1>4, <1>7, <1>9, <2>2 DEF Course, Building
  <2>3. CASE act.cmd = "add"
    BY <1>2, <1>4, <1>7, <1>9, <2>3 DEF Course, Building
  <2>4. CASE act.cmd \in Building
    BY <1>2, <1>4, <1>7, <1>9, <2>1, <2>4 DEF Course, Building
  <2> QED
    BY <1>4, <2>2, <2>3, <2>4
<1>15. Fresh'
  BY <1>1, <1>2, <1>6, <1>7 DEF Fresh
<1>16. Waiting'
  <2>1. SUFFICES ASSUME act.cmd \in {"create", "replan"}, k # 2
                 PROVE  \A i \in Store!Issues(p) : iss'[i].node < 2
    BY <1>4, <1>6, <1>9 DEF Waiting, Building
  <2>2. k = 1
    BY <1>4, <2>1 DEF Building
  <2>3. \A i \in Store!Issues(p) :
           i # c => iss[i].node \in Nat /\ iss[i].node < 1 /\ iss'[i].node = iss[i].node
    BY <1>1, <1>6, <1>8, <2>1, <2>2, IssuesIn, IssueTyped
  <2> QED
    BY <1>6, <2>2, <2>3
<1>17. OneStamp'
  <2>1. ASSUME ~ proj[2].mended, NEW i \in Store!Issues(2), iss'[i].node = 1 PROVE i = carry
    <3>1. CASE i = c
      BY <1>4, <1>6, <1>8, <2>1, <3>1, IssuesIn
    <3>2. CASE i # c
      BY <1>6, <1>8, <2>1, <3>2, IssuesIn
    <3> QED
      BY <3>1, <3>2
  <2> QED
    BY <1>2, <1>6, <1>10, <2>1 DEF OneStamp
<1>18. Store!NodeIdsUnique'
  <2>1. SUFFICES ASSUME NEW q \in 1..2, ~ proj[q].mended, NEW i \in Store!Issues(q),
                        NEW j \in Store!Issues(q),
                        iss'[i].node # 0, iss'[i].node = iss'[j].node
                 PROVE  i = j
    BY <1>2, <1>6 DEF Store!NodeIdsUnique
  <2>2. CASE i # c /\ j # c
    BY <1>1, <1>6, <2>1, <2>2, IssuesIn DEF Store!NodeIdsUnique
  <2>3. ASSUME i = c \/ j = c PROVE q = p
    BY <1>4, <1>8, <2>1, <2>3, IssuesIn
  <2>4. CASE i = c \/ j = c
    BY <1>6, <1>8, <2>1, <2>3, <2>4, IssuesIn
  <2> QED
    BY <2>2, <2>4
<1>19. NeverCanceled' /\ Store!CarriedSurvives'
  BY <1>1, <1>2, <1>6, CarryIn DEF NeverCanceled, Store!CarriedSurvives
<1> QED
  BY <1>9, <1>12, <1>13, <1>14, <1>15, <1>16, <1>17, <1>18, <1>19 DEF LInv

LEMMA RelateLinks ==
    ASSUME StoreTyped, NEW p, NEW k, rel' = Store!Relate(p, k)
    PROVE  Links
  BY IssuesIn DEF StoreTyped, Store!Relate, Store!Hits, Links

LEMMA SameSpent == ASSUME LInv, changes' = changes PROVE Spent
  BY DEF LInv, Counted, Spent

\* Nothing but the place and the relations change.
LEMMA GoKeeps ==
    ASSUME MaxChanges \in Nat, LInv, NEW q \in Points, Store!Go(q),
           UNCHANGED <<iss, carry, policy, changes>>,
           ProjStep, Links, q \notin {"stamp", "phases", "node", "edge"},
           q = "sync" => act.pc = "edge",
           q \in {"project", "header", "manifest", "edges", "backfill", "repair"} => FALSE,
           q \in {"super", "cancel"} => Moved, act.pc # "idle"
    PROVE  LInv'
<1>1. /\ act' \in MeSet /\ act'.pc = q /\ act'.cmd = act.cmd /\ act'.p = act.p /\ act'.k = act.k
      /\ act'.todo = act.todo
  BY MeIn, GoFields
<1>2. Awaited' /\ Waiting'
  BY <1>1 DEF LInv, Awaited, Waiting, Top
<1>3. Course'
  BY <1>1 DEF LInv, Course, Building, Moved
<1>4. act'.pc # "stamp"
  BY <1>1
<1> QED
  BY <1>1, <1>2, <1>3, <1>4, CalmKeeps, SameSpent

LEMMA RelationsKeeps == ASSUME MaxChanges \in Nat, LInv, Store!Relations PROVE LInv'
<1>1. /\ act.pc = "edges" /\ rel' = Store!Relate(act.p, 2)
      /\ UNCHANGED <<proj, iss, carry, policy, changes>>
      /\ (act.cmd = "replan" /\ Store!Go("super")) \/ Store!Stop
  BY DEF Store!Relations
<1>2. Links /\ Spent /\ ProjStep
  BY <1>1, RelateLinks, SameSpent, ProjUnchanged DEF LInv
<1>3. CASE act.cmd = "replan" /\ Store!Go("super")
  <2>1. Moved /\ "super" \in Points
    BY <1>1, <1>3 DEF LInv, Course, Points
  <2> QED
    BY <1>1, <1>2, <1>3, <2>1, GoKeeps
<1>4. CASE Store!Stop
  BY <1>1, <1>2, <1>4, IdleCourse, CalmKeeps DEF Store!Stop
<1> QED
  BY <1>1, <1>3, <1>4

-----------------------------------------------------------------------------
\* Closing the predecessor.

LEMMA FinalizeKeeps == ASSUME MaxChanges \in Nat, LInv, Store!BeginFinalize PROVE LInv'
<1>1. /\ act = Store!Idle /\ carry \in Store!Hits(2, 1)
      /\ UNCHANGED <<proj, iss, rel, carry, policy, changes>>
      /\ act' = [Store!Idle EXCEPT !.cmd = "finalize", !.pc = "super", !.p = 2]
  BY DEF Store!BeginFinalize, Store!Verified
<1>2. /\ act' \in MeSet /\ act'.pc = "super" /\ act'.cmd = "finalize" /\ act'.p = 2
      /\ act'.todo = {}
  <2>1. PICK v : v = Store!Idle
    OBVIOUS
  <2>2. v \in MeSet /\ v.todo = {}
        /\ act' = [v EXCEPT !.cmd = "finalize", !.pc = "super", !.p = 2]
    BY <1>1, <2>1, IdleFields
  <2>3. "finalize" \in Commands /\ "super" \in Points /\ 2 \in 0..2
    BY DEF Commands, Points
  <2> QED
    BY <2>2, <2>3 DEF MeSet
<1>3. Moved /\ carry # 0
  BY <1>1, IssuesIn, IssueTyped DEF LInv, Moved, Store!Hits
<1>4. Awaited' /\ Waiting'
  BY <1>2 DEF Awaited, Waiting
<1>5. Course'
  BY <1>1, <1>2, <1>3 DEF Course, Building, Moved
<1>6. act'.pc # "stamp"
  BY <1>2
<1> QED
  BY <1>1, <1>2, <1>4, <1>5, <1>6, CalmKeeps, ProjUnchanged, NoEdit

LEMMA SupersedeKeeps == ASSUME MaxChanges \in Nat, LInv, Store!Supersede PROVE LInv'
<1>1. /\ act.pc = "super" /\ Store!Go("cancel") /\ proj' = [proj EXCEPT ![1].next = 2]
      /\ UNCHANGED <<iss, rel, carry, policy, changes>> /\ Moved
  BY DEF Store!Supersede, LInv, Course
<1>2. PICK x : x = [proj[1] EXCEPT !.next = 2]
  OBVIOUS
<1>3. Described(1, x)
  <2>1. proj[1] \in ProjSet /\ proj[1].manifest \subseteq 0..Top
    BY DEF LInv, StoreTyped, Counted
  <2>2. proj' = [proj EXCEPT ![1] = x]
    BY <1>1, <1>2
  <2> QED
    BY <1>2, <2>1, <2>2 DEF Described, ProjSet
<1>4. ProjStep /\ Links /\ Spent
  BY <1>1, <1>3, DescribedStep, NoEdit
<1>5. "cancel" \in Points
  BY DEF Points
<1> QED
  BY <1>1, <1>4, <1>5, GoKeeps

LEMMA CancelKeeps == ASSUME MaxChanges \in Nat, LInv, Store!CancelDropped PROVE LInv'
<1> DEFINE open == {i \in Store!Issues(1) : iss[i].node # 0 /\ iss[i].st = "open"}
<1>1. /\ act.pc = "cancel" /\ Moved /\ UNCHANGED <<proj, rel, carry, policy, changes>>
      /\ \/ Store!Go("complete") /\ iss' = iss
         \/ open # {} /\ iss' = [iss EXCEPT ![Store!Min(open)].st = "canceled"] /\ act' = act
  BY DEF Store!CancelDropped, LInv, Course
<1>2. CASE Store!Go("complete") /\ iss' = iss
  <2>1. ProjStep /\ Links /\ Spent /\ "complete" \in Points
    BY <1>1, NoEdit, ProjUnchanged DEF Points
  <2> QED
    BY <1>1, <1>2, <2>1, GoKeeps
<1>3. CASE open # {} /\ iss' = [iss EXCEPT ![Store!Min(open)].st = "canceled"] /\ act' = act
  <2>1. StoreTyped /\ Store!CarriedSurvives /\ NeverCanceled
    BY DEF LInv
  <2>2. open \subseteq Nat
    BY <2>1, IssuesIn, IssueTyped
  <2>3. PICK c : c = Store!Min(open)
    OBVIOUS
  <2>4. c \in open
    BY <1>3, <2>2, <2>3, StoreLeast
  <2>5. c \in DOMAIN iss /\ iss[c].p = 1
    BY <2>4, IssuesIn
  <2>6. Changed(c, iss[c].p, iss[c].node, "canceled")
    BY <1>3, <2>1, <2>3, <2>5, PutState
  <2>7. Restated
    BY <2>5, <2>6 DEF Changed, Restated
  <2>8. NeverCanceled' /\ Store!CarriedSurvives'
    BY <1>1, <2>1, <2>5, <2>6, CarryIn DEF NeverCanceled, Store!CarriedSurvives, Moved, Changed
  <2>9. act' \in MeSet /\ act'.pc # "stamp"
    BY <1>1, <1>3, MeIn
  <2>10. Awaited'
    BY <1>1, <1>3 DEF LInv, Awaited, Top
  <2>11. \A q : Store!Issues(q)' = Store!Issues(q)
    BY <2>7, SameIssues DEF Restated
  <2>12. Waiting'
    BY <1>1, <1>3, <2>11, SMTT(60) DEF LInv, Waiting
  <2>13. Course'
    BY <1>1, <1>3, <2>1, <2>7, CarryIn DEF LInv, Course, Moved, Restated
  <2>14. ProjStep /\ Links /\ Spent
    BY <1>1, NoEdit, ProjUnchanged
  <2> QED
    BY <1>1, <2>7, <2>8, <2>9, <2>10, <2>12, <2>13, <2>14, QuietKeeps
<1> QED
  BY <1>1, <1>2, <1>3

LEMMA CompleteKeeps == ASSUME MaxChanges \in Nat, LInv, Store!CompleteOld PROVE LInv'
<1>1. /\ act' = Store!Idle /\ proj' = [proj EXCEPT ![1].st = "completed"]
      /\ UNCHANGED <<iss, rel, carry, policy, changes>>
  BY DEF Store!CompleteOld, Store!Stop
<1>2. PICK x : x = [proj[1] EXCEPT !.st = "completed"]
  OBVIOUS
<1>3. Described(1, x)
  <2>1. proj[1] \in ProjSet /\ proj[1].manifest \subseteq 0..Top
    BY DEF LInv, StoreTyped, Counted
  <2>2. proj' = [proj EXCEPT ![1] = x]
    BY <1>1, <1>2
  <2> QED
    BY <1>2, <2>1, <2>2 DEF Described, ProjSet
<1> QED
  BY <1>1, <1>3, DescribedStep, NoEdit, IdleCourse, CalmKeeps

-----------------------------------------------------------------------------
\* The doctor.

LEMMA ObservedIn ==
    ASSUME LInv, NEW p
    PROVE  Store!Observed(p) \subseteq 1..Top
<1>1. SUFFICES ASSUME NEW i \in Store!Issues(p), iss[i].node # 0 PROVE iss[i].node \in 1..Top
  BY DEF Store!Observed
<1>2. iss[i].node \in Nat /\ iss[i].node <= Top /\ changes \in Nat
  BY IssuesIn, IssueTyped DEF LInv, Counted
<1>3. Top \in Nat
  BY <1>2 DEF Top
<1> QED
  BY <1>1, <1>2, <1>3

LEMMA TopIn == ASSUME LInv PROVE Top \in Nat /\ 2 <= Top
  BY DEF LInv, Counted, Top

LEMMA DoctorKeeps ==
    ASSUME MaxChanges \in Nat, LInv, NEW p \in 1..2, Store!Doctor(p)
    PROVE  LInv'
<1>1. /\ act = Store!Idle /\ proj[p].header
      /\ UNCHANGED <<proj, iss, rel, carry, policy, changes>>
  BY DEF Store!Doctor
<1>2. PICK q, n, t : /\ q = (IF proj[p].manifest = Store!Absent THEN "backfill" ELSE "repair")
                     /\ n = Store!Observed(p) /\ t = (proj[p].manifest \ {0}) \ Store!Observed(p)
                     /\ act' = [Store!Idle EXCEPT !.cmd = "doctor", !.p = p, !.nodes = n, !.pc = q,
                                           !.todo = t]
  BY DEF Store!Doctor
<1>3. q \in {"backfill", "repair"}
  BY <1>2
<1>4. n \subseteq Nat /\ t \subseteq 1..Top /\ t \subseteq Nat
  <2>1. proj[p].manifest \subseteq 0..Top
    BY DEF LInv, Counted
  <2> QED
    BY <1>2, <2>1, ObservedIn, TopIn
<1>5. act' \in MeSet /\ act'.pc = q /\ act'.cmd = "doctor" /\ act'.p = p /\ act'.todo = t
  <2>1. PICK v : v = Store!Idle
    OBVIOUS
  <2>2. v \in MeSet /\ act' = [v EXCEPT !.cmd = "doctor", !.p = p, !.nodes = n, !.pc = q,
                                       !.todo = t]
    BY <1>2, <2>1, IdleFields
  <2>3. "doctor" \in Commands /\ q \in Points /\ p \in 0..2
    BY <1>3 DEF Commands, Points
  <2>4. n \in SUBSET Nat /\ t \in SUBSET Nat
    BY <1>4
  <2> QED
    BY <2>2, <2>3, <2>4 DEF MeSet
<1>6. Awaited' /\ Waiting'
  BY <1>1, <1>3, <1>4, <1>5 DEF Awaited, Waiting, Top
<1>7. Course'
  BY <1>1, <1>3, <1>5 DEF Course, Building
<1>8. act'.pc # "stamp"
  BY <1>3, <1>5
<1> QED
  BY <1>1, <1>5, <1>6, <1>7, <1>8, CalmKeeps, ProjUnchanged, NoEdit

LEMMA BackfillKeeps == ASSUME MaxChanges \in Nat, LInv, Store!Backfill PROVE LInv'
<1>1. /\ act' = Store!Idle /\ UNCHANGED <<iss, rel, carry, policy, changes>> /\ act.p \in 1..2
      /\ proj' = [proj EXCEPT ![act.p].manifest = Store!Observed(act.p)]
  BY MeIn DEF Store!Backfill, Store!Stop
<1>2. PICK m : m = Store!Observed(act.p)
  OBVIOUS
<1>3. m \subseteq 0..Top /\ m \subseteq Nat
  BY <1>2, ObservedIn, TopIn
<1>4. PICK x : x = [proj[act.p] EXCEPT !.manifest = m]
  OBVIOUS
<1>5. Described(act.p, x)
  <2>1. proj[act.p] \in ProjSet
    BY <1>1 DEF LInv, StoreTyped
  <2>2. proj' = [proj EXCEPT ![act.p] = x]
    BY <1>1, <1>2, <1>4
  <2> QED
    BY <1>1, <1>3, <1>4, <2>1, <2>2 DEF Described, ProjSet
<1> QED
  BY <1>1, <1>5, DescribedStep, NoEdit, IdleCourse, CalmKeeps

\* Nothing but the relations or the milestones of the project under repair change.
LEMMA StaysKeeps ==
    ASSUME MaxChanges \in Nat, LInv, act' = act, act.pc # "stamp",
           UNCHANGED <<iss, carry, policy, changes>>,
           ProjStep, \A q \in 1..2 : proj'[q].header = proj[q].header, Links
    PROVE  LInv'
<1>1. act' \in MeSet /\ act'.pc # "stamp" /\ Awaited'
  BY MeIn DEF LInv, Awaited, Top
<1>2. Course'
  <2>1. act.p \in 1..2 \/ act.pc = "idle"
    BY MeIn
  <2> QED
    BY <2>1 DEF LInv, Course, Moved
<1>3. Waiting'
  BY DEF LInv, Waiting, Store!Issues
<1> QED
  BY <1>1, <1>2, <1>3, CalmKeeps, SameSpent

LEMMA RepairKeeps == ASSUME MaxChanges \in Nat, LInv, Store!Repair PROVE LInv'
<1> DEFINE lost == Store!DeletedPhases(act.p)
           left == Store!MissingNodes(act.p)
<1>1. /\ act.pc = "repair" /\ act.cmd = "doctor" /\ act.p \in 1..2 /\ proj[act.p].header
      /\ UNCHANGED <<carry, policy, changes>>
  BY MeIn DEF Store!Repair, LInv, Course
<1>2. \/ /\ proj' = [proj EXCEPT ![act.p].phases = @ \cup {Store!Min(lost)}] /\ lost # {}
         /\ UNCHANGED <<iss, rel, act>>
      \/ /\ left # {}
         /\ iss' = Append(iss, [p |-> act.p, text |-> Store!Min(left), node |-> 0, st |-> "open"])
         /\ act' = [act EXCEPT !.pc = "stamp", !.cur = Len(iss) + 1, !.k = Store!Min(left)]
         /\ proj' = [proj EXCEPT ![act.p].mended = @ \/ (act.p = 2 /\ ~ Store!Verified)]
         /\ UNCHANGED rel
      \/ /\ \/ \E k : rel' = Store!Relate(act.p, k) /\ UNCHANGED act
            \/ Store!Stop /\ UNCHANGED rel
         /\ UNCHANGED <<proj, iss>>
  BY DEF Store!Repair
<1>3. CASE /\ proj' = [proj EXCEPT ![act.p].phases = @ \cup {Store!Min(lost)}] /\ lost # {}
           /\ UNCHANGED <<iss, rel, act>>
  <2>1. PICK f : f = proj[act.p].phases \cup {Store!Min(lost)}
    OBVIOUS
  <2>2. proj[act.p] \in ProjSet /\ proj[act.p].manifest \subseteq 0..Top
    BY <1>1 DEF LInv, StoreTyped, Counted
  <2>3. f \subseteq Nat
    <3>1. lost \subseteq Nat
      BY <2>2 DEF Store!DeletedPhases, ProjSet
    <3>2. Store!Min(lost) \in lost
      BY <1>3, <3>1, StoreLeast
    <3>3. proj[act.p].phases \subseteq Nat
      BY <2>2 DEF ProjSet
    <3> QED
      BY <2>1, <3>1, <3>2, <3>3
  <2>4. PICK x : x = [proj[act.p] EXCEPT !.phases = f]
    OBVIOUS
  <2>5. Described(act.p, x)
    <3>1. proj' = [proj EXCEPT ![act.p] = x]
      BY <1>3, <2>1, <2>4
    <3> QED
      BY <1>1, <2>2, <2>3, <2>4, <3>1 DEF Described, ProjSet
  <2>6. ProjStep /\ Links /\ \A q \in 1..2 : proj'[q].header = proj[q].header
    BY <1>1, <1>3, <2>5, DescribedStep, NoEdit
  <2> QED
    BY <1>1, <1>3, <2>6, StaysKeeps
<1>4. CASE /\ left # {}
           /\ iss' = Append(iss, [p |-> act.p, text |-> Store!Min(left), node |-> 0, st |-> "open"])
           /\ act' = [act EXCEPT !.pc = "stamp", !.cur = Len(iss) + 1, !.k = Store!Min(left)]
           /\ proj' = [proj EXCEPT ![act.p].mended = @ \/ (act.p = 2 /\ ~ Store!Verified)]
           /\ UNCHANGED rel
  <2>1. StoreTyped /\ Counted /\ Awaited
    BY DEF LInv
  <2>2. left \subseteq 1..Top /\ left \subseteq Nat
    BY <2>1, TopIn DEF Store!MissingNodes, Awaited
  <2>3. PICK k : k = Store!Min(left)
    OBVIOUS
  <2>4. k \in 1..Top /\ k \in Nat /\ k # 0 /\ k \notin Store!Observed(act.p)
    <3>1. k \in left
      BY <1>4, <2>2, <2>3, StoreLeast
    <3>2. k \notin Store!Observed(act.p)
      BY <3>1 DEF Store!MissingNodes
    <3> QED
      BY <2>2, <3>1, <3>2, TopIn
  <2>5. PICK w \in Nat : w = Len(iss) + 1
    BY <2>1, LengthIn
  <2>6. Grown(act.p, w)
    <3>1. iss' = Append(iss, [p |-> act.p, text |-> k, node |-> 0, st |-> "open"])
      BY <1>4, <2>3
    <3>2. act.p \in 0..2
      BY <1>1
    <3> QED
      BY <2>1, <2>4, <2>5, <3>1, <3>2, GrownByAppend
  <2>7. /\ act' \in MeSet /\ act'.pc = "stamp" /\ act'.cmd = "doctor" /\ act'.p = act.p
        /\ act'.k = k /\ act'.cur = w /\ act'.todo = act.todo
    <3>1. act' = [act EXCEPT !.pc = "stamp", !.cur = w, !.k = k]
      BY <1>4, <2>3, <2>5
    <3> QED
      BY <1>1, <2>4, <2>5, <3>1, MeIn DEF MeSet, Points
  <2>8. PICK m \in BOOLEAN : m = (proj[act.p].mended \/ (act.p = 2 /\ ~ Store!Verified))
    BY <1>1 DEF LInv, StoreTyped, ProjSet
  <2>9. PICK x : x = [proj[act.p] EXCEPT !.mended = m]
    OBVIOUS
  <2>10. proj[act.p] \in ProjSet /\ proj' = [proj EXCEPT ![act.p] = x]
    BY <1>1, <1>4, <2>1, <2>8, <2>9 DEF StoreTyped
  <2>11. /\ x \in ProjSet /\ x.header = proj[act.p].header /\ x.mended = m
         /\ x.manifest = proj[act.p].manifest
    BY <2>9, <2>10 DEF ProjSet
  <2>12. /\ proj' \in [1..2 -> ProjSet] /\ proj'[act.p] = x
         /\ \A q \in 1..2 \ {act.p} : proj'[q] = proj[q]
    BY <1>1, <2>1, <2>10, <2>11, ProjectSet
  <2>13. Marked
    BY <1>1, <2>8, <2>11, <2>12 DEF Marked
  <2>14. Spare(act.p, k)
    <3>1. \A i \in Store!Issues(act.p) : iss[i].node # k
      BY <2>4 DEF Store!Observed
    <3>2. act.p = 2 /\ ~ proj'[2].mended => Store!Verified
      BY <2>8, <2>11, <2>12
    <3>3. Store!Verified => 1 \in Store!Observed(2) /\ Moved
      BY <2>1, IssuesIn, IssueTyped DEF Store!Verified, Store!Roadmap, Store!Hits, Moved
    <3> QED
      BY <2>4, <3>1, <3>2, <3>3 DEF Spare
  <2>15. Awaited'
    BY <1>1, <2>1, <2>4, <2>7 DEF Awaited, Top
  <2>16. Course'
    <3>1. w \in DOMAIN iss'
      BY <2>6 DEF Grown
    <3>2. proj'[act'.p].header
      BY <1>1, <2>7, <2>11, <2>12
    <3> QED
      BY <1>1, <2>7, <3>1, <3>2 DEF Course, Building
  <2>17. Spent
         /\ (act'.cmd \in {"create", "replan"} => \A i \in Store!Issues(act.p) : iss[i].node < k)
    BY <1>1, <2>7, SameSpent
  <2> QED
    BY <1>1, <1>4, <2>4, <2>6, <2>7, <2>13, <2>14, <2>15, <2>16, <2>17, GrownKeeps
<1>5. CASE /\ \/ \E k : rel' = Store!Relate(act.p, k) /\ UNCHANGED act
              \/ Store!Stop /\ UNCHANGED rel
           /\ UNCHANGED <<proj, iss>>
  <2>1. ProjStep /\ \A q \in 1..2 : proj'[q].header = proj[q].header
    BY <1>5, ProjUnchanged
  <2>2. CASE \E k : rel' = Store!Relate(act.p, k) /\ UNCHANGED act
    <3>1. Links
      BY <2>2, RelateLinks DEF LInv
    <3> QED
      BY <1>1, <1>5, <2>1, <2>2, <3>1, StaysKeeps
  <2>3. CASE Store!Stop /\ UNCHANGED rel
    BY <1>1, <1>5, <2>1, <2>3, IdleCourse, CalmKeeps, NoEdit DEF Store!Stop
  <2> QED
    BY <1>5, <2>2, <2>3
<1> QED
  BY <1>2, <1>3, <1>4, <1>5

-----------------------------------------------------------------------------
\* Operations on one node, and changes made by hand.

LEMMA OneMore ==
    ASSUME NEW e \in Nat, NEW f \in Nat, f = e + 1
    PROVE  2 + e \in Nat /\ 2 + f \in Nat /\ 2 + f = (2 + e) + 1
  OBVIOUS

LEMMA EditSpent ==
    ASSUME MaxChanges \in Nat, LInv, Store!Edit
    PROVE  Spent /\ Top' = Top + 1
<1>1. changes \in 0..MaxChanges /\ changes < MaxChanges /\ changes' = changes + 1
  BY DEF LInv, Counted, Store!Edit
<1>2. PICK e, f : e = changes /\ f = changes'
  OBVIOUS
<1>3. e \in Nat /\ f \in Nat /\ f = e + 1 /\ f \in 0..MaxChanges /\ e <= f
  BY <1>1, <1>2
<1>4. 2 + f = (2 + e) + 1
  BY <1>3, OneMore
<1>5. Top = 2 + e /\ Top' = 2 + f
  BY <1>2 DEF Top
<1> QED
  BY <1>2, <1>3, <1>4, <1>5 DEF Spent

LEMMA AddNodeKeeps ==
    ASSUME MaxChanges \in Nat, LInv, NEW p \in 1..2, Store!AddNode(p)
    PROVE  LInv'
<1>1. StoreTyped /\ Counted /\ Fresh
  BY DEF LInv
<1>2. PICK k : k = Store!Max(Store!Observed(p)) + 1
  OBVIOUS
<1>3. /\ act = Store!Idle /\ proj[p].header /\ Store!Observed(p) # {} /\ Store!Edit
      /\ proj' = [proj EXCEPT ![p].phases = @ \cup {k}]
      /\ iss' = Append(iss, [p |-> p, text |-> k, node |-> 0, st |-> "open"])
      /\ UNCHANGED <<rel, carry, policy>>
  BY <1>2 DEF Store!AddNode
<1>4. Spent /\ Top' = Top + 1 /\ Top \in Nat
  BY <1>3, EditSpent, TopIn
<1>5. /\ Store!Max(Store!Observed(p)) \in 1..Top
      /\ \A x \in Store!Observed(p) : x <= Store!Max(Store!Observed(p))
  <2>1. Store!Observed(p) \subseteq 1..Top
    BY ObservedIn
  <2>2. Store!Observed(p) \subseteq 0..Top
    BY <1>4, <2>1
  <2> QED
    BY <1>3, <1>4, <2>1, <2>2, StoreGreatest
<1>6. k \in Nat /\ k \in 1..Top' /\ k # 0 /\ k # 1 /\ \A x \in Store!Observed(p) : x # k
  <2>1. PICK g, t : g = Store!Max(Store!Observed(p)) /\ t = Top /\ t + 1 = Top'
    BY <1>4
  <2>2. t \in Nat /\ g \in 1..t /\ k = g + 1
    BY <1>2, <1>4, <1>5, <2>1
  <2>3. k \in Nat /\ k \in 1..(t + 1) /\ k # 0 /\ k # 1
    BY <2>2
  <2>4. ASSUME NEW x \in Store!Observed(p) PROVE x # k
    <3>1. x \in Nat /\ x <= g
      BY <1>5, <2>1, ObservedIn
    <3> QED
      BY <2>2, <3>1
  <2> QED
    BY <2>1, <2>3, <2>4
<1>7. PICK w \in Nat : w = Len(iss) + 1
  BY <1>1, LengthIn
<1>8. Grown(p, w)
  <2>1. p \in 0..2
    OBVIOUS
  <2> QED
    BY <1>1, <1>3, <1>6, <1>7, <2>1, GrownByAppend
<1>9. /\ act' \in MeSet /\ act'.pc = "stamp" /\ act'.cmd = "add" /\ act'.p = p
      /\ act'.k = k /\ act'.cur = w /\ act'.todo = {}
  <2>1. PICK v : v = Store!Idle
    OBVIOUS
  <2>2. /\ v \in MeSet /\ v.todo = {}
        /\ act' = [v EXCEPT !.cmd = "add", !.p = p, !.k = k, !.cur = w, !.pc = "stamp"]
    BY <1>2, <1>7, <2>1, IdleFields DEF Store!AddNode
  <2>3. "add" \in Commands /\ "stamp" \in Points /\ p \in 0..2
    BY DEF Commands, Points
  <2> QED
    BY <1>6, <1>7, <2>2, <2>3 DEF MeSet
<1>10. PICK f : f = proj[p].phases \cup {k}
  OBVIOUS
<1>11. PICK x : x = [proj[p] EXCEPT !.phases = f]
  OBVIOUS
<1>12. proj[p] \in ProjSet /\ proj' = [proj EXCEPT ![p] = x]
  BY <1>1, <1>3, <1>10, <1>11 DEF StoreTyped
<1>13. f \subseteq Nat
  BY <1>6, <1>10, <1>12 DEF ProjSet
<1>14. /\ x \in ProjSet /\ x.header = proj[p].header /\ x.mended = proj[p].mended
       /\ x.manifest = proj[p].manifest
  BY <1>11, <1>12, <1>13 DEF ProjSet
<1>15. proj' \in [1..2 -> ProjSet] /\ proj'[p] = x /\ \A q \in 1..2 \ {p} : proj'[q] = proj[q]
  BY <1>1, <1>12, <1>14, ProjectSet
<1>16. Marked
  BY <1>14, <1>15 DEF Marked
<1>17. Spare(p, k)
  <2>1. \A i \in Store!Issues(p) : iss[i].node # k
    BY <1>6 DEF Store!Observed
  <2>2. p = 2 => Store!Issues(2) # {}
    BY <1>3 DEF Store!Observed
  <2>3. proj'[p].mended = proj[p].mended
    BY <1>14, <1>15
  <2> QED
    BY <1>1, <1>6, <2>1, <2>2, <2>3 DEF Spare, Fresh
<1>18. Awaited'
  BY <1>6, <1>9 DEF Awaited
<1>19. Course'
  <2>1. w \in DOMAIN iss' /\ proj'[act'.p].header
    BY <1>3, <1>8, <1>9, <1>14, <1>15 DEF Grown
  <2> QED
    BY <1>9, <2>1 DEF Course, Building
<1>20. act'.cmd \notin {"create", "replan"}
  BY <1>9
<1> QED
  BY <1>3, <1>4, <1>6, <1>8, <1>9, <1>16, <1>17, <1>18, <1>19, <1>20, GrownKeeps

LEMMA AddEdgeKeeps == ASSUME MaxChanges \in Nat, LInv, Store!AddEdge PROVE LInv'
<1>1. /\ act.pc = "edge" /\ rel' = Store!Relate(act.p, act.k) /\ Store!Go("sync")
      /\ UNCHANGED <<proj, iss, carry, policy, changes>>
  BY DEF Store!AddEdge
<1>2. Links /\ ProjStep /\ "sync" \in Points
  BY <1>1, RelateLinks, ProjUnchanged DEF LInv, Points
<1> QED
  BY <1>1, <1>2, GoKeeps

LEMMA AddSyncKeeps == ASSUME MaxChanges \in Nat, LInv, Store!AddSync PROVE LInv'
<1>1. /\ act.pc = "sync" /\ act' = Store!Idle /\ UNCHANGED <<iss, rel, carry, policy, changes>>
      /\ act.p \in 1..2 /\ act.k \in 1..Top
  BY MeIn DEF Store!AddSync, Store!Stop, LInv, Awaited
<1>2. PICK m : m = IF proj[act.p].manifest = Store!Absent THEN proj[act.p].manifest
                   ELSE proj[act.p].manifest \cup {act.k}
  OBVIOUS
<1>3. PICK x : x = [proj[act.p] EXCEPT !.manifest = m]
  OBVIOUS
<1>4. proj' = [proj EXCEPT ![act.p] = x]
  BY <1>1, <1>2, <1>3 DEF Store!AddSync
<1>5. proj[act.p] \in ProjSet /\ proj[act.p].manifest \subseteq 0..Top
  BY <1>1 DEF LInv, StoreTyped, Counted
<1>6. m \subseteq 0..Top /\ m \subseteq Nat
  BY <1>1, <1>2, <1>5, TopIn
<1>7. Described(act.p, x)
  BY <1>1, <1>3, <1>4, <1>5, <1>6 DEF Described, ProjSet
<1> QED
  BY <1>1, <1>7, DescribedStep, NoEdit, IdleCourse, CalmKeeps

\* The state of a project changes between two commands.
LEMMA DeclareKeeps ==
    ASSUME MaxChanges \in Nat, LInv, NEW p \in 1..2, NEW s \in {"open", "completed"},
           act = Store!Idle, act' = act,
           proj' = [proj EXCEPT ![p].st = s], UNCHANGED <<iss, rel, carry, policy>>, Spent
    PROVE  LInv'
<1>1. PICK x : x = [proj[p] EXCEPT !.st = s]
  OBVIOUS
<1>2. proj[p] \in ProjSet /\ proj[p].manifest \subseteq 0..Top /\ proj' = [proj EXCEPT ![p] = x]
  BY <1>1 DEF LInv, StoreTyped, Counted
<1>3. Described(p, x)
  BY <1>1, <1>2 DEF Described, ProjSet
<1>4. Links
  BY DEF LInv, StoreTyped, Links
<1> QED
  BY <1>3, <1>4, DescribedStep, IdleCourse, CalmKeeps

LEMMA UpdateNodeKeeps ==
    ASSUME MaxChanges \in Nat, LInv, NEW p \in 1..2, NEW k, Store!UpdateNode(p, k)
    PROVE  LInv'
<1>1. act = Store!Idle /\ act' = act /\ Store!Hits(p, k) # {} /\ Store!Edit
      /\ UNCHANGED <<rel, carry, policy>>
  BY DEF Store!UpdateNode
<1>2. Spent
  BY <1>1, EditSpent
<1>3. CASE proj' = [proj EXCEPT ![p].st = "open"] /\ UNCHANGED iss
  BY <1>1, <1>2, <1>3, DeclareKeeps
<1>4. CASE iss' = [iss EXCEPT ![Store!Min(Store!Hits(p, k))].st = "done"] /\ UNCHANGED proj
  <2>1. StoreTyped /\ Store!CarriedSurvives /\ NeverCanceled
    BY DEF LInv
  <2>2. Store!Hits(p, k) \subseteq DOMAIN iss /\ Store!Hits(p, k) \subseteq Nat
    BY <2>1, IssuesIn, IssueTyped DEF Store!Hits
  <2>3. PICK c : c = Store!Min(Store!Hits(p, k))
    OBVIOUS
  <2>4. c \in DOMAIN iss
    BY <1>1, <2>2, <2>3, StoreLeast
  <2>5. Changed(c, iss[c].p, iss[c].node, "done")
    BY <1>4, <2>1, <2>3, <2>4, PutState
  <2>6. Restated
    BY <2>5 DEF Changed, Restated
  <2>7. NeverCanceled' /\ Store!CarriedSurvives'
    BY <1>1, <2>1, <2>5, CarryIn DEF NeverCanceled, Store!CarriedSurvives, Changed
  <2>8. Links /\ ProjStep
    BY <1>1, <1>4, <2>1, ProjUnchanged DEF StoreTyped, Links
  <2>9. act' \in MeSet /\ act'.pc # "stamp" /\ Awaited' /\ Course' /\ Waiting'
    BY <1>1, IdleCourse
  <2> QED
    BY <1>1, <1>2, <2>6, <2>7, <2>8, <2>9, QuietKeeps
<1> QED
  BY <1>3, <1>4 DEF Store!UpdateNode

LEMMA RetireKeeps ==
    ASSUME MaxChanges \in Nat, LInv, NEW p \in 1..2, Store!Retire(p)
    PROVE  LInv'
<1>1. act = Store!Idle /\ act' = act /\ Store!Edit /\ UNCHANGED <<iss, rel, carry, policy>>
  BY DEF Store!Retire
<1>2. PICK s \in {"open", "completed"} :
          s = IF proj[p].st = "completed" THEN "open" ELSE "completed"
  OBVIOUS
<1>3. proj' = [proj EXCEPT ![p].st = s]
  BY <1>2 DEF Store!Retire
<1> QED
  BY <1>1, <1>2, <1>3, EditSpent, DeclareKeeps

\* What a hand takes away, in the middle of a command or between two.
Thinned ==
    /\ iss' \in Seq(IssSet) /\ Len(iss') = Len(iss) /\ DOMAIN iss' = DOMAIN iss
    /\ \A i \in DOMAIN iss : /\ iss'[i].node = iss[i].node /\ iss'[i].st = iss[i].st
                             /\ iss'[i].p = iss[i].p \/ (iss'[i].p = 0 /\ i # carry)

LEMMA ThinnedKeeps ==
    ASSUME MaxChanges \in Nat, LInv, Thinned, SameProjects, Links, Spent,
           UNCHANGED <<carry, policy, act>>
    PROVE  LInv'
<1>1. /\ StoreTyped /\ Counted /\ Awaited /\ Course /\ Fresh /\ Waiting /\ OneStamp
      /\ Store!NodeIdsUnique /\ NeverCanceled /\ Store!CarriedSurvives
  BY DEF LInv
<1>2. \A q \in 1..2 : Store!Issues(q)' \subseteq Store!Issues(q)
  BY DEF Thinned, Store!Issues
<1>3. Moved' = Moved
  BY <1>1, CarryIn DEF Moved, Thinned
<1>4. Top \in Nat /\ Top' \in Nat /\ Top <= Top'
  BY <1>1, TopGrows
<1>5. StoreTyped'
  BY <1>1 DEF StoreTyped, Thinned, SameProjects, Links
<1>6. Counted'
  <2>1. \A i \in DOMAIN iss' : iss'[i].node <= Top'
    <3>1. SUFFICES ASSUME NEW i \in DOMAIN iss PROVE iss'[i].node <= Top'
      BY DEF Thinned
    <3>2. iss[i].node \in Nat /\ iss[i].node <= Top /\ iss'[i].node = iss[i].node
      BY <1>1, IssueTyped DEF Thinned, Counted
    <3> QED
      BY <1>4, <3>2
  <2>2. \A q \in 1..2 : proj'[q].manifest \subseteq 0..Top'
    BY <1>1, <1>4 DEF SameProjects, Counted
  <2> QED
    BY <2>1, <2>2 DEF Counted, Spent
<1>7. Awaited'
  BY <1>1, <1>4 DEF Awaited
<1>8. Course'
  <2>1. act.pc # "idle" => act.p \in 1..2
    BY MeIn
  <2> QED
    BY <1>1, <1>3, <2>1 DEF Course, Thinned, SameProjects
<1>9. Fresh'
  BY <1>1, <1>2, <1>3 DEF Fresh, SameProjects
<1>10. \A q \in 1..2 :
          \A i \in Store!Issues(q)' : i \in Store!Issues(q) /\ iss'[i].node = iss[i].node
  BY <1>2, IssuesIn DEF Thinned
<1>11. act.pc \in {"project", "header", "manifest", "phases", "node", "stamp"} => act.p \in 1..2
  BY MeIn
<1>12. Waiting'
  BY <1>1, <1>10, <1>11 DEF Waiting
<1>13. OneStamp'
  <2>1. act.pc = "stamp" => act.cur \in DOMAIN iss
    BY <1>1 DEF Course
  <2>2. act.pc = "stamp" => iss'[act.cur].p \in {act.p, 0}
    BY <1>1, <2>1 DEF OneStamp, Thinned
  <2>3. act.pc = "stamp" /\ act.cmd \in {"create", "replan"} =>
            \A i \in Store!Issues(act.p)' : i # act.cur => iss'[i].node < act.k
    BY <1>1, <1>10, <1>11 DEF OneStamp
  <2>4. act.pc = "stamp" /\ ~ proj'[act.p].mended =>
            \A i \in Store!Issues(act.p)' : iss'[i].node = act.k => i = act.cur
    BY <1>1, <1>10, <1>11 DEF OneStamp, SameProjects
  <2>5. proj'[2].mended = proj[2].mended
    BY DEF SameProjects
  <2> QED
    BY <1>1, <1>10, <2>2, <2>3, <2>4, <2>5 DEF OneStamp
<1>14. Store!NodeIdsUnique'
  BY <1>1, <1>10 DEF Store!NodeIdsUnique, SameProjects
<1>15. NeverCanceled' /\ Store!CarriedSurvives'
  BY <1>1, CarryIn DEF NeverCanceled, Store!CarriedSurvives, Thinned
<1> QED
  BY <1>5, <1>6, <1>7, <1>8, <1>9, <1>12, <1>13, <1>14, <1>15 DEF LInv

LEMMA MeddleKeeps == ASSUME MaxChanges \in Nat, LInv, Store!Meddle PROVE LInv'
<1>1. Store!Edit /\ UNCHANGED <<carry, policy, act>> /\ Spent
  BY EditSpent DEF Store!Meddle
<1>2. StoreTyped
  BY DEF LInv
<1>3. iss' = iss => Thinned
  BY <1>2 DEF StoreTyped, Thinned
<1>4. rel' \subseteq rel /\ DOMAIN iss' = DOMAIN iss => Links
  BY <1>2 DEF StoreTyped, Links
<1>5. ASSUME NEW i \in DOMAIN iss, i # carry, iss' = [iss EXCEPT ![i].p = 0],
             UNCHANGED <<proj, rel>>
      PROVE  LInv'
  <2>1. 0 \in 0..2
    OBVIOUS
  <2>2. Changed(i, 0, iss[i].node, iss[i].st)
    BY <1>2, <1>5, <2>1, PutProject
  <2>3. Thinned /\ Links
    BY <1>4, <1>5, <2>2 DEF Changed, Thinned
  <2> QED
    BY <1>1, <1>5, <2>3, ThinnedKeeps, ProjUnchanged
<1>6. ASSUME NEW p \in 1..2, NEW k, proj' = [proj EXCEPT ![p].phases = @ \ {k}],
             UNCHANGED <<iss, rel>>
      PROVE  LInv'
  <2>1. PICK f : f = proj[p].phases \ {k}
    OBVIOUS
  <2>2. PICK x : x = [proj[p] EXCEPT !.phases = f]
    OBVIOUS
  <2>3. proj[p] \in ProjSet /\ proj' = [proj EXCEPT ![p] = x]
    BY <1>2, <1>6, <2>1, <2>2 DEF StoreTyped
  <2>4. f \subseteq Nat
    BY <2>1, <2>3 DEF ProjSet
  <2>5. /\ x \in ProjSet /\ x.header = proj[p].header /\ x.mended = proj[p].mended
        /\ x.manifest = proj[p].manifest
    BY <2>2, <2>3, <2>4 DEF ProjSet
  <2>6. proj' \in [1..2 -> ProjSet] /\ proj'[p] = x /\ \A q \in 1..2 \ {p} : proj'[q] = proj[q]
    BY <1>2, <2>3, <2>5, ProjectSet
  <2>7. SameProjects
    BY <2>5, <2>6 DEF SameProjects
  <2> QED
    BY <1>1, <1>3, <1>4, <1>6, <2>7, ThinnedKeeps
<1>7. ASSUME NEW e, rel' = rel \ {e}, UNCHANGED <<proj, iss>> PROVE LInv'
  BY <1>1, <1>3, <1>4, <1>7, ThinnedKeeps, ProjUnchanged
<1> QED
  BY <1>5, <1>6, <1>7 DEF Store!Meddle

LEMMA CrashKeeps == ASSUME MaxChanges \in Nat, LInv, Store!Crash PROVE LInv'
  BY IdleCourse, CalmKeeps, ProjUnchanged, NoEdit DEF Store!Crash, Store!Stop

LEMMA StoreStarts == ASSUME MaxChanges \in Nat, Store!Init PROVE LInv
<1>1. /\ iss = <<>> /\ rel = {} /\ carry = 0 /\ policy \in {"defer", "replan"} /\ act = Store!Idle
      /\ changes = 0 /\ proj = [q \in 1..2 |-> Store!NoProj]
  BY DEF Store!Init
<1>2. /\ Store!NoProj \in ProjSet /\ Store!NoProj.header = FALSE /\ Store!NoProj.manifest = {0}
  BY DEF Store!NoProj, ProjSet, Store!Absent
<1>3. proj \in [1..2 -> ProjSet] /\ \A q \in 1..2 : ~ proj[q].header /\ proj[q].manifest = {0}
  BY <1>1, <1>2
<1>4. \A q : Store!Issues(q) = {}
  BY <1>1 DEF Store!Issues
<1>5. Store!Idle \in MeSet /\ Store!Idle.pc = "idle" /\ Store!Idle.cmd = "none"
      /\ Store!Idle.todo = {}
  BY IdleFields
<1>6. iss \in Seq(IssSet) /\ Len(iss) = 0 /\ DOMAIN iss = {}
  BY <1>1
<1>7. StoreTyped
  BY <1>1, <1>3, <1>5, <1>6 DEF StoreTyped
<1>8. Counted
  BY <1>1, <1>3, <1>6 DEF Counted, Top
<1>9. Awaited /\ Waiting
  BY <1>1, <1>5 DEF Awaited, Waiting
<1>10. Course
  BY <1>1, <1>5 DEF Course, Building
<1>11. Fresh /\ OneStamp /\ Store!NodeIdsUnique
  BY <1>1, <1>3, <1>4, <1>5 DEF Fresh, OneStamp, Store!NodeIdsUnique
<1>12. NeverCanceled /\ Store!CarriedSurvives
  BY <1>1, <1>6 DEF NeverCanceled, Store!CarriedSurvives
<1> QED
  BY <1>7, <1>8, <1>9, <1>10, <1>11, <1>12 DEF LInv

LEMMA StoreSteps == ASSUME MaxChanges \in Nat, LInv, [Store!Next]_Store!vars PROVE LInv'
<1>1. CASE Store!Work
  BY <1>1, ProjectKeeps, HeaderKeeps, ManifestKeeps, MilestoneKeeps, NodeIssueKeeps, StampKeeps,
     RelationsKeeps, SupersedeKeeps, CancelKeeps, CompleteKeeps, BackfillKeeps, RepairKeeps,
     AddEdgeKeeps, AddSyncKeeps DEF Store!Work
<1>2. CASE Store!BeginFinalize \/ Store!Meddle \/ Store!Crash
  BY <1>2, FinalizeKeeps, MeddleKeeps, CrashKeeps
<1>3. CASE \E c \in {"create", "defer", "replan"}, p \in 1..2 : Store!Begin(c, p)
  BY <1>3, BeginKeeps
<1>4. ASSUME NEW p \in 1..2,
             Store!Doctor(p) \/ Store!AddNode(p) \/ Store!Retire(p)
                \/ \E k \in Store!Roadmap : Store!UpdateNode(p, k)
      PROVE  LInv'
  BY <1>4, DoctorKeeps, AddNodeKeeps, RetireKeeps, UpdateNodeKeeps
<1>5. CASE UNCHANGED Store!vars
  <2>1. ProjStep /\ SameProjects /\ Links /\ Spent /\ UNCHANGED <<carry, policy, act>>
    BY <1>5, ProjUnchanged, NoEdit DEF Store!vars
  <2>2. Thinned
    BY <1>5 DEF Store!vars, LInv, StoreTyped, Thinned
  <2> QED
    BY <2>1, <2>2, ThinnedKeeps
<1> QED
  BY <1>1, <1>2, <1>3, <1>4, <1>5 DEF Store!Next

LEMMA StoreAlways == ASSUME MaxChanges \in Nat PROVE Store!Spec => []LInv
  BY StoreStarts, StoreSteps, PTL DEF Store!Spec

\* A node id names one issue of its project: _find_node_issue never has two rows to
\* choose from, wherever creation, convergence, a node operation or the doctor was cut
\* and however often it was repeated -- unless the doctor recreated nodes of a
\* successor whose transfer had not been verified.
THEOREM NodeIdsStayUnique == ASSUME MaxChanges \in Nat PROVE Store!Spec => []Store!NodeIdsUnique
<1>1. LInv => Store!NodeIdsUnique
  BY DEF LInv
<1> QED
  BY <1>1, StoreAlways, PTL

\* finalize_supersession and a full replan cancel the dropped issues one by one, and
\* never the issue that the successor carries over.
THEOREM CarriedIssueSurvives ==
    ASSUME MaxChanges \in Nat
    PROVE  Store!Spec => []Store!CarriedSurvives
<1>1. LInv => Store!CarriedSurvives
  BY DEF LInv
<1> QED
  BY <1>1, StoreAlways, PTL

\* Manifests and attachments hold node ids that the roadmap or a node operation gave
\* out, and relations join issues that were created.
THEOREM StoreTypeCorrect == ASSUME MaxChanges \in Nat PROVE Store!Spec => []Store!TypeOK
<1>1. LInv => Store!TypeOK
  <2>1. SUFFICES ASSUME LInv PROVE Store!TypeOK
    OBVIOUS
  <2>2. StoreTyped /\ Counted
    BY <2>1 DEF LInv
  <2>3. StoreTyped /\ Counted /\ changes \in 0..MaxChanges /\ Top = 2 + changes
    BY <2>2 DEF Counted, Top
  <2>4. Top \in Nat /\ Top <= 2 + MaxChanges /\ 2 + MaxChanges \in Nat
    BY <2>3
  <2>5. \A p \in 1..2 : proj[p].manifest \subseteq 0..(2 + MaxChanges)
    BY <2>3, <2>4 DEF Counted
  <2>6. ASSUME NEW i \in DOMAIN iss PROVE iss[i].p \in 0..2 /\ iss[i].node \in 0..(2 + MaxChanges)
    BY <2>3, <2>4, IssueTyped DEF Counted
  <2> QED
    BY <2>3, <2>5, <2>6 DEF Store!TypeOK, StoreTyped
<1> QED
  BY <1>1, StoreAlways, PTL

-----------------------------------------------------------------------------
(* The owner lock. *)

CONSTANTS Owners, Nobody, Sees, MaxEpoch
VARIABLES top, owner, released, alive, step, view, lost

Lock == INSTANCE OwnerLock WITH Procs <- Owners, None <- Nobody, pc <- step

LEMMA InitInductive ==
    ASSUME Lock!OwnerLockAssumption, Lock!Init PROVE Lock!Inductive
  BY DEF Lock!OwnerLockAssumption, Lock!Init, Lock!Inductive, Lock!TypeOK, Lock!Epochs,
         Lock!Rounds

\* Every action but Create leaves the existing epochs' owners alone.
LEMMA CallKeeps ==
    ASSUME Lock!OwnerLockAssumption, Lock!Inductive, NEW p \in Owners,
           Lock!Acquire(p) \/ Lock!List(p) \/ Lock!Judge(p) \/ Lock!Lose(p) \/ Lock!StartRelease(p)
    PROVE  Lock!Inductive'
<1> USE DEF Lock!Inductive, Lock!TypeOK, Lock!Epochs, Lock!Rounds, Lock!At, Lock!Goto, Lock!Over
<1>1. CASE Lock!Acquire(p)
  BY <1>1 DEF Lock!Acquire
<1>2. CASE Lock!List(p)
  BY <1>2 DEF Lock!List
<1>3. CASE Lock!Judge(p)
  BY <1>3 DEF Lock!Judge, Lock!IsFree, Lock!Dead
<1>4. CASE Lock!Lose(p)
  <2>1. lost[p] < Lock!Rounds /\ lost[p] \in Nat
    BY <1>4 DEF Lock!Lose
  <2>2. /\ lost[p] + 1 \in 0..Lock!Rounds
        /\ lost[p] + 1 # Lock!Rounds => lost[p] + 1 < Lock!Rounds
    BY <2>1
  <2>3. Lock!TypeOK'
    BY <1>4, <2>2 DEF Lock!Lose
  <2> QED
    BY <1>4, <2>1, <2>2, <2>3 DEF Lock!Lose
<1>5. CASE Lock!StartRelease(p)
  BY <1>5 DEF Lock!StartRelease
<1> QED
  BY <1>1, <1>2, <1>3, <1>4, <1>5

\* The epoch that is created follows one that was over when it was judged, and the
\* rename succeeds only where that is still the highest.
LEMMA CreateKeeps ==
    ASSUME Lock!OwnerLockAssumption, Lock!Inductive, NEW p \in Owners, Lock!Create(p)
    PROVE  Lock!Inductive'
<1> USE DEF Lock!Inductive, Lock!TypeOK, Lock!Epochs, Lock!Rounds, Lock!At, Lock!Goto, Lock!Over
<1>1. top' = top + 1 /\ top + 1 \in Lock!Epochs /\ top' \in Nat
  BY DEF Lock!Create, Lock!OwnerLockAssumption
<1>2. /\ owner'[top + 1] = p
      /\ \A e \in 1..top : owner'[e] = owner[e]
  BY <1>1 DEF Lock!Create
<1>3. top # 0 => Lock!Over(top)
  BY DEF Lock!Create
<1>4. Lock!TypeOK'
  BY <1>1 DEF Lock!Create
<1>5. \A e \in 1..top' : owner'[e] \in Owners
  BY <1>1, <1>2 DEF Lock!Create
<1>6. \A e \in 1..top' : e < top' => Lock!Over(e)'
  BY <1>1, <1>2, <1>3 DEF Lock!Create
<1>7. ASSUME NEW q \in Owners
      PROVE  /\ step'[q] \in {"list", "judge", "rename"} => lost'[q] < Lock!Rounds
             /\ step'[q] = "rename" /\ view'[q] # 0 => Lock!Over(view[q])'
             /\ step'[q] \in {"held", "releasing"} =>
                  /\ view'[q] \in 1..top' /\ view'[q] \notin released' /\ owner'[view'[q]] = q
  <2>1. CASE q = p
    BY <2>1, <1>1, <1>2 DEF Lock!Create
  <2>2. CASE q # p
    BY <2>2, <1>1, <1>2 DEF Lock!Create
  <2> QED
    BY <2>1, <2>2
<1> QED
  BY <1>4, <1>5, <1>6, <1>7

LEMMA MarkKeeps ==
    ASSUME Lock!OwnerLockAssumption, Lock!Inductive, NEW p \in Owners, Lock!MarkReleased(p)
    PROVE  Lock!Inductive'
<1> USE DEF Lock!Inductive, Lock!TypeOK, Lock!Epochs, Lock!Rounds, Lock!At, Lock!Goto, Lock!Over
<1>1. view[p] \in 1..top /\ owner[view[p]] = p
  BY DEF Lock!MarkReleased
<1>2. Lock!TypeOK'
  BY <1>1 DEF Lock!MarkReleased
<1>3. ASSUME NEW q \in Owners, q # p, step[q] \in {"held", "releasing"}
      PROVE  view[q] # view[p]
  BY <1>1, <1>3
<1> QED
  BY <1>1, <1>2, <1>3 DEF Lock!MarkReleased

LEMMA DieKeeps ==
    ASSUME Lock!OwnerLockAssumption, Lock!Inductive, NEW p \in Owners, Lock!Die(p)
    PROVE  Lock!Inductive'
  BY DEF Lock!Inductive, Lock!TypeOK, Lock!Epochs, Lock!Rounds, Lock!Over, Lock!Die

LEMMA NextInductive ==
    ASSUME Lock!OwnerLockAssumption, Lock!Inductive, [Lock!Next]_(Lock!vars)
       PROVE Lock!Inductive'
<1>1. CASE UNCHANGED Lock!vars
  BY <1>1 DEF Lock!vars, Lock!Inductive, Lock!TypeOK, Lock!Over
<1>2. ASSUME NEW p \in Owners,
             \/ Lock!Acquire(p) \/ Lock!List(p) \/ Lock!Judge(p) \/ Lock!Create(p) \/ Lock!Lose(p)
             \/ Lock!StartRelease(p) \/ Lock!MarkReleased(p) \/ Lock!Die(p)
      PROVE  Lock!Inductive'
  BY <1>2, CallKeeps, CreateKeeps, MarkKeeps, DieKeeps
<1> QED
  BY <1>1, <1>2 DEF Lock!Next

\* Two processes that both believe they hold the store hold epochs that are not
\* over, and only the highest is not over.
LEMMA InductiveExcludes == ASSUME Lock!OwnerLockAssumption, Lock!Inductive PROVE Lock!OneOwner
<1> SUFFICES ASSUME NEW p \in Owners, NEW q \in Owners, Lock!Believes(p), Lock!Believes(q)
             PROVE  p = q
  BY DEF Lock!OneOwner
<1>1. view[p] \in 1..top /\ owner[view[p]] = p /\ ~ Lock!Over(view[p])
  BY DEF Lock!Inductive, Lock!TypeOK, Lock!Believes, Lock!Over
<1>2. view[q] \in 1..top /\ owner[view[q]] = q /\ ~ Lock!Over(view[q])
  BY DEF Lock!Inductive, Lock!TypeOK, Lock!Believes, Lock!Over
<1>3. view[p] = top /\ view[q] = top
  BY <1>1, <1>2 DEF Lock!Inductive, Lock!TypeOK, Lock!OwnerLockAssumption
<1> QED
  BY <1>1, <1>2, <1>3

\* However many processes contend, die and release, however late their renames
\* land, at most one live process believes that it holds the store.
THEOREM OwnerExclusive == ASSUME Lock!OwnerLockAssumption PROVE Lock!Spec => []Lock!OneOwner
<1>1. Lock!Init => Lock!Inductive
  BY InitInductive
<1>2. Lock!Inductive /\ [Lock!Next]_(Lock!vars) => Lock!Inductive'
  BY NextInductive
<1>3. Lock!Inductive => Lock!OneOwner
  BY InductiveExcludes
<1> QED
  BY <1>1, <1>2, <1>3, PTL DEF Lock!Spec

-----------------------------------------------------------------------------
\* What each step is in the terms of ClaimSpec.
LEMMA InitClaims == ASSUME Lock!Init PROVE Lock!Claim!Init
  BY DEF Lock!Init, Lock!Claim!Init, Lock!Holder

LEMMA CreateTakes ==
    ASSUME Lock!OwnerLockAssumption, Lock!Inductive, NEW p \in Owners, Lock!Create(p)
    PROVE  Lock!Claim!Take(p)
<1> USE DEF Lock!Inductive, Lock!TypeOK, Lock!Epochs, Lock!At, Lock!Goto, Lock!Over, Lock!Holder
<1>1. Lock!Holder = Nobody /\ p \in alive
  BY DEF Lock!Create
<1>2. top' = top + 1 /\ top + 1 \in Lock!Epochs /\ top + 1 # 0
  BY DEF Lock!Create, Lock!OwnerLockAssumption
<1>3. owner'[top + 1] = p /\ top + 1 \notin released
  BY <1>2 DEF Lock!Create
<1>4. Lock!Holder' = p
  BY <1>1, <1>2, <1>3 DEF Lock!Create
<1> QED
  BY <1>1, <1>4 DEF Lock!Create, Lock!Claim!Take

LEMMA MarkLetsGo ==
    ASSUME Lock!OwnerLockAssumption, Lock!Inductive, NEW p \in Owners, Lock!MarkReleased(p)
    PROVE  Lock!Claim!LetGo(p)
<1>1. view[p] \in 1..top /\ owner[view[p]] = p /\ ~ Lock!Over(view[p]) /\ p \in alive
  BY DEF Lock!Inductive, Lock!TypeOK, Lock!MarkReleased, Lock!At, Lock!Over
<1>2. view[p] = top /\ top # 0
  BY <1>1 DEF Lock!Inductive, Lock!TypeOK, Lock!OwnerLockAssumption
<1>3. Lock!Holder = p
  BY <1>1, <1>2 DEF Lock!Holder
<1>4. Lock!Holder' = Nobody
  BY <1>2 DEF Lock!Holder, Lock!Over, Lock!MarkReleased
<1> QED
  BY <1>3, <1>4 DEF Lock!Claim!LetGo, Lock!MarkReleased

LEMMA DieIsDeath ==
    ASSUME Lock!OwnerLockAssumption, Lock!Inductive, NEW p \in Owners, Lock!Die(p)
    PROVE  Lock!Claim!Die(p)
<1>1. CASE top = 0
  BY <1>1 DEF Lock!Die, Lock!Claim!Die, Lock!Holder, Lock!OwnerLockAssumption
<1>2. CASE top # 0
  <2>1. owner[top] \in Owners
    BY <1>2 DEF Lock!Inductive, Lock!TypeOK, Lock!OwnerLockAssumption
  <2>2. CASE Lock!Over(top)
    BY <1>2, <2>1, <2>2
       DEF Lock!Die, Lock!Claim!Die, Lock!Holder, Lock!Over, Lock!OwnerLockAssumption
  <2>3. CASE ~ Lock!Over(top)
    BY <1>2, <2>1, <2>3
       DEF Lock!Die, Lock!Claim!Die, Lock!Holder, Lock!Over, Lock!OwnerLockAssumption
  <2> QED
    BY <2>2, <2>3
<1> QED
  BY <1>1, <1>2

LEMMA OthersStutter ==
    ASSUME NEW p \in Owners,
           Lock!Acquire(p) \/ Lock!List(p) \/ Lock!Judge(p) \/ Lock!Lose(p) \/ Lock!StartRelease(p)
    PROVE  UNCHANGED Lock!Claim!vars
  BY DEF Lock!Acquire, Lock!List, Lock!Judge, Lock!Lose, Lock!StartRelease, Lock!Claim!vars,
         Lock!Holder, Lock!Over

LEMMA NextClaims ==
    ASSUME Lock!OwnerLockAssumption, Lock!Inductive, [Lock!Next]_(Lock!vars)
       PROVE [Lock!Claim!Next]_(Lock!Claim!vars)
<1>1. CASE UNCHANGED Lock!vars
  BY <1>1 DEF Lock!vars, Lock!Claim!vars, Lock!Holder, Lock!Over
<1>2. ASSUME NEW p \in Owners,
             \/ Lock!Acquire(p) \/ Lock!List(p) \/ Lock!Judge(p) \/ Lock!Create(p) \/ Lock!Lose(p)
             \/ Lock!StartRelease(p) \/ Lock!MarkReleased(p) \/ Lock!Die(p)
      PROVE  [Lock!Claim!Next]_(Lock!Claim!vars)
  BY <1>2, CreateTakes, MarkLetsGo, DieIsDeath, OthersStutter DEF Lock!Claim!Next
<1> QED
  BY <1>1, <1>2 DEF Lock!Next

\* The lock keeps the promise of a claim: every step takes it from nobody, lets go
\* of one's own, is a death, or is invisible.
THEOREM OwnerLockIsClaim == ASSUME Lock!OwnerLockAssumption
   PROVE Lock!Spec => Lock!ImplementsClaim
<1>1. Lock!Init => Lock!Claim!Init
  BY InitClaims
<1>2. Lock!Init => Lock!Inductive
  BY InitInductive
<1>3. Lock!Inductive /\ [Lock!Next]_(Lock!vars) => Lock!Inductive'
  BY NextInductive
<1>4. Lock!Inductive /\ [Lock!Next]_(Lock!vars) => [Lock!Claim!Next]_(Lock!Claim!vars)
  BY NextClaims
<1> QED
  BY <1>1, <1>2, <1>3, <1>4, PTL DEF Lock!Spec, Lock!ImplementsClaim, Lock!Claim!Spec

-----------------------------------------------------------------------------
(* The report of learn-dream sessions.                                     *)

CONSTANTS Dreamers, Parts, MaxReports, MaxDreamSaves, MaxLosses, MaxEvents
VARIABLES report, save, passed, dreams, late, whole, crowded, dused

Rep == INSTANCE DreamReport WITH Sessions <- Dreamers, issues <- dreams,
                                 MaxSaves <- MaxDreamSaves, MaxFaults <- MaxLosses

SaveSteps == {"idle", "guard", "find", "create", "body", "scan", "part", "post", "rescan",
              "stamp"}
PartSet == [run : Dreamers, index : Nat, version : Nat]
DreamSet == [run : Dreamers, open : BOOLEAN, body : BOOLEAN, comments : SUBSET PartSet,
             stamp : BOOLEAN]
SaveSet == [at : SaveSteps, version : Nat, issue : Nat, seen : SUBSET PartSet, part : Nat,
            tries : Nat, clean : BOOLEAN]
LateSet == [is : {"issue"}, of : DreamSet]
             \cup [is : {"part"}, of : [issue : Nat, part : PartSet]]
RepTyped ==
  /\ dreams \in Seq(DreamSet) /\ save \in [Dreamers -> SaveSet] /\ report \in [Dreamers -> Nat]
  /\ late \subseteq LateSet
  /\ \A r \in late : IF r.is = "issue" THEN r.of.open ELSE r.of.issue \in 1..Len(dreams)

\* What a save in its record r has found or put on objective t[r.issue] so far.
Pages == {"part", "post", "rescan"}
PartOf(s, r, k) == [run |-> s, index |-> k, version |-> r.version]
Fit(s, r, t) ==
  /\ r.issue \in 0..Len(t) /\ r.part \in 0..Parts
  /\ r.at \in {"body", "scan", "stamp"} \cup Pages => r.issue \in 1..Len(t)
  /\ r.at \in Pages => r.part \in 1..Parts
  /\ r.clean /\ r.at \in Pages =>
       /\ r.seen \subseteq t[r.issue].comments
       /\ \A k \in 1..Parts : k < r.part => PartOf(s, r, k) \in t[r.issue].comments
  /\ r.clean /\ r.at = "stamp" => \A k \in 1..Parts : PartOf(s, r, k) \in t[r.issue].comments
Fits == \A s \in Dreamers : Fit(s, save[s], dreams)

\* What a save that succeeded left.
Left(w, t) ==
  /\ w.issue \in 1..Len(t) /\ t[w.issue].stamp
  /\ \A k \in 1..Parts :
       [run |-> w.run, index |-> k, version |-> w.version] \in t[w.issue].comments
AllLeft == \A w \in whole : Left(w, dreams)

\* While no guard looked during another creation there is one dream, one creation or one late
\* request for one.
Making == {"find", "create"}
Lone == ~crowded =>
  /\ \A i, j \in Rep!Dreams({}) : i = j
  /\ \A s \in Dreamers : save[s].at = "create" => Rep!Dreams({}) = {}
  /\ \A s \in Dreamers : save[s].at = "find" => Rep!Dreams({s}) = {}
  /\ \A s, o \in Dreamers : save[s].at \in Making /\ save[o].at \in Making => s = o
  /\ \A r \in late : r.is = "issue" =>
       /\ Rep!Dreams({}) = {} /\ \A s \in Dreamers : save[s].at \notin Making
       /\ \A q \in late : q.is = "issue" => q = r

RepInv == RepTyped /\ Fits /\ AllLeft /\ Lone
\* Objectives are added, and gain comments and stamps.
Gains(t, u) ==
  /\ u \in Seq(DreamSet) /\ 1..Len(t) \subseteq 1..Len(u) /\ 0..Len(t) \subseteq 0..Len(u)
  /\ \A i \in 1..Len(t) : t[i].comments \subseteq u[i].comments /\ (t[i].stamp => u[i].stamp)

LEMMA GainsNone == ASSUME NEW t \in Seq(DreamSet) PROVE Gains(t, t)
  BY DEF Gains

LEMMA GainsAtEnd ==
    ASSUME NEW t \in Seq(DreamSet), NEW e \in DreamSet, NEW u, u = Append(t, e)
    PROVE  /\ Gains(t, u) /\ Len(u) = Len(t) + 1 /\ u[Len(t) + 1] = e
           /\ Len(t) + 1 \in 1..Len(u) /\ Len(t) + 1 \in 0..Len(u) /\ Len(t) + 1 \in Nat
           /\ \A i \in 1..Len(u) : i \in 1..Len(t) \/ i = Len(t) + 1
           /\ \A i \in 1..Len(t) : u[i] = t[i]
<1>1. u \in Seq(DreamSet) /\ Len(u) = Len(t) + 1 /\ u[Len(t) + 1] = e
  OBVIOUS
<1>2. \A i \in 1..Len(t) : u[i] = t[i]
  OBVIOUS
<1>3. Len(t) \in Nat
  OBVIOUS
<1> QED
  BY <1>1, <1>2, <1>3 DEF Gains

LEMMA FitGains ==
    ASSUME NEW s, NEW r \in SaveSet, NEW t, NEW u, Gains(t, u), Fit(s, r, t)
    PROVE  Fit(s, r, u)
<1>1. r.issue \in 0..Len(u) /\ (r.issue \in 1..Len(t) => r.issue \in 1..Len(u))
  BY DEF Gains, Fit
<1>2. r.issue \in 1..Len(t) => t[r.issue].comments \subseteq u[r.issue].comments
  BY DEF Gains
<1> QED
  BY <1>1, <1>2 DEF Fit

LEMMA LeftGains ==
    ASSUME NEW w, NEW t, NEW u, Gains(t, u), Left(w, t)
    PROVE  Left(w, u)
  BY DEF Gains, Left

\* A step of save s that goes on as v, with the objectives as u.
LEMMA SaveKept ==
    ASSUME RepInv, NEW s \in Dreamers, NEW v \in SaveSet, NEW u,
           save' = [save EXCEPT ![s] = v], dreams' = u, Gains(dreams, u), Fit(s, v, u),
           report' \in [Dreamers -> Nat],
           \A r \in late' : r \in late \/ (r \in LateSet /\
                     (IF r.is = "issue" THEN r.of.open ELSE r.of.issue \in 1..Len(dreams))),
           \A w \in whole' : w \in whole \/ Left(w, u)
    PROVE  RepTyped' /\ Fits' /\ AllLeft'
<1>1. u \in Seq(DreamSet) /\ 1..Len(dreams) \subseteq 1..Len(u)
  BY DEF Gains
<1>2. save' \in [Dreamers -> SaveSet]
  BY DEF RepInv, RepTyped
<1>3. \A r \in late' :
        r \in LateSet /\ IF r.is = "issue" THEN r.of.open ELSE r.of.issue \in 1..Len(u)
  BY <1>1 DEF RepInv, RepTyped
<1>4. RepTyped'
  BY <1>1, <1>2, <1>3 DEF RepTyped
<1>5. Fits'
  <2>1. ASSUME NEW q \in Dreamers \ {s} PROVE Fit(q, save[q], u)
    BY FitGains DEF RepInv, RepTyped, Fits
  <2>2. \A q \in Dreamers : Fit(q, save'[q], u)
    BY <2>1 DEF RepInv, RepTyped
  <2> QED
    BY <2>2 DEF Fits
<1>6. AllLeft'
  <2>1. \A w \in whole' : Left(w, u)
    BY LeftGains DEF RepInv, AllLeft
  <2> QED
    BY <2>1 DEF AllLeft
<1> QED
  BY <1>4, <1>5, <1>6

\* A step that opens no dream, looks for none and asks for none.
LEMMA LoneStays ==
    ASSUME Lone, crowded => crowded', \A but : Rep!Dreams(but)' \subseteq Rep!Dreams(but),
           \A r \in late' : r.is = "issue" => r \in late,
           \A q \in Dreamers : save'[q].at \in Making => save'[q].at = save[q].at
    PROVE  Lone'
<1> SUFFICES ASSUME ~ crowded'
             PROVE  /\ \A i, j \in Rep!Dreams({})' : i = j
                    /\ \A s \in Dreamers : save'[s].at = "create" => Rep!Dreams({})' = {}
                    /\ \A s \in Dreamers : save'[s].at = "find" => Rep!Dreams({s})' = {}
                    /\ \A s, o \in Dreamers :
                         save'[s].at \in Making /\ save'[o].at \in Making => s = o
                    /\ \A r \in late' : r.is = "issue" =>
                         /\ Rep!Dreams({})' = {} /\ \A s \in Dreamers : save'[s].at \notin Making
                         /\ \A q \in late' : q.is = "issue" => q = r
  BY DEF Lone
<1>1. ~ crowded
  OBVIOUS
<1>2. \A i, j \in Rep!Dreams({})' : i = j
  BY <1>1 DEF Lone
<1>3. \A s \in Dreamers : save'[s].at = "create" => Rep!Dreams({})' = {}
  BY <1>1 DEF Lone, Making
<1>4. \A s \in Dreamers : save'[s].at = "find" => Rep!Dreams({s})' = {}
  BY <1>1 DEF Lone, Making
<1>5. \A s, o \in Dreamers : save'[s].at \in Making /\ save'[o].at \in Making => s = o
  BY <1>1 DEF Lone
<1>6. \A r \in late' : r.is = "issue" =>
        /\ Rep!Dreams({})' = {} /\ \A s \in Dreamers : save'[s].at \notin Making
        /\ \A q \in late' : q.is = "issue" => q = r
  BY <1>1 DEF Lone
<1> QED
  BY <1>2, <1>3, <1>4, <1>5, <1>6

LEMMA NoSaveFits ==
    ASSUME Parts \in Nat, NEW s, NEW t \in Seq(DreamSet)
    PROVE  Rep!NoSave \in SaveSet /\ Rep!NoSave.at = "idle" /\ Fit(s, Rep!NoSave, t)
<1>1. /\ Rep!NoSave \in SaveSet /\ Rep!NoSave.at = "idle"
      /\ Rep!NoSave.issue = 0 /\ Rep!NoSave.part = 0
  BY DEF Rep!NoSave, SaveSet, SaveSteps
<1>2. 0 \in 0..Parts /\ 0 \in 0..Len(t)
  OBVIOUS
<1> QED
  BY <1>1, <1>2 DEF Fit, Pages

\* Only the step of the save changes.
LEMMA MovedFields ==
    ASSUME NEW r \in SaveSet, NEW at \in SaveSteps
    PROVE  LET v == [r EXCEPT !.at = at] IN
           /\ v \in SaveSet /\ v.at = at /\ v.version = r.version /\ v.issue = r.issue
           /\ v.seen = r.seen /\ v.part = r.part /\ v.clean = r.clean
<1>1. PICK v : v = [r EXCEPT !.at = at]
  OBVIOUS
<1>2. /\ v \in SaveSet /\ v.at = at /\ v.version = r.version /\ v.issue = r.issue
      /\ v.seen = r.seen /\ v.part = r.part /\ v.clean = r.clean
  BY <1>1 DEF SaveSet
<1> QED
  BY <1>1, <1>2

\* The next part, or on to the stamp.
LEMMA NextFits ==
    ASSUME Parts \in Nat, RepInv, NEW s \in Dreamers, NEW seen \in SUBSET PartSet,
           NEW k \in 1..Parts + 1, Rep!NextPart(s, seen, k), save[s].issue \in 1..Len(dreams),
           save[s].clean => seen \subseteq dreams[save[s].issue].comments,
           save[s].clean => \A j \in 1..Parts : j < k =>
                              PartOf(s, save[s], j) \in dreams[save[s].issue].comments
    PROVE  \E v \in SaveSet : /\ save' = [save EXCEPT ![s] = v] /\ v.at \notin Making
                              /\ Fit(s, v, dreams)
<1>0. save[s] \in SaveSet /\ Fit(s, save[s], dreams)
  BY DEF RepInv, RepTyped, Fits
<1>1. CASE k > Parts
  <2>1. PICK v : v = [save[s] EXCEPT !.at = "stamp"]
    OBVIOUS
  <2>2. /\ v \in SaveSet /\ v.at = "stamp" /\ v.version = save[s].version
        /\ v.issue = save[s].issue
        /\ v.part = save[s].part /\ v.clean = save[s].clean
    BY <1>0, <2>1, MovedFields DEF SaveSteps
  <2>3. \A j \in 1..Parts : j < k
    BY <1>1
  <2>4. Fit(s, v, dreams)
    BY <1>0, <2>2, <2>3 DEF Fit, Pages, PartOf
  <2>5. save' = [save EXCEPT ![s] = v]
    BY <1>1, <2>1 DEF Rep!NextPart, Rep!Go
  <2> QED
    BY <2>2, <2>4, <2>5 DEF Making
<1>2. CASE ~ (k > Parts)
  <2>0. k \in 1..Parts /\ k \in 0..Parts /\ k \in Nat
    BY <1>2
  <2>1. PICK v : v = [save[s] EXCEPT !.at = "part", !.part = k, !.seen = seen, !.tries = 0]
    OBVIOUS
  <2>2. /\ v \in SaveSet /\ v.at = "part" /\ v.version = save[s].version
        /\ v.issue = save[s].issue
        /\ v.part = k /\ v.clean = save[s].clean /\ v.seen = seen
    BY <1>0, <2>0, <2>1 DEF SaveSet, SaveSteps
  <2>4. Fit(s, v, dreams)
    BY <1>0, <2>0, <2>2 DEF Fit, Pages, PartOf
  <2>5. save' = [save EXCEPT ![s] = v]
    BY <1>2, <2>1 DEF Rep!NextPart, Rep!Go
  <2> QED
    BY <2>2, <2>4, <2>5 DEF Making
<1> QED
  BY <1>1, <1>2

\* A step that leaves the objectives and the ghosts alone and does not begin a creation.
LEMMA QuietStep ==
    ASSUME RepInv, NEW s \in Dreamers, NEW v \in SaveSet, save' = [save EXCEPT ![s] = v],
           Fit(s, v, dreams), v.at \in Making => v.at = save[s].at,
           report' \in [Dreamers -> Nat], UNCHANGED <<dreams, whole>>, crowded => crowded',
           \A r \in late' : r \in late \/
             (r \in LateSet /\ r.is # "issue" /\ r.of.issue \in 1..Len(dreams))
    PROVE  RepInv'
<1>1. Gains(dreams, dreams)
  BY GainsNone DEF RepInv, RepTyped
<1>2. RepTyped' /\ Fits' /\ AllLeft'
  BY <1>1, SaveKept
<1>3. \A but : Rep!Dreams(but)' = Rep!Dreams(but)
  BY DEF Rep!Dreams
<1>4. \A q \in Dreamers : save'[q].at \in Making => save'[q].at = save[q].at
  BY DEF RepInv, RepTyped
<1>5. Lone'
  BY <1>3, <1>4, LoneStays DEF RepInv
<1> QED
  BY <1>2, <1>5 DEF RepInv

LEMMA DoorKept ==
    ASSUME Parts \in Nat, RepInv, NEW s \in Dreamers,
           Rep!Launch(s) \/ Rep!WriteReport(s) \/ Rep!ReadTransfer(s) \/ Rep!Cut(s)
    PROVE  RepInv'
<1>0. save \in [Dreamers -> SaveSet] /\ save[s] \in SaveSet /\ Fit(s, save[s], dreams)
      /\ dreams \in Seq(DreamSet) /\ report \in [Dreamers -> Nat]
  BY DEF RepInv, RepTyped, Fits
<1>1. CASE Rep!Launch(s)
  BY <1>0, <1>1, QuietStep DEF Rep!Launch, Rep!Remote, Rep!Ghosts
<1>2. CASE Rep!WriteReport(s)
  <2>1. report' \in [Dreamers -> Nat]
    BY <1>0, <1>2 DEF Rep!WriteReport
  <2> QED
    BY <1>0, <1>2, <2>1, QuietStep DEF Rep!WriteReport, Rep!Remote, Rep!Ghosts
<1>3. CASE Rep!ReadTransfer(s)
  <2>1. PICK v : v = [Rep!NoSave EXCEPT !.at = "guard", !.version = report[s]]
    OBVIOUS
  <2>2. Rep!NoSave \in SaveSet /\ Rep!NoSave.issue = 0 /\ Rep!NoSave.part = 0
    BY DEF Rep!NoSave, SaveSet, SaveSteps
  <2>3. v \in SaveSet /\ v.at = "guard" /\ v.issue = 0 /\ v.part = 0
    BY <1>0, <2>1, <2>2 DEF SaveSet, SaveSteps
  <2>4. Fit(s, v, dreams)
    BY <1>0, <2>3 DEF Fit, Pages
  <2> QED
    BY <1>0, <1>3, <2>1, <2>3, <2>4, QuietStep
    DEF Rep!ReadTransfer, Rep!Go, Rep!Still, Rep!Remote, Rep!Ghosts, Making
<1>4. CASE Rep!Cut(s)
  BY <1>0, <1>4, NoSaveFits, QuietStep
  DEF Rep!Cut, Rep!Fail, Rep!Go, Rep!Still, Rep!Remote, Rep!Ghosts, Making
<1> QED
  BY <1>1, <1>2, <1>3, <1>4

LEMMA GuardKept ==
    ASSUME Parts \in Nat, RepInv, NEW s \in Dreamers, Rep!Guard(s)
    PROVE  RepInv'
<1>0. save \in [Dreamers -> SaveSet] /\ save[s] \in SaveSet /\ Fit(s, save[s], dreams)
      /\ dreams \in Seq(DreamSet) /\ report \in [Dreamers -> Nat]
  BY DEF RepInv, RepTyped, Fits
<1>g. /\ save[s].at = "guard" /\ UNCHANGED <<report, dreams, late, whole>>
      /\ crowded' = (crowded \/ Rep!Others(s))
  BY DEF Rep!Guard, Rep!Still, Rep!Remote
<1>1. CASE Rep!Dreams({s}) # {}
  <2>1. save' = [save EXCEPT ![s] = Rep!NoSave]
    BY <1>1 DEF Rep!Guard, Rep!Fail, Rep!Go
  <2> QED
    BY <1>0, <1>g, <2>1, NoSaveFits, QuietStep DEF Making
<1>2. CASE Rep!Dreams({s}) = {}
  <2>1. PICK v : v = [save[s] EXCEPT !.at = "find"]
    OBVIOUS
  <2>2. /\ v \in SaveSet /\ v.at = "find" /\ v.version = save[s].version
        /\ v.issue = save[s].issue
        /\ v.part = save[s].part
    BY <1>0, <2>1, MovedFields, ZenonT(60) DEF SaveSteps
  <2>3. save' = [save EXCEPT ![s] = v]
    BY <1>2, <2>1 DEF Rep!Guard, Rep!At, Rep!Go
  <2>4. Fit(s, v, dreams)
    BY <1>0, <2>2 DEF Fit, Pages
  <2>5. RepTyped' /\ Fits' /\ AllLeft'
    BY <1>0, <1>g, <2>2, <2>3, <2>4, SaveKept, GainsNone
  <2>6. Lone'
    <3>1. \A but : Rep!Dreams(but)' = Rep!Dreams(but)
      BY <1>g DEF Rep!Dreams
    <3>2. save'[s].at = "find" /\ \A q \in Dreamers \ {s} : save'[q] = save[q]
      BY <1>0, <2>2, <2>3
    <3>3. ASSUME ~ crowded'
          PROVE  /\ ~ crowded /\ \A q \in Dreamers \ {s} : save[q].at \notin Making
                 /\ \A r \in late : r.is # "issue"
      BY <1>g, <3>3 DEF Rep!Others, Making
    <3>4. ASSUME ~ crowded' PROVE \A i, j \in Rep!Dreams({})' : i = j
      BY <3>1, <3>3, <3>4 DEF RepInv, Lone
    <3>5. ASSUME ~ crowded', NEW q \in Dreamers, save'[q].at \in Making PROVE q = s
      BY <3>2, <3>3, <3>5
    <3>6. Rep!Dreams({s})' = {}
      BY <1>2, <3>1
    <3> QED
      BY <1>g, <3>2, <3>3, <3>4, <3>5, <3>6 DEF Lone, Making
  <2> QED
    BY <2>5, <2>6 DEF RepInv
<1> QED
  BY <1>1, <1>2

\* The dream of the only save that is creating, or of the only late request.
LEMMA FirstDream ==
    ASSUME RepInv, NEW e \in DreamSet, NEW u, u = Append(dreams, e), dreams' = u,
           ~ crowded' => /\ Rep!Dreams({}) = {} /\ \A q \in Dreamers : save'[q].at \notin Making
                         /\ \A r \in late' : r.is # "issue"
    PROVE  Lone'
<1>0. dreams \in Seq(DreamSet)
  BY DEF RepInv, RepTyped
<1>1. \A i \in 1..Len(u) : i \in 1..Len(dreams) \/ i = Len(dreams) + 1
  BY <1>0, GainsAtEnd
<1>2. \A i \in 1..Len(dreams) : u[i] = dreams[i]
  BY <1>0, GainsAtEnd
<1>3. PICK n : n = Len(dreams) + 1
  OBVIOUS
<1>4. ASSUME ~ crowded', NEW i \in Rep!Dreams({})' PROVE i = n
  <2>1. i \in 1..Len(u) /\ u[i].open
    BY <1>4 DEF Rep!Dreams
  <2>2. CASE i \in 1..Len(dreams)
    <3>1. i \in Rep!Dreams({})
      BY <2>1, <2>2, <1>2 DEF Rep!Dreams
    <3> QED
      BY <3>1, <1>4
  <2> QED
    BY <2>1, <2>2, <1>1, <1>3
<1>5. ASSUME ~ crowded' PROVE \A i, j \in Rep!Dreams({})' : i = j
  BY <1>4, <1>5
<1> QED
  BY <1>5 DEF Lone, Making

LEMMA FindKept ==
    ASSUME Parts \in Nat, RepInv, NEW s \in Dreamers, Rep!Find(s)
    PROVE  RepInv'
<1>0. save \in [Dreamers -> SaveSet] /\ save[s] \in SaveSet /\ Fit(s, save[s], dreams)
      /\ dreams \in Seq(DreamSet) /\ report \in [Dreamers -> Nat]
  BY DEF RepInv, RepTyped, Fits
<1>g. save[s].at = "find" /\ UNCHANGED <<report, passed, dreams, late, whole, crowded, dused>>
  BY DEF Rep!Find, Rep!Still, Rep!Remote, Rep!Ghosts
<1>1. ASSUME NEW i \in Rep!Own(s), Rep!Go(s, [save[s] EXCEPT !.at = "scan", !.issue = i])
      PROVE  RepInv'
  <2>0. i \in 1..Len(dreams) /\ i \in 0..Len(dreams) /\ i \in Nat
    BY <1>0 DEF Rep!Own
  <2>1. PICK v : v = [save[s] EXCEPT !.at = "scan", !.issue = i]
    OBVIOUS
  <2>2. v \in SaveSet /\ v.at = "scan" /\ v.issue = i /\ v.part = save[s].part
    BY <1>0, <2>0, <2>1 DEF SaveSet, SaveSteps
  <2>3. Fit(s, v, dreams)
    BY <1>0, <2>0, <2>2 DEF Fit, Pages
  <2>4. save' = [save EXCEPT ![s] = v]
    BY <1>1, <2>1 DEF Rep!Go
  <2> QED
    BY <1>0, <1>g, <2>2, <2>3, <2>4, QuietStep DEF Making
<1>2. CASE Rep!Own(s) = {} /\ Rep!At(s, "create")
  <2>1. PICK v : v = [save[s] EXCEPT !.at = "create"]
    OBVIOUS
  <2>2. v \in SaveSet /\ v.at = "create" /\ v.issue = save[s].issue /\ v.part = save[s].part
    BY <1>0, <2>1, MovedFields DEF SaveSteps
  <2>3. save' = [save EXCEPT ![s] = v]
    BY <1>2, <2>1 DEF Rep!At, Rep!Go
  <2>4. Fit(s, v, dreams)
    BY <1>0, <2>2 DEF Fit, Pages
  <2>5. RepTyped' /\ Fits' /\ AllLeft'
    BY <1>0, <1>g, <2>2, <2>3, <2>4, SaveKept, GainsNone
  <2>6. Lone'
    <3>1. \A but : Rep!Dreams(but)' = Rep!Dreams(but)
      BY <1>g DEF Rep!Dreams
    <3>2. save'[s].at = "create" /\ \A q \in Dreamers \ {s} : save'[q] = save[q]
      BY <1>0, <2>2, <2>3
    <3>3. ASSUME ~ crowded PROVE Rep!Dreams({}) = {}
      BY <1>g, <1>2, <3>3 DEF RepInv, Lone, Rep!Dreams, Rep!Own
    <3>4. ASSUME ~ crowded, NEW q \in Dreamers, save'[q].at \in Making PROVE q = s
      BY <1>g, <3>2, <3>4 DEF RepInv, Lone, Making
    <3>5. ASSUME ~ crowded PROVE \A r \in late : r.is # "issue"
      BY <1>g, <3>5 DEF RepInv, Lone, Making
    <3> QED
      BY <1>g, <3>1, <3>2, <3>3, <3>4, <3>5 DEF Lone, Making
  <2> QED
    BY <2>5, <2>6 DEF RepInv
<1> QED
  BY <1>1, <1>2 DEF Rep!Find

LEMMA CreateKept ==
    ASSUME Parts \in Nat, RepInv, NEW s \in Dreamers, Rep!Create(s)
    PROVE  RepInv'
<1>0. save \in [Dreamers -> SaveSet] /\ save[s] \in SaveSet /\ Fit(s, save[s], dreams)
      /\ dreams \in Seq(DreamSet) /\ report \in [Dreamers -> Nat]
  BY DEF RepInv, RepTyped, Fits
<1>g. save[s].at = "create" /\ UNCHANGED <<report, whole, crowded>>
  BY DEF Rep!Create, Rep!Still, Rep!Ghosts
<1>n. Rep!NewIssue(s) \in DreamSet /\ Rep!NewIssue(s).open
  BY DEF Rep!NewIssue, DreamSet
<1>l. ~ crowded => /\ Rep!Dreams({}) = {} /\ \A r \in late : r.is # "issue"
                   /\ \A q \in Dreamers \ {s} : save[q].at \notin Making
  BY <1>g DEF RepInv, Lone, Making
<1>1. CASE /\ dreams' = Append(dreams, Rep!NewIssue(s)) /\ UNCHANGED <<late, dused>>
           /\ Rep!Go(s, [save[s] EXCEPT !.at = "body", !.issue = Len(dreams) + 1])
  <2>u. PICK u : u = Append(dreams, Rep!NewIssue(s))
    OBVIOUS
  <2>0. Gains(dreams, u) /\ Len(dreams) + 1 \in 1..Len(u) /\ Len(dreams) + 1 \in 0..Len(u)
        /\ Len(dreams) + 1 \in Nat
    BY <1>0, <1>n, <2>u, GainsAtEnd
  <2>m. PICK n : n = Len(dreams) + 1
    OBVIOUS
  <2>1. PICK v : v = [save[s] EXCEPT !.at = "body", !.issue = n]
    OBVIOUS
  <2>2. v \in SaveSet /\ v.at = "body" /\ v.issue = n /\ v.part = save[s].part
    BY <1>0, <2>0, <2>m, <2>1 DEF SaveSet, SaveSteps
  <2>3. Fit(s, v, u)
    BY <1>0, <2>0, <2>m, <2>2 DEF Fit, Pages
  <2>4. save' = [save EXCEPT ![s] = v]
    BY <1>1, <2>1, <2>m DEF Rep!Go
  <2>5. RepTyped' /\ Fits' /\ AllLeft'
    BY <1>0, <1>g, <1>1, <2>u, <2>0, <2>2, <2>3, <2>4, SaveKept
  <2>6. \A q \in Dreamers \ {s} : save'[q] = save[q]
    BY <1>0, <2>4
  <2>7. save'[s].at = "body"
    BY <1>0, <2>2, <2>4
  <2>8. Lone'
    BY <1>g, <1>l, <1>n, <1>1, <2>u, <2>6, <2>7, FirstDream DEF Making
  <2> QED
    BY <2>5, <2>8 DEF RepInv
<1>2. ASSUME Rep!Fail(s) PROVE /\ save' = [save EXCEPT ![s] = Rep!NoSave] /\ save'[s].at = "idle"
                               /\ \A q \in Dreamers \ {s} : save'[q] = save[q]
  BY <1>0, <1>2, NoSaveFits DEF Rep!Fail, Rep!Go
<1>3. CASE /\ Rep!Fail(s) /\ UNCHANGED dreams
           /\ late' = late \cup {[is |-> "issue", of |-> Rep!NewIssue(s)]}
  <2>r. PICK r : r = [is |-> "issue", of |-> Rep!NewIssue(s)]
    OBVIOUS
  <2>1. r \in LateSet /\ r.is = "issue" /\ r.of.open
    BY <1>n, <2>r DEF LateSet
  <2>2. late' = late \cup {r}
    BY <1>3, <2>r
  <2>3. Gains(dreams, dreams) /\ Rep!NoSave \in SaveSet /\ Fit(s, Rep!NoSave, dreams)
    BY <1>0, GainsNone, NoSaveFits
  <2>4. RepTyped' /\ Fits' /\ AllLeft'
    BY <1>0, <1>g, <1>2, <1>3, <2>1, <2>2, <2>3, SaveKept
  <2>5. Lone'
    <3>1. \A but : Rep!Dreams(but)' = Rep!Dreams(but)
      BY <1>3 DEF Rep!Dreams
    <3>2. ~ crowded => \A q \in Dreamers : save'[q].at \notin Making
      BY <1>l, <1>2, <1>3 DEF Making
    <3>3. ~ crowded => \A q \in late' : q.is = "issue" => q = r
      BY <1>l, <2>2
    <3>4. ASSUME ~ crowded' PROVE Rep!Dreams({})' = {}
      BY <1>l, <1>g, <3>1, <3>4
    <3> QED
      BY <1>g, <3>2, <3>3, <3>4 DEF Lone, Making
  <2> QED
    BY <2>4, <2>5 DEF RepInv
<1>4. CASE Rep!Fail(s) /\ dreams' = Append(dreams, Rep!NewIssue(s)) /\ UNCHANGED late
  <2>u. PICK u : u = Append(dreams, Rep!NewIssue(s))
    OBVIOUS
  <2>0. Gains(dreams, u) /\ u \in Seq(DreamSet)
    BY <1>0, <1>n, <2>u, GainsAtEnd DEF Gains
  <2>1. Rep!NoSave \in SaveSet /\ Fit(s, Rep!NoSave, u)
    BY <2>0, NoSaveFits
  <2>2. RepTyped' /\ Fits' /\ AllLeft'
    BY <1>0, <1>g, <1>2, <1>4, <2>u, <2>0, <2>1, SaveKept
  <2>3. Lone'
    BY <1>g, <1>l, <1>n, <1>2, <1>4, <2>u, FirstDream DEF Making
  <2> QED
    BY <2>2, <2>3 DEF RepInv
<1>5. CASE Rep!Fail(s) /\ Rep!Remote
  BY <1>0, <1>g, <1>2, <1>5, NoSaveFits, QuietStep DEF Rep!Remote, Making
<1> QED
  BY <1>1, <1>3, <1>4, <1>5 DEF Rep!Create

\* An objective that gains comments or the stamp stays the dream it was.
LEMMA SameDreams ==
    ASSUME dreams \in Seq(DreamSet), NEW j \in 1..Len(dreams), NEW e \in DreamSet,
           NEW u, u = [dreams EXCEPT ![j] = e], dreams' = u,
           dreams[j].comments \subseteq e.comments, dreams[j].stamp => e.stamp,
           e.open = dreams[j].open, e.run = dreams[j].run
    PROVE  Gains(dreams, u) /\ u[j] = e /\ \A but : Rep!Dreams(but)' = Rep!Dreams(but)
<1>1. /\ u \in Seq(DreamSet) /\ Len(u) = Len(dreams) /\ u[j] = e
      /\ \A i \in 1..Len(dreams) : i # j => u[i] = dreams[i]
  OBVIOUS
<1>g. Gains(dreams, u)
  BY <1>1 DEF Gains
<1>2. \A i \in 1..Len(dreams) : u[i].open = dreams[i].open /\ u[i].run = dreams[i].run
  BY <1>1
<1>3. ASSUME NEW but PROVE Rep!Dreams(but)' = Rep!Dreams(but)
  BY <1>1, <1>2 DEF Rep!Dreams
<1> QED
  BY <1>1, <1>g, <1>3

LEMMA PostBodyKept ==
    ASSUME Parts \in Nat, RepInv, NEW s \in Dreamers, Rep!PostBody(s)
    PROVE  RepInv'
<1>0. save \in [Dreamers -> SaveSet] /\ save[s] \in SaveSet /\ Fit(s, save[s], dreams)
      /\ dreams \in Seq(DreamSet) /\ report \in [Dreamers -> Nat]
  BY DEF RepInv, RepTyped, Fits
<1>g. /\ save[s].at = "body" /\ UNCHANGED <<report, whole, crowded, late>>
      /\ dreams' = [dreams EXCEPT ![save[s].issue].body = TRUE] /\ Rep!At(s, "scan")
  BY DEF Rep!PostBody, Rep!Still, Rep!Ghosts
<1>j. PICK j : j = save[s].issue
  OBVIOUS
<1>1. j \in 1..Len(dreams)
  BY <1>0, <1>g, <1>j DEF Fit
<1>e. PICK e : e = [dreams[j] EXCEPT !.body = TRUE]
  OBVIOUS
<1>2. dreams[j] \in DreamSet
  BY <1>0, <1>1
<1>3. /\ e \in DreamSet /\ e.comments = dreams[j].comments /\ e.stamp = dreams[j].stamp
      /\ e.open = dreams[j].open /\ e.run = dreams[j].run
  BY <1>e, <1>2 DEF DreamSet
<1>u. PICK u : u = [dreams EXCEPT ![j] = e]
  OBVIOUS
<1>4. dreams' = u
  BY <1>g, <1>j, <1>e, <1>u
<1>5. Gains(dreams, u) /\ \A but : Rep!Dreams(but)' = Rep!Dreams(but)
  BY <1>0, <1>1, <1>3, <1>4, <1>u, SameDreams, ZenonT(60)
<1>v. PICK v : v = [save[s] EXCEPT !.at = "scan"]
  OBVIOUS
<1>6. v \in SaveSet /\ v.at = "scan" /\ v.issue = j /\ v.part = save[s].part
  BY <1>0, <1>j, <1>v, MovedFields DEF SaveSteps
<1>7. save' = [save EXCEPT ![s] = v]
  BY <1>g, <1>v DEF Rep!At, Rep!Go
<1>8. Fit(s, v, dreams)
  BY <1>0, <1>1, <1>6 DEF Fit, Pages
<1>9. RepTyped' /\ Fits' /\ AllLeft'
  BY <1>0, <1>g, <1>4, <1>5, <1>6, <1>7, <1>8, FitGains, SaveKept
<1>10. \A q \in Dreamers : save'[q].at \in Making => save'[q].at = save[q].at
  BY <1>0, <1>6, <1>7 DEF Making
<1>11. Lone'
  BY <1>g, <1>5, <1>10, LoneStays DEF RepInv
<1> QED
  BY <1>9, <1>11 DEF RepInv

\* Reading is quiet: a scan, a look at the part in hand and a scan after a POST.
LEMMA ReadingKept ==
    ASSUME \/ Parts \in Nat, RepInv, NEW s \in Dreamers, Rep!Scan(s) \/ Rep!Persist(s)
           \/ Rep!Rescan(s)
    PROVE  RepInv'
<1>0. save \in [Dreamers -> SaveSet] /\ save[s] \in SaveSet /\ Fit(s, save[s], dreams)
      /\ dreams \in Seq(DreamSet) /\ report \in [Dreamers -> Nat]
  BY DEF RepInv, RepTyped, Fits
<1>g. UNCHANGED <<report, whole, crowded, late, dreams>>
  BY DEF Rep!Scan, Rep!Persist, Rep!Rescan, Rep!Still, Rep!Ghosts, Rep!Remote
<1>j. PICK j : j = save[s].issue
  OBVIOUS
<1>1. j \in 1..Len(dreams) /\ dreams[j] \in DreamSet
  <2>1. save[s].at \in {"scan"} \cup Pages
    BY DEF Rep!Scan, Rep!Persist, Rep!Rescan, Pages
  <2>2. j \in 1..Len(dreams)
    BY <1>0, <1>j, <2>1 DEF Fit
  <2> QED
    BY <1>0, <2>2
<1>f. CASE Rep!Fail(s)
  BY <1>0, <1>g, <1>f, NoSaveFits, QuietStep DEF Rep!Fail, Rep!Go, Making
<1>n. ASSUME NEW seen \in SUBSET PartSet, NEW k \in 1..Parts + 1, Rep!NextPart(s, seen, k),
             save[s].clean => seen \subseteq dreams[j].comments,
             save[s].clean => \A m \in 1..Parts :
                                m < k => PartOf(s, save[s], m) \in dreams[j].comments
      PROVE  RepInv'
  <2>1. PICK v \in SaveSet :
          save' = [save EXCEPT ![s] = v] /\ v.at \notin Making /\ Fit(s, v, dreams)
    BY <1>n, <1>1, <1>j, NextFits
  <2> QED
    BY <1>0, <1>g, <2>1, QuietStep
<1>p. ASSUME NEW r \in SaveSet, Rep!Go(s, r), Fit(s, r, dreams), r.at \notin Making PROVE RepInv'
  BY <1>0, <1>g, <1>p, QuietStep DEF Rep!Go
<1>2. CASE Rep!Scan(s)
  <2>1. CASE Rep!Scannable(s)
    <3>1. Rep!Stored(s) \in SUBSET PartSet /\ Rep!Stored(s) \subseteq dreams[j].comments
      BY <1>1, <1>j DEF Rep!Stored, Rep!Comments, DreamSet
    <3>2. 1 \in 1..Parts + 1 /\ \A m \in 1..Parts : ~ (m < 1)
      OBVIOUS
    <3>3. Rep!NextPart(s, Rep!Stored(s), 1)
      BY <1>2, <2>1 DEF Rep!Scan
    <3> QED
      BY <1>n, <3>1, <3>2, <3>3
  <2>2. CASE ~ Rep!Scannable(s)
    BY <1>2, <1>f, <2>2 DEF Rep!Scan
  <2> QED
    BY <2>1, <2>2
<1>k. ASSUME save[s].at \in Pages
      PROVE  /\ save[s].part \in 1..Parts /\ save[s].part + 1 \in 1..Parts + 1
             /\ \A m \in 1..Parts : m < save[s].part + 1 => m < save[s].part \/ m = save[s].part
             /\ save[s].clean => /\ save[s].seen \subseteq dreams[j].comments
                                 /\ \A m \in 1..Parts : m < save[s].part =>
                                      PartOf(s, save[s], m) \in dreams[j].comments
  <2>1. save[s].part \in 1..Parts
    BY <1>0, <1>k DEF Fit
  <2>2. PICK k : k = save[s].part
    OBVIOUS
  <2>3. k + 1 \in 1..Parts + 1 /\ \A m \in 1..Parts : m < k + 1 => m < k \/ m = k
    BY <2>1, <2>2
  <2> QED
    BY <1>0, <1>j, <1>k, <2>1, <2>2, <2>3 DEF Fit
<1>o. ASSUME save[s].at \in Pages, Rep!NextPart(s, save[s].seen, save[s].part + 1),
             save[s].clean => Rep!Part(s) \in dreams[j].comments
      PROVE  RepInv'
  <2>1. save[s].seen \in SUBSET PartSet
    BY <1>0 DEF SaveSet
  <2>2. Rep!Part(s) = PartOf(s, save[s], save[s].part)
    BY DEF Rep!Part, PartOf
  <2>3. save[s].clean => \A m \in 1..Parts : m < save[s].part + 1 =>
          PartOf(s, save[s], m) \in dreams[j].comments
    BY <1>k, <1>o, <2>2
  <2> QED
    BY <1>k, <1>n, <1>o, <2>1, <2>3
<1>3. CASE Rep!Persist(s)
  <2>0. save[s].at = "part" /\ save[s].at \in Pages
    BY <1>3 DEF Rep!Persist, Pages
  <2>1. CASE Rep!InHand(s) = {}
    <3>1. PICK v : v = [save[s] EXCEPT !.at = "post"]
      OBVIOUS
    <3>2. /\ v \in SaveSet /\ v.at = "post" /\ v.version = save[s].version
          /\ v.issue = save[s].issue
          /\ v.seen = save[s].seen /\ v.part = save[s].part /\ v.clean = save[s].clean
      BY <1>0, <3>1, MovedFields DEF SaveSteps
    <3>3. Fit(s, v, dreams)
      BY <1>0, <2>0, <3>2 DEF Fit, Pages, PartOf
    <3>4. Rep!Go(s, v)
      BY <1>3, <2>1, <3>1 DEF Rep!Persist, Rep!At
    <3> QED
      BY <1>p, <3>2, <3>3, <3>4 DEF Making
  <2>2. CASE Rep!InHand(s) # {} /\ Rep!InHand(s) = {Rep!Part(s)}
    <3>1. Rep!Part(s) \in save[s].seen
      BY <2>2 DEF Rep!InHand
    <3>2. Rep!NextPart(s, save[s].seen, save[s].part + 1)
      BY <1>3, <2>2 DEF Rep!Persist
    <3> QED
      BY <1>k, <1>o, <2>0, <3>1, <3>2
  <2>3. CASE Rep!InHand(s) # {} /\ Rep!InHand(s) # {Rep!Part(s)}
    BY <1>3, <1>f, <2>3 DEF Rep!Persist
  <2> QED
    BY <2>1, <2>2, <2>3
<1>4. CASE Rep!Rescan(s)
  <2>0. save[s].at = "rescan" /\ save[s].at \in Pages
    BY <1>4 DEF Rep!Rescan, Pages
  <2>1. ASSUME {c \in Rep!Stored(s) : c.index = save[s].part} = {Rep!Part(s)},
               Rep!NextPart(s, save[s].seen, save[s].part + 1)
        PROVE  RepInv'
    <3>1. Rep!Part(s) \in dreams[j].comments
      BY <1>j, <2>1 DEF Rep!Stored, Rep!Comments
    <3> QED
      BY <1>o, <2>0, <2>1, <3>1
  <2>2. ASSUME Rep!Go(s, [save[s] EXCEPT !.at = "post", !.tries = 1]) PROVE RepInv'
    <3>1. PICK v : v = [save[s] EXCEPT !.at = "post", !.tries = 1]
      OBVIOUS
    <3>2. /\ v \in SaveSet /\ v.at = "post" /\ v.version = save[s].version
          /\ v.issue = save[s].issue
          /\ v.seen = save[s].seen /\ v.part = save[s].part /\ v.clean = save[s].clean
      BY <1>0, <3>1 DEF SaveSet, SaveSteps
    <3>3. Fit(s, v, dreams)
      BY <1>0, <2>0, <3>2 DEF Fit, Pages, PartOf
    <3> QED
      BY <1>p, <2>2, <3>1, <3>2, <3>3 DEF Making
  <2>3. \/ Rep!Fail(s)
        \/ /\ {c \in Rep!Stored(s) : c.index = save[s].part} = {Rep!Part(s)}
           /\ Rep!NextPart(s, save[s].seen, save[s].part + 1)
        \/ Rep!Go(s, [save[s] EXCEPT !.at = "post", !.tries = 1])
    BY <1>4 DEF Rep!Rescan
  <2> QED
    BY <1>f, <2>1, <2>2, <2>3
<1> QED
  BY <1>2, <1>3, <1>4

LEMMA PostKept ==
    ASSUME Parts \in Nat, RepInv, NEW s \in Dreamers, Rep!Post(s)
    PROVE  RepInv'
<1>0. save \in [Dreamers -> SaveSet] /\ save[s] \in SaveSet /\ Fit(s, save[s], dreams)
      /\ dreams \in Seq(DreamSet) /\ report \in [Dreamers -> Nat]
  BY DEF RepInv, RepTyped, Fits
<1>g. save[s].at = "post" /\ UNCHANGED <<report, whole, crowded>> /\ Rep!At(s, "rescan")
  BY DEF Rep!Post, Rep!Still, Rep!Ghosts
<1>j. PICK j : j = save[s].issue
  OBVIOUS
<1>1. j \in 1..Len(dreams) /\ save[s].part \in 1..Parts
  BY <1>0, <1>g, <1>j DEF Fit, Pages
<1>2. dreams[j] \in DreamSet /\ j \in Nat
  BY <1>0, <1>1
<1>x. PICK x : x = Rep!Part(s)
  OBVIOUS
<1>3. x \in PartSet
  <2>1. save[s].part \in Nat /\ save[s].version \in Nat
    BY <1>0 DEF SaveSet
  <2> QED
    BY <1>x, <2>1 DEF Rep!Part, PartSet
<1>v. PICK v : v = [save[s] EXCEPT !.at = "rescan"]
  OBVIOUS
<1>4. /\ v \in SaveSet /\ v.at = "rescan" /\ v.version = save[s].version
      /\ v.issue = save[s].issue
      /\ v.seen = save[s].seen /\ v.part = save[s].part /\ v.clean = save[s].clean
  BY <1>0, <1>v, MovedFields DEF SaveSteps
<1>5. save' = [save EXCEPT ![s] = v]
  BY <1>g, <1>v DEF Rep!At, Rep!Go
<1>6. Fit(s, v, dreams)
  BY <1>0, <1>g, <1>4 DEF Fit, Pages, PartOf
<1>7. CASE /\ dreams' = [dreams EXCEPT ![save[s].issue].comments = @ \cup {Rep!Part(s)}]
           /\ UNCHANGED late
  <2>e. PICK e : e = [dreams[j] EXCEPT !.comments = @ \cup {x}]
    OBVIOUS
  <2>1. /\ e \in DreamSet /\ e.comments = dreams[j].comments \cup {x} /\ e.stamp = dreams[j].stamp
        /\ e.open = dreams[j].open /\ e.run = dreams[j].run
    BY <1>2, <1>3, <2>e DEF DreamSet
  <2>u. PICK u : u = [dreams EXCEPT ![j] = e]
    OBVIOUS
  <2>2. dreams' = u
    BY <1>7, <1>j, <1>x, <2>e, <2>u
  <2>3. Gains(dreams, u) /\ \A but : Rep!Dreams(but)' = Rep!Dreams(but)
    BY <1>0, <1>1, <2>1, <2>2, <2>u, SameDreams, ZenonT(60)
  <2>4. RepTyped' /\ Fits' /\ AllLeft'
    BY <1>0, <1>g, <1>4, <1>5, <1>6, <1>7, <2>2, <2>3, FitGains, SaveKept
  <2>5. \A q \in Dreamers : save'[q].at \in Making => save'[q].at = save[q].at
    BY <1>0, <1>4, <1>5 DEF Making
  <2>6. Lone'
    BY <1>g, <1>7, <2>3, <2>5, LoneStays DEF RepInv
  <2> QED
    BY <2>4, <2>6 DEF RepInv
<1>8. CASE /\ UNCHANGED dreams
           /\ late' \in {late, late \cup
                {[is |-> "part", of |-> [issue |-> save[s].issue, part |-> Rep!Part(s)]]}}
  <2>r. PICK r : r = [is |-> "part", of |-> [issue |-> j, part |-> x]]
    OBVIOUS
  <2>1. r \in LateSet /\ r.is # "issue" /\ r.of.issue \in 1..Len(dreams)
    BY <1>1, <1>2, <1>3, <2>r DEF LateSet
  <2>2. late' \subseteq late \cup {r}
    BY <1>8, <1>j, <1>x, <2>r
  <2> QED
    BY <1>0, <1>g, <1>4, <1>5, <1>6, <1>8, <2>1, <2>2, QuietStep DEF Making
<1> QED
  BY <1>7, <1>8 DEF Rep!Post

LEMMA StampKept ==
    ASSUME Parts \in Nat, RepInv, NEW s \in Dreamers, Rep!Stamp(s)
    PROVE  RepInv'
<1>0. save \in [Dreamers -> SaveSet] /\ save[s] \in SaveSet /\ Fit(s, save[s], dreams)
      /\ dreams \in Seq(DreamSet) /\ report \in [Dreamers -> Nat]
  BY DEF RepInv, RepTyped, Fits
<1>g. /\ save[s].at = "stamp" /\ UNCHANGED <<report, late, crowded>> /\ Rep!Fail(s)
      /\ dreams' = [dreams EXCEPT ![save[s].issue].stamp = TRUE]
      /\ whole' = IF ~save[s].clean THEN whole
                  ELSE whole \cup
                    {[run |-> s, version |-> save[s].version, issue |-> save[s].issue]}
  BY DEF Rep!Stamp, Rep!Still
<1>j. PICK j : j = save[s].issue
  OBVIOUS
<1>1. j \in 1..Len(dreams)
  BY <1>0, <1>g, <1>j DEF Fit
<1>2. dreams[j] \in DreamSet
  BY <1>0, <1>1
<1>e. PICK e : e = [dreams[j] EXCEPT !.stamp = TRUE]
  OBVIOUS
<1>3. /\ e \in DreamSet /\ e.comments = dreams[j].comments /\ e.stamp /\ e.stamp = TRUE
      /\ (dreams[j].stamp => e.stamp) /\ dreams[j].comments \subseteq e.comments
      /\ e.open = dreams[j].open /\ e.run = dreams[j].run
  BY <1>2, <1>e DEF DreamSet
<1>u. PICK u : u = [dreams EXCEPT ![j] = e]
  OBVIOUS
<1>4. dreams' = u
  BY <1>g, <1>j, <1>e, <1>u
<1>5. Gains(dreams, u) /\ u[j] = e /\ \A but : Rep!Dreams(but)' = Rep!Dreams(but)
  BY <1>0, <1>1, <1>3, <1>4, <1>u, SameDreams, ZenonT(60)
<1>6. Rep!NoSave \in SaveSet /\ Rep!NoSave.at = "idle" /\ Fit(s, Rep!NoSave, u)
  BY <1>5, NoSaveFits DEF Gains
<1>7. save' = [save EXCEPT ![s] = Rep!NoSave]
  BY <1>g DEF Rep!Fail, Rep!Go
<1>8. ASSUME save[s].clean, NEW w,
             w = [run |-> s, version |-> save[s].version, issue |-> save[s].issue]
      PROVE  Left(w, u)
  <2>1. w.run = s /\ w.version = save[s].version /\ w.issue = j
    BY <1>8, <1>j
  <2>2. \A k \in 1..Parts :
          [run |-> s, index |-> k, version |-> save[s].version] \in u[j].comments
    BY <1>0, <1>g, <1>8, <1>j, <1>3, <1>5 DEF Fit, PartOf
  <2>3. j \in 1..Len(u) /\ u[j].stamp
    BY <1>1, <1>3, <1>5 DEF Gains
  <2> QED
    BY <2>1, <2>2, <2>3 DEF Left
<1>9. \A w \in whole' : w \in whole \/ Left(w, u)
  BY <1>g, <1>8
<1>10. RepTyped' /\ Fits' /\ AllLeft'
  BY <1>0, <1>g, <1>4, <1>5, <1>6, <1>7, <1>9, SaveKept
<1>11. \A q \in Dreamers : save'[q].at \in Making => save'[q].at = save[q].at
  BY <1>0, <1>6, <1>7 DEF Making
<1>12. Lone'
  BY <1>g, <1>5, <1>11, LoneStays DEF RepInv
<1> QED
  BY <1>10, <1>12 DEF RepInv

LEMMA LandsLateKept ==
    ASSUME RepInv, Rep!LandsLate
    PROVE  RepInv'
<1>0. save \in [Dreamers -> SaveSet] /\ dreams \in Seq(DreamSet) /\ report \in [Dreamers -> Nat]
      /\ late \subseteq LateSet
  BY DEF RepInv, RepTyped
<1>r. PICK r \in late : /\ late' = late \ {r}
                        /\ dreams' = IF r.is = "issue" THEN Append(dreams, r.of)
                                     ELSE [dreams EXCEPT ![r.of.issue].comments =
                                                              @ \cup {r.of.part}]
  BY DEF Rep!LandsLate
<1>g. UNCHANGED <<report, save, whole, crowded>>
  BY DEF Rep!LandsLate, Rep!Ghosts
<1>k. ASSUME NEW u, dreams' = u, Gains(dreams, u) PROVE RepTyped' /\ Fits' /\ AllLeft'
  <2>1. u \in Seq(DreamSet) /\ 1..Len(dreams) \subseteq 1..Len(u)
    BY <1>k DEF Gains
  <2>2. \A q \in late' :
          q \in LateSet /\ IF q.is = "issue" THEN q.of.open ELSE q.of.issue \in 1..Len(u)
    BY <1>r, <2>1 DEF RepInv, RepTyped
  <2>3. RepTyped'
    BY <1>0, <1>g, <1>k, <2>1, <2>2 DEF RepTyped
  <2>4. \A q \in Dreamers : Fit(q, save[q], u)
    BY <1>0, <1>k, FitGains DEF RepInv, Fits
  <2>5. \A w \in whole : Left(w, u)
    BY <1>k, LeftGains DEF RepInv, AllLeft
  <2> QED
    BY <1>g, <1>k, <2>3, <2>4, <2>5 DEF Fits, AllLeft
<1>1. CASE r.is = "issue"
  <2>1. r.of \in DreamSet
    BY <1>0, <1>1 DEF LateSet
  <2>u. PICK u : u = Append(dreams, r.of)
    OBVIOUS
  <2>2. dreams' = u /\ Gains(dreams, u)
    BY <1>0, <1>r, <1>1, <2>1, <2>u, GainsAtEnd
  <2>3. ~ crowded => /\ Rep!Dreams({}) = {} /\ \A q \in Dreamers : save[q].at \notin Making
                     /\ \A q \in late : q.is = "issue" => q = r
    BY <1>1 DEF RepInv, Lone
  <2>4. Lone'
    BY <1>g, <1>r, <2>1, <2>u, <2>2, <2>3, FirstDream
  <2> QED
    BY <1>k, <2>2, <2>4 DEF RepInv
<1>2. CASE r.is # "issue"
  <2>j. PICK j : j = r.of.issue
    OBVIOUS
  <2>x. PICK x : x = r.of.part
    OBVIOUS
  <2>1. j \in 1..Len(dreams) /\ x \in PartSet
    <3>1. r.of \in [issue : Nat, part : PartSet]
      BY <1>0, <1>2 DEF LateSet
    <3> QED
      BY <1>2, <2>j, <2>x, <3>1 DEF RepInv, RepTyped
  <2>2. dreams[j] \in DreamSet
    BY <1>0, <2>1
  <2>e. PICK e : e = [dreams[j] EXCEPT !.comments = @ \cup {x}]
    OBVIOUS
  <2>3. /\ e \in DreamSet /\ e.comments = dreams[j].comments \cup {x} /\ e.stamp = dreams[j].stamp
        /\ e.open = dreams[j].open /\ e.run = dreams[j].run
    BY <2>1, <2>2, <2>e DEF DreamSet
  <2>u. PICK u : u = [dreams EXCEPT ![j] = e]
    OBVIOUS
  <2>4. dreams' = u
    BY <1>r, <1>2, <2>j, <2>x, <2>e, <2>u
  <2>5. Gains(dreams, u) /\ \A but : Rep!Dreams(but)' = Rep!Dreams(but)
    BY <1>0, <2>1, <2>3, <2>4, <2>u, SameDreams, ZenonT(60)
  <2>6. Lone'
    BY <1>g, <1>r, <2>5, LoneStays DEF RepInv
  <2> QED
    BY <1>k, <2>4, <2>5, <2>6 DEF RepInv
<1> QED
  BY <1>1, <1>2

LEMMA TamperKept ==
    ASSUME Parts \in Nat, RepInv, Rep!Tamper
    PROVE  RepInv'
<1>0. save \in [Dreamers -> SaveSet] /\ dreams \in Seq(DreamSet) /\ report \in [Dreamers -> Nat]
  BY DEF RepInv, RepTyped
<1>g. /\ whole' = {} /\ UNCHANGED <<report, late, crowded>>
      /\ save' = [s \in Dreamers |-> [save[s] EXCEPT !.clean = FALSE]]
  BY DEF Rep!Tamper
<1>1. \E i \in 1..Len(dreams) : \E e \in DreamSet :
        /\ dreams' = [dreams EXCEPT ![i] = e]
        /\ (e.open => dreams[i].open) /\ e.run = dreams[i].run
  <2>1. PICK i \in 1..Len(dreams) :
          \/ dreams' = [dreams EXCEPT ![i].open = FALSE]
          \/ \E c \in dreams[i].comments : \E v \in {0, 9} :
               dreams' = [dreams EXCEPT ![i].comments = (@ \ {c}) \cup
                            {e \in {[c EXCEPT !.version = 0]} : v = 0}]
    BY DEF Rep!Tamper
  <2>2. dreams[i] \in DreamSet
    BY <1>0
  <2>3. CASE dreams' = [dreams EXCEPT ![i].open = FALSE]
    <3>1. PICK e : e = [dreams[i] EXCEPT !.open = FALSE]
      OBVIOUS
    <3>2. e \in DreamSet /\ (e.open => dreams[i].open) /\ e.run = dreams[i].run
      BY <2>2, <3>1 DEF DreamSet
    <3>3. dreams' = [dreams EXCEPT ![i] = e]
      BY <2>3, <3>1
    <3> QED
      BY <3>2, <3>3
  <2>4. ASSUME NEW c \in dreams[i].comments, NEW v \in {0, 9},
               dreams' = [dreams EXCEPT ![i].comments = (@ \ {c}) \cup
                            {e \in {[c EXCEPT !.version = 0]} : v = 0}]
        PROVE  \E e \in DreamSet : /\ dreams' = [dreams EXCEPT ![i] = e]
                                   /\ (e.open => dreams[i].open) /\ e.run = dreams[i].run
    <3>1. PICK d : d = [c EXCEPT !.version = 0]
      OBVIOUS
    <3>2. c \in PartSet
      BY <2>2 DEF DreamSet
    <3>3. d \in PartSet
      BY <3>1, <3>2 DEF PartSet
    <3>4. PICK cs : cs = (dreams[i].comments \ {c}) \cup {e \in {d} : v = 0}
      OBVIOUS
    <3>5. cs \subseteq PartSet
      BY <2>2, <3>3, <3>4 DEF DreamSet
    <3>6. PICK e : e = [dreams[i] EXCEPT !.comments = cs]
      OBVIOUS
    <3>7. e \in DreamSet /\ e.open = dreams[i].open /\ e.run = dreams[i].run
      BY <2>2, <3>5, <3>6 DEF DreamSet
    <3>8. dreams' = [dreams EXCEPT ![i] = e]
      BY <2>4, <3>1, <3>4, <3>6
    <3> QED
      BY <3>7, <3>8
  <2> QED
    BY <2>1, <2>3, <2>4
<1>2. PICK i \in 1..Len(dreams), e \in DreamSet :
        /\ dreams' = [dreams EXCEPT ![i] = e]
        /\ (e.open => dreams[i].open) /\ e.run = dreams[i].run
  BY <1>1
<1>u. PICK u : u = [dreams EXCEPT ![i] = e]
  OBVIOUS
<1>3. u \in Seq(DreamSet) /\ Len(u) = Len(dreams) /\ u[i] = e
      /\ \A m \in 1..Len(dreams) : m # i => u[m] = dreams[m]
  BY <1>0, <1>u
<1>4. dreams' = u
  BY <1>2, <1>u
<1>5. \A m \in 1..Len(dreams) : (u[m].open => dreams[m].open) /\ u[m].run = dreams[m].run
  BY <1>2, <1>3
<1>6. ASSUME NEW but PROVE Rep!Dreams(but)' \subseteq Rep!Dreams(but)
  BY <1>3, <1>4, <1>5 DEF Rep!Dreams
<1>7. ASSUME NEW q \in Dreamers
      PROVE  save'[q] \in SaveSet /\ save'[q].at = save[q].at /\ Fit(q, save'[q], u)
  <2>1. PICK v : v = [save[q] EXCEPT !.clean = FALSE]
    OBVIOUS
  <2>2. save[q] \in SaveSet /\ Fit(q, save[q], dreams)
    BY <1>0 DEF RepInv, Fits
  <2>3. /\ v \in SaveSet /\ v.at = save[q].at /\ v.issue = save[q].issue /\ v.part = save[q].part
        /\ v.clean = FALSE
    BY <2>1, <2>2 DEF SaveSet
  <2>4. Fit(q, v, u)
    BY <1>3, <2>2, <2>3 DEF Fit
  <2>5. save'[q] = v
    BY <1>g, <2>1
  <2> QED
    BY <2>3, <2>4, <2>5
<1>8. save' \in [Dreamers -> SaveSet]
  <2>1. save' = [q \in Dreamers |-> save'[q]]
    BY <1>g
  <2> QED
    BY <1>7, <2>1
<1>9. RepTyped'
  BY <1>0, <1>g, <1>3, <1>4, <1>8 DEF RepInv, RepTyped
<1>10. Fits'
  BY <1>4, <1>7 DEF Fits
<1>11. AllLeft'
  BY <1>g DEF AllLeft
<1>12. Lone'
  BY <1>g, <1>6, <1>7, LoneStays DEF RepInv
<1> QED
  BY <1>9, <1>10, <1>11, <1>12 DEF RepInv

LEMMA ReportStarts ==
    ASSUME Parts \in Nat, Rep!Init
    PROVE  RepInv
<1>1. Rep!NoSave \in SaveSet /\ Rep!NoSave.at = "idle" /\ <<>> \in Seq(DreamSet)
  BY NoSaveFits DEF Rep!NoSave, SaveSet, SaveSteps
<1>2. dreams = <<>> /\ save = [s \in Dreamers |-> Rep!NoSave] /\ report = [s \in Dreamers |-> 0]
      /\ late = {} /\ whole = {}
  BY DEF Rep!Init
<1>3. \A s \in Dreamers : Fit(s, Rep!NoSave, dreams)
  BY <1>1, <1>2, NoSaveFits
<1>4. RepTyped /\ Fits /\ AllLeft
  BY <1>1, <1>2, <1>3 DEF RepTyped, Fits, AllLeft
<1>5. Rep!Dreams({}) = {}
  BY <1>2 DEF Rep!Dreams
<1>6. Lone
  BY <1>1, <1>2, <1>5 DEF Lone, Making
<1> QED
  BY <1>4, <1>6 DEF RepInv

LEMMA ReportSteps ==
    ASSUME Parts \in Nat, RepInv, [Rep!Next]_Rep!vars
    PROVE  RepInv'
<1>1. CASE Rep!LandsLate
  BY <1>1, LandsLateKept
<1>2. CASE Rep!Tamper
  BY <1>2, TamperKept
<1>3. ASSUME NEW s \in Dreamers, Rep!Step(s) PROVE RepInv'
  BY <1>3, DoorKept, GuardKept, FindKept, CreateKept, PostBodyKept, ReadingKept, PostKept,
     StampKept
     DEF Rep!Step
<1>4. CASE UNCHANGED Rep!vars
  BY <1>4 DEF Rep!vars, RepInv, RepTyped, Fits, AllLeft, Lone, Rep!Dreams
<1> QED
  BY <1>1, <1>2, <1>3, <1>4 DEF Rep!Next

\* The invariant of the saves of a learn-dream report: what each save has put on its objective so
\* far, and how many dreams are open, in creation or still to land (dream_companion.py,
\* persist_parts; create_cmd.py, create_objective).
LEMMA ReportInvariance == ASSUME Parts \in Nat PROVE Rep!Spec => []RepInv
<1>1. Rep!Init => RepInv
  BY ReportStarts
<1>2. RepInv /\ [Rep!Next]_Rep!vars => RepInv'
  BY ReportSteps
<1> QED
  BY <1>1, <1>2, PTL DEF Rep!Spec

\* However many runs of learn-dream save, repeat and lose answers, one objective of their origin
\* is open, unless two creations were under way together (create_cmd.py, create_objective;
\* objectives.py, find_objective_issue_by_origin).
THEOREM OneDreamOpen == ASSUME Parts \in Nat PROVE Rep!Spec => []Rep!OneDream
<1>1. RepInv => Rep!OneDream
  BY DEF RepInv, Lone, Rep!OneDream
<1> QED
  BY <1>1, ReportInvariance, PTL

\* However many parts a report has, a save that succeeded left every one of them, in one version,
\* on the objective, and the header names it: lost answers, late requests and repeated saves
\* of other versions change nothing of it (dream_companion.py, persist_parts).
THEOREM ReportsAreWhole == ASSUME Parts \in Nat PROVE Rep!Spec => []Rep!ReportIsWhole
<1>1. RepInv => Rep!ReportIsWhole
  BY DEF RepInv, AllLeft, Left, Rep!ReportIsWhole
<1> QED
  BY <1>1, ReportInvariance, PTL

\* A save is at a part of the report and at an objective of the tracker (dream_companion.py).
THEOREM ReportTypeCorrect == ASSUME Parts \in Nat PROVE Rep!Spec => []Rep!TypeOK
<1>1. RepInv => Rep!TypeOK
  BY DEF RepInv, Fits, Fit, Rep!TypeOK
<1> QED
  BY <1>1, ReportInvariance, PTL

-----------------------------------------------------------------------------
(* The refinements of nodes, kept as comments.                             *)

CONSTANTS Refiners, MaxContexts, MaxComments, MaxUpsets
VARIABLES node, comments, delayed, context, draft, work, told, standing, surprised, used

Ref == INSTANCE Refinement WITH Sessions <- Refiners, late <- delayed, MaxEvents <- MaxUpsets

DocSet == [node : Nodes, src : Nat, by : Refiners, no : Nat]
Remarks == [defect : {"none", "quoted", "repeated", "damaged"}, doc : DocSet]
           \cup [defect : {"stray", "gone"}, doc : {Ref!NoDoc}]
EntrySet == [id : Nat, doc : DocSet \cup {Ref!NoDoc}]
FileSet == [no : Nat, node : Nodes \cup {0}, src : Nat, expected : EntrySet]
NodeSet == [src : Nat, open : BOOLEAN, carriers : Nat]
Saving == {"target", "discover", "scan", "write", "verify"}
WorkSet == [at : {"idle", "select"} \cup Saving, no : Nat, doc : DocSet \cup {Ref!NoDoc},
            expected : EntrySet, seen : EntrySet, raised : BOOLEAN,
            snap : [Nodes -> NodeSet] \cup {<<>>}]
ReqSet == [id : Nat, doc : DocSet, seen : DocSet \cup {Ref!NoDoc}, by : Refiners]

RefTyped ==
  /\ node \in [Nodes -> NodeSet] /\ comments \in Seq(Remarks) /\ delayed \subseteq ReqSet
  /\ context \in [Refiners -> FileSet] /\ draft \in [Refiners -> FileSet]
  /\ work \in [Refiners -> WorkSet]
  /\ \A s \in Refiners : /\ context[s].no # 0 => context[s].node \in Nodes
                         /\ work[s].at \in Saving => work[s].doc \in DocSet
                         /\ work[s].at = "select" => work[s].snap \in [Nodes -> NodeSet]

\* A draft of the present context is what the context says; a save expects what its draft does.
Bound == \A s \in Refiners : /\ draft[s].no <= context[s].no
                             /\ draft[s].no = context[s].no => draft[s] = context[s]
Pledged == \A s \in Refiners :
  /\ work[s].at \in Saving => work[s].expected = draft[s].expected
  /\ work[s].at = "write" => work[s].seen.doc = draft[s].expected.doc

\* A write on its way names no comment, or one of its node that may have been broken since; two
\* that name one comment are of one node.
Mine(t, id, n) == id = 0 \/ (id \in 1..Len(t) /\ t[id].doc.node \in {n, 0})
Aims == {<<r.id, r.doc.node>> : r \in delayed}
        \cup {<<work[s].seen.id, work[s].doc.node>> :
               s \in {q \in Refiners : work[q].at = "write"}}
Aimed == /\ \A a \in Aims : Mine(comments, a[1], a[2])
         /\ \A a, b \in Aims : a[1] = b[1] /\ a[1] # 0 => a[2] = b[2]

\* Two records of one node were told, or the session that wrote second is about to look.
Double(t, n) == Ref!Several({i \in Ref!Of(t, n) : t[i].defect = "none"})
Watched == ~surprised => \A n \in Nodes : Double(comments, n) =>
             n \in told \/ \E s \in Refiners : work[s].at = "verify" /\ work[s].doc.node = n

\* What was saved stands alone, or some node has two records.
Good(t, n) == Ref!Owned(t, n) # {} /\ ~Ref!Unowned(t, n) /\ Ref!Decodes(t, n)
Stands == /\ standing \subseteq Nodes
          /\ (\E m \in Nodes : Double(comments, m)) \/ \A n \in standing : Good(comments, n)

RefInv == RefTyped /\ Bound /\ Pledged /\ Aimed /\ Watched /\ Stands
\* A body of document d lands as comment k.
LandedAt(t, u, k, d) ==
  /\ u \in Seq(Remarks) /\ 1..Len(t) \subseteq 1..Len(u) /\ k \in 1..Len(u) /\ u[k] = Ref!Body(d)
  /\ \A i \in 1..Len(u) : i # k => i \in 1..Len(t) /\ u[i] = t[i]
  /\ k \in 1..Len(t) => t[k].doc.node \in {d.node, 0}

LEMMA LandsAtEnd ==
    ASSUME NEW t \in Seq(Remarks), NEW d \in DocSet
    PROVE  LandedAt(t, Append(t, Ref!Body(d)), Len(t) + 1, d) /\ Len(t) + 1 \notin 1..Len(t)
<1>1. PICK c : c = Ref!Body(d)
  OBVIOUS
<1>2. c \in Remarks
  BY <1>1 DEF Ref!Body, Remarks
<1>3. PICK u : u = Append(t, c)
  OBVIOUS
<1>4. u \in Seq(Remarks) /\ Len(u) = Len(t) + 1 /\ u[Len(t) + 1] = c /\ Len(t) \in Nat
  BY <1>2, <1>3
<1>5. \A i \in 1..Len(t) : u[i] = t[i]
  BY <1>2, <1>3
<1>6. LandedAt(t, u, Len(t) + 1, d) /\ Len(t) + 1 \notin 1..Len(t)
  BY <1>1, <1>4, <1>5 DEF LandedAt
<1> QED
  BY <1>1, <1>3, <1>6

LEMMA LandsWithin ==
    ASSUME NEW t \in Seq(Remarks), NEW d \in DocSet, NEW k \in 1..Len(t),
           t[k].doc.node \in {d.node, 0}
    PROVE  LandedAt(t, [t EXCEPT ![k] = Ref!Body(d)], k, d)
<1>1. PICK c : c = Ref!Body(d)
  OBVIOUS
<1>2. c \in Remarks
  BY <1>1 DEF Ref!Body, Remarks
<1>3. PICK u : u = [t EXCEPT ![k] = c]
  OBVIOUS
<1>4. u \in Seq(Remarks) /\ Len(u) = Len(t) /\ u[k] = c
  BY <1>2, <1>3
<1>5. \A i \in 1..Len(t) : i # k => u[i] = t[i]
  BY <1>2, <1>3
<1>6. LandedAt(t, u, k, d)
  BY <1>1, <1>4, <1>5 DEF LandedAt
<1> QED
  BY <1>1, <1>3, <1>6

LEMMA DoubleIs ==
    ASSUME NEW t, NEW n
    PROVE  Double(t, n) <=>
             \E i, j \in 1..Len(t) : /\ i # j /\ t[i].doc.node = n /\ t[j].doc.node = n
                                     /\ t[i].defect = "none" /\ t[j].defect = "none"
  BY DEF Double, Ref!Several, Ref!Of

LEMMA GoodIs ==
    ASSUME NEW t \in Seq(Remarks), NEW n
    PROVE  Good(t, n) <=>
             \E o \in 1..Len(t) : /\ t[o].doc.node = n /\ t[o].defect = "none"
                                  /\ \A i \in 1..Len(t) : t[i].doc.node = n /\ i # o =>
                                     t[i].defect \notin {"none", "quoted", "repeated", "damaged"}
  BY DEF Good, Ref!Unowned, Ref!Several, Ref!Owned, Ref!Malformed, Ref!Decodes, Ref!Of

LEMMA LandedDouble ==
    ASSUME 0 \notin Nodes, NEW t, NEW u, NEW k, NEW d \in DocSet, LandedAt(t, u, k, d),
           NEW m \in Nodes
    PROVE  /\ Double(u, m) => Double(t, m) \/ m = d.node
           /\ Double(t, m) => Double(u, m)
<1>1. u[k].doc.node = d.node /\ u[k].defect = "none"
  BY DEF LandedAt, Ref!Body
<1>2. Double(u, m) /\ m # d.node => Double(t, m)
  BY <1>1, DoubleIs DEF LandedAt
<1>3. ASSUME Double(t, m) PROVE Double(u, m)
  <2>1. PICK i \in 1..Len(t), j \in 1..Len(t) :
          /\ i # j /\ t[i].doc.node = m /\ t[j].doc.node = m
          /\ t[i].defect = "none" /\ t[j].defect = "none"
    BY <1>3, DoubleIs
  <2>2. ASSUME NEW x \in {i, j} PROVE x \in 1..Len(u) /\ u[x].doc.node = m /\ u[x].defect = "none"
    BY <1>1, <2>1, <2>2 DEF LandedAt
  <2> QED
    BY <2>1, <2>2, DoubleIs
<1> QED
  BY <1>2, <1>3

LEMMA LandedGood ==
    ASSUME 0 \notin Nodes, NEW t \in Seq(Remarks), NEW u, NEW k, NEW d \in DocSet,
           LandedAt(t, u, k, d), NEW m \in Nodes, Good(t, m)
    PROVE  Good(u, m) \/ Double(u, m)
<1>0. u \in Seq(Remarks) /\ u[k].doc.node = d.node /\ u[k].defect = "none"
  BY DEF LandedAt, Ref!Body
<1>1. PICK o \in 1..Len(t) :
        /\ t[o].doc.node = m /\ t[o].defect = "none"
        /\ \A i \in 1..Len(t) : t[i].doc.node = m /\ i # o =>
             t[i].defect \notin {"none", "quoted", "repeated", "damaged"}
  BY GoodIs
<1>2. CASE o = k
  <2>1. u[o].doc.node = m /\ u[o].defect = "none" /\ o \in 1..Len(u)
    BY <1>0, <1>1, <1>2 DEF LandedAt
  <2>2. \A i \in 1..Len(u) : u[i].doc.node = m /\ i # o =>
          u[i].defect \notin {"none", "quoted", "repeated", "damaged"}
    BY <1>1, <1>2 DEF LandedAt
  <2> QED
    BY <1>0, <2>1, <2>2, GoodIs
<1>3. CASE o # k /\ m = d.node
  <2>1. u[o].doc.node = m /\ u[o].defect = "none" /\ o \in 1..Len(u) /\ k \in 1..Len(u)
    BY <1>1, <1>3 DEF LandedAt
  <2> QED
    BY <1>0, <1>3, <2>1, DoubleIs
<1>4. CASE o # k /\ m # d.node
  <2>1. u[o].doc.node = m /\ u[o].defect = "none" /\ o \in 1..Len(u)
    BY <1>1, <1>4 DEF LandedAt
  <2>2. \A i \in 1..Len(u) : u[i].doc.node = m /\ i # o =>
          u[i].defect \notin {"none", "quoted", "repeated", "damaged"}
    BY <1>0, <1>1, <1>4 DEF LandedAt
  <2> QED
    BY <1>0, <2>1, <2>2, GoodIs
<1> QED
  BY <1>2, <1>3, <1>4

LEMMA LandedMine ==
    ASSUME NEW t, NEW u, NEW k, NEW d \in DocSet, LandedAt(t, u, k, d), NEW id, NEW n,
           Mine(t, id, n), id = k /\ k \in 1..Len(t) => n = d.node
    PROVE  Mine(u, id, n)
<1>1. u[k].doc.node = d.node
  BY DEF LandedAt, Ref!Body
<1> QED
  BY <1>1 DEF LandedAt, Mine

\* What a reader finds for a node.
LEMMA ObservedIs ==
    ASSUME NEW t \in Seq(Remarks), NEW n, NEW o, o = Ref!Observed(t, n)
    PROVE  /\ o.id \in Nat /\ o.doc \in DocSet \cup {Ref!NoDoc}
           /\ \/ Ref!Owned(t, n) = {} /\ o.id = 0 /\ o.doc = Ref!NoDoc
              \/ /\ o.id \in Ref!Owned(t, n) /\ o.id \in 1..Len(t) /\ t[o.id].doc.node = n
                 /\ o.doc = t[o.id].doc /\ (o.whole <=> t[o.id].defect = "none")
<1>1. CASE Ref!Owned(t, n) = {}
  BY <1>1 DEF Ref!Observed
<1>2. CASE Ref!Owned(t, n) # {}
  <2>1. PICK i : i = CHOOSE j \in Ref!Owned(t, n) : TRUE
    OBVIOUS
  <2>2. i \in Ref!Owned(t, n)
    BY <1>2, <2>1
  <2>3. i \in 1..Len(t) /\ t[i].doc.node = n /\ i \in Nat
    BY <2>2 DEF Ref!Owned, Ref!Of
  <2>4. o = [id |-> i, doc |-> t[i].doc, whole |-> t[i].defect = "none"]
    BY <1>2, <2>1 DEF Ref!Observed, Ref!Entry
  <2>5. t[i].doc \in DocSet \cup {Ref!NoDoc}
    BY <2>3 DEF Remarks
  <2>6. o.id = i /\ o.doc = t[i].doc /\ o.whole = (t[i].defect = "none")
    BY <2>4
  <2>7. o.id \in Nat /\ o.id \in Ref!Owned(t, n) /\ o.id \in 1..Len(t) /\ t[o.id].doc.node = n
    BY <2>2, <2>3, <2>6
  <2> QED
    BY <2>5, <2>6, <2>7, Zenon
<1> QED
  BY <1>1, <1>2

LEMMA SavedIsGood ==
    ASSUME 0 \notin Nodes, NEW t \in Seq(Remarks), NEW n \in Nodes, NEW d \in DocSet,
           ~Ref!Unowned(t, n), Ref!Observed(t, n).whole, Ref!Observed(t, n).doc = d
    PROVE  Good(t, n)
<1>1. PICK o : o = Ref!Observed(t, n)
  OBVIOUS
<1>2. d # Ref!NoDoc
  BY DEF DocSet, Ref!NoDoc
<1>3. o.id \in Ref!Owned(t, n) /\ t[o.id].defect = "none"
  BY <1>1, <1>2, ObservedIs
<1>4. \A i \in Ref!Owned(t, n) : i = o.id
  BY <1>3 DEF Ref!Unowned, Ref!Several
<1> QED
  BY <1>3, <1>4 DEF Good, Ref!Decodes

\* A step of session s that leaves the comments alone and asks for nothing new but what it has
\* just seen.
LEMMA RefinerStep ==
    ASSUME 0 \notin Nodes, RefInv, NEW s \in Refiners, NEW v \in WorkSet,
           work' = [work EXCEPT ![s] = v], UNCHANGED <<node, comments, delayed, surprised>>,
           context' \in [Refiners -> FileSet], draft' \in [Refiners -> FileSet], Bound',
           \A q \in Refiners : context'[q].no # 0 => context'[q].node \in Nodes,
           \A q \in Refiners \ {s} : draft'[q] = draft[q],
           v.at \in Saving => v.doc \in DocSet /\ v.expected = draft'[s].expected,
           v.at = "select" => v.snap \in [Nodes -> NodeSet],
           v.at = "write" => /\ v.seen.doc = draft'[s].expected.doc
                             /\ Mine(comments, v.seen.id, v.doc.node)
                             /\ \A a \in Aims : a[1] = v.seen.id /\ a[1] # 0 => a[2] = v.doc.node,
           told \subseteq told',
           work[s].at = "verify" /\ Double(comments, work[s].doc.node)
             => work[s].doc.node \in told',
           \A n \in standing' : n \in standing \/ (n \in Nodes /\ Good(comments, n))
    PROVE  RefInv'
<1>0. /\ work \in [Refiners -> WorkSet] /\ work'[s] = v
      /\ \A q \in Refiners \ {s} : work'[q] = work[q]
  BY DEF RefInv, RefTyped
<1>1. RefTyped'
  <2>1. work' \in [Refiners -> WorkSet]
    BY <1>0
  <2>2. \A q \in Refiners : /\ work'[q].at \in Saving => work'[q].doc \in DocSet
                            /\ work'[q].at = "select" => work'[q].snap \in [Nodes -> NodeSet]
    BY <1>0 DEF RefInv, RefTyped
  <2> QED
    BY <2>1, <2>2 DEF RefInv, RefTyped
<1>2. Pledged'
  BY <1>0 DEF RefInv, Pledged
<1>3. Aimed'
  <2>1. Aims' \subseteq Aims \cup (IF v.at = "write" THEN {<<v.seen.id, v.doc.node>>} ELSE {})
    BY <1>0 DEF Aims
  <2>2. ASSUME NEW a \in Aims' PROVE Mine(comments, a[1], a[2])
    BY <2>1, <2>2 DEF RefInv, Aimed
  <2>3. ASSUME NEW a \in Aims', NEW b \in Aims', a[1] = b[1], a[1] # 0 PROVE a[2] = b[2]
    BY <2>1, <2>3 DEF RefInv, Aimed
  <2> QED
    BY <2>2, <2>3 DEF Aimed
<1>4. Watched'
  <2> SUFFICES ASSUME ~ surprised, NEW n \in Nodes, Double(comments, n)
               PROVE  n \in told' \/ \E q \in Refiners :
                                        work'[q].at = "verify" /\ work'[q].doc.node = n
    BY DEF Watched
  <2>1. CASE n \in told
    BY <2>1
  <2>2. ASSUME NEW q \in Refiners, work[q].at = "verify", work[q].doc.node = n, n \notin told'
        PROVE  work'[q].at = "verify" /\ work'[q].doc.node = n
    BY <1>0, <2>2
  <2> QED
    BY <2>1, <2>2 DEF RefInv, Watched
<1>5. Stands'
  BY DEF RefInv, Stands
<1> QED
  BY <1>1, <1>2, <1>3, <1>4, <1>5 DEF RefInv

\* Where a step keeps the two files of every session.
LEMMA FilesStay ==
    ASSUME RefInv, UNCHANGED Ref!files
    PROVE  /\ context' \in [Refiners -> FileSet] /\ draft' \in [Refiners -> FileSet] /\ Bound'
           /\ \A q \in Refiners : context'[q].no # 0 => context'[q].node \in Nodes
           /\ \A q \in Refiners : draft'[q] = draft[q]
  BY DEF RefInv, RefTyped, Bound, Ref!files

LEMMA IdleWork == Ref!Idle \in WorkSet /\ Ref!Idle.at = "idle"
<1>1. Ref!NoDoc \in {Ref!NoDoc} /\ Ref!NoComment \in EntrySet
  BY DEF Ref!NoComment, EntrySet
<1> QED
  BY <1>1 DEF Ref!Idle, WorkSet

LEMMA EndKept ==
    ASSUME 0 \notin Nodes, RefInv, NEW s \in Refiners, NEW how,
           Ref!End(s, how), work[s].at \in Saving,
           UNCHANGED <<Ref!files, node, comments, delayed, surprised>>,
           how = "saved" => Good(comments, work[s].doc.node),
           work[s].at = "verify" /\ Double(comments, work[s].doc.node) =>
             how \in {"ambiguous", "unverified"}
    PROVE  RefInv'
<1>0. work[s].doc.node \in Nodes
  BY DEF RefInv, RefTyped, DocSet
<1>1. work' = [work EXCEPT ![s] = Ref!Idle]
  BY DEF Ref!End, Ref!Go
<1>2. told \subseteq told' /\ (how \in {"ambiguous", "unverified"} => work[s].doc.node \in told')
  BY DEF Ref!End
<1>3. \A n \in standing' : n \in standing \/ (n \in Nodes /\ Good(comments, n))
  BY <1>0 DEF Ref!End
<1> QED
  BY <1>1, <1>2, <1>3, IdleWork, FilesStay, RefinerStep DEF Saving, Ref!files

LEMMA WorkMoved ==
    ASSUME NEW r \in WorkSet, NEW at \in {"idle", "select"} \cup Saving
    PROVE  LET v == [r EXCEPT !.at = at] IN
           /\ v \in WorkSet /\ v.at = at /\ v.doc = r.doc /\ v.expected = r.expected
           /\ v.seen = r.seen /\ v.snap = r.snap
<1>1. PICK v : v = [r EXCEPT !.at = at]
  OBVIOUS
<1>2. /\ v \in WorkSet /\ v.at = at /\ v.doc = r.doc /\ v.expected = r.expected
      /\ v.seen = r.seen /\ v.snap = r.snap
  BY <1>1 DEF WorkSet
<1> QED
  BY <1>1, <1>2

LEMMA SnapshotKept ==
    ASSUME 0 \notin Nodes, RefInv, NEW s \in Refiners, Ref!Snapshot(s)
    PROVE  RefInv'
<1>1. PICK v : v = [Ref!Idle EXCEPT !.at = "select", !.snap = node]
  OBVIOUS
<1>2. node \in [Nodes -> NodeSet]
  BY DEF RefInv, RefTyped
<1>3. v \in WorkSet /\ v.at = "select" /\ v.snap = node
  BY <1>1, <1>2, IdleWork DEF WorkSet
<1>4. work' = [work EXCEPT ![s] = v] /\ work[s].at = "idle"
  BY <1>1 DEF Ref!Snapshot, Ref!Go
<1> QED
  BY <1>2, <1>3, <1>4, FilesStay, RefinerStep
  DEF Ref!Snapshot, Ref!Remote, Ref!Ghosts, Ref!files, Saving

LEMMA PrepareKept ==
    ASSUME 0 \notin Nodes, RefInv, NEW s \in Refiners, Ref!Prepare(s)
    PROVE  RefInv'
<1>0. /\ comments \in Seq(Remarks) /\ context \in [Refiners -> FileSet] /\ work[s] \in WorkSet
      /\ draft \in [Refiners -> FileSet]
  BY DEF RefInv, RefTyped
<1>1. work' = [work EXCEPT ![s] = Ref!Idle] /\ work[s].at = "select"
  BY DEF Ref!Prepare, Ref!Go
<1>2. context' \in [Refiners -> FileSet] /\ Bound'
      /\ \A q \in Refiners : context'[q].no # 0 => context'[q].node \in Nodes
  <2>1. CASE UNCHANGED context
    BY <2>1, FilesStay DEF Ref!Prepare, Ref!files
  <2>2. ASSUME NEW n \in Nodes,
               context' = [context EXCEPT ![s] =
                 [no |-> @.no + 1, node |-> n, src |-> work[s].snap[n].src,
                  expected |-> Ref!Found(comments, n)]]
        PROVE  /\ context' \in [Refiners -> FileSet] /\ Bound'
               /\ \A q \in Refiners : context'[q].no # 0 => context'[q].node \in Nodes
    <3>1. work[s].snap[n].src \in Nat
      BY <1>1 DEF RefInv, RefTyped, NodeSet
    <3>2. Ref!Found(comments, n) \in EntrySet
      <4>1. PICK o : o = Ref!Observed(comments, n)
        OBVIOUS
      <4>2. o.id \in Nat /\ o.doc \in DocSet \cup {Ref!NoDoc}
        BY <1>0, <4>1, ObservedIs
      <4> QED
        BY <4>1, <4>2 DEF Ref!Found, EntrySet
    <3>3. PICK m : m = context[s].no
      OBVIOUS
    <3>4. m \in Nat /\ m + 1 \in Nat /\ draft[s].no \in Nat /\ draft[s].no <= m
      BY <1>0, <3>3 DEF FileSet, RefInv, Bound
    <3>5. PICK c : c = [no |-> m + 1, node |-> n, src |-> work[s].snap[n].src,
                        expected |-> Ref!Found(comments, n)]
      OBVIOUS
    <3>6. c \in FileSet /\ c.no = m + 1 /\ c.node = n
      BY <3>1, <3>2, <3>4, <3>5 DEF FileSet
    <3>7. context' = [context EXCEPT ![s] = c]
      BY <2>2, <3>3, <3>5
    <3>8. context' \in [Refiners -> FileSet] /\ context'[s] = c
          /\ \A q \in Refiners \ {s} : context'[q] = context[q]
      BY <1>0, <3>6, <3>7
    <3>9. draft[s].no <= c.no /\ draft[s].no # c.no
      BY <3>4, <3>6
    <3>10. draft' = draft
      BY DEF Ref!Prepare
    <3>11. Bound'
      BY <3>8, <3>9, <3>10 DEF Bound, RefInv
    <3> QED
      BY <3>6, <3>8, <3>11 DEF RefInv, RefTyped
  <2> QED
    BY <2>1, <2>2 DEF Ref!Prepare
<1> QED
  BY <1>0, <1>1, <1>2, IdleWork, RefinerStep DEF Ref!Prepare, Ref!Remote, Ref!Ghosts, Saving

LEMMA WriteDraftKept ==
    ASSUME 0 \notin Nodes, RefInv, NEW s \in Refiners, Ref!WriteDraft(s)
    PROVE  RefInv'
<1>0. /\ context \in [Refiners -> FileSet] /\ work \in [Refiners -> WorkSet]
      /\ work[s] \in WorkSet
      /\ draft \in [Refiners -> FileSet]
  BY DEF RefInv, RefTyped
<1>1. work[s].at = "idle" /\ UNCHANGED work /\ draft' = [draft EXCEPT ![s] = context[s]]
      /\ UNCHANGED context
  BY DEF Ref!WriteDraft
<1>2. /\ draft' \in [Refiners -> FileSet] /\ draft'[s] = context[s]
      /\ \A q \in Refiners \ {s} : draft'[q] = draft[q]
  BY <1>0, <1>1
<1>3. context[s].no \in Nat
  BY <1>0 DEF FileSet
<1>4. Bound'
  BY <1>1, <1>2, <1>3 DEF RefInv, Bound
<1>5. work' = [work EXCEPT ![s] = work[s]]
  BY <1>0, <1>1
<1> QED
  BY <1>0, <1>1, <1>2, <1>4, <1>5, RefinerStep, ZenonT(60)
     DEF Ref!WriteDraft, Ref!Remote, Ref!Ghosts, Saving, RefInv, RefTyped

LEMMA SaveRefined ==
    ASSUME 0 \notin Nodes, RefInv, NEW s \in Refiners, Ref!Save(s)
    PROVE  RefInv'
<1>0. /\ context[s] \in FileSet /\ draft[s] \in FileSet /\ work[s].at = "idle"
      /\ draft[s] = context[s] /\ context[s].node \in Nodes
  BY DEF RefInv, RefTyped, Bound, Ref!Save, Ref!BoundDraft
<1>1. PICK d : d = [node |-> context[s].node, src |-> context[s].src, by |-> s,
                      no |-> draft[s].no]
  OBVIOUS
<1>2. d \in DocSet
  BY <1>0, <1>1 DEF DocSet, FileSet
<1>3. PICK v : v = [Ref!Idle EXCEPT !.at = "target", !.expected = context[s].expected,
                                    !.no = draft[s].no,
                                    !.doc = d]
  OBVIOUS
<1>4. draft[s].no \in Nat /\ context[s].expected \in EntrySet
  BY <1>0 DEF FileSet
<1>5. v \in WorkSet /\ v.at = "target" /\ v.doc = d /\ v.expected = context[s].expected
  BY <1>2, <1>3, <1>4, IdleWork DEF WorkSet, Saving
<1>6. work' = [work EXCEPT ![s] = v]
  BY <1>1, <1>3 DEF Ref!Save, Ref!Go
<1> QED
  BY <1>0, <1>2, <1>5, <1>6, FilesStay, RefinerStep
  DEF Ref!Save, Ref!Remote, Ref!Ghosts, Ref!files

LEMMA ToKept ==
    ASSUME 0 \notin Nodes, RefInv, NEW s \in Refiners, NEW at \in {"discover", "scan"},
           Ref!To(s, at),
           work[s].at \in {"target", "discover"},
           UNCHANGED <<Ref!files, node, comments, delayed, surprised, told, standing>>
    PROVE  RefInv'
<1>1. work[s] \in WorkSet /\ work[s].doc \in DocSet /\ work[s].expected = draft[s].expected
  BY DEF RefInv, RefTyped, Pledged, Saving
<1>2. PICK v : v = [work[s] EXCEPT !.at = at]
  OBVIOUS
<1>3. v \in WorkSet /\ v.at = at /\ v.doc = work[s].doc /\ v.expected = work[s].expected
  BY <1>1, <1>2, WorkMoved, ZenonT(60) DEF Saving
<1>4. work' = [work EXCEPT ![s] = v]
  BY <1>2 DEF Ref!To, Ref!Go
<1> QED
  BY <1>1, <1>3, <1>4, FilesStay, RefinerStep DEF Ref!files

LEMMA TargetKept ==
    ASSUME 0 \notin Nodes, RefInv, NEW s \in Refiners, Ref!Target(s) \/ Ref!Discover(s)
    PROVE  RefInv'
<1>1. CASE Ref!Target(s)
  <2>1. CASE Ref!To(s, "discover") /\ Ref!Proceed
    BY <1>1, <2>1, ToKept DEF Ref!Target, Ref!Proceed, Ref!Remote, Ref!files
  <2>2. CASE Ref!End(s, "refused")
    BY <1>1, <2>2, EndKept DEF Ref!Target, Ref!Remote, Saving, Ref!files
  <2> QED
    BY <1>1, <2>1, <2>2 DEF Ref!Target
<1>2. CASE Ref!Discover(s)
  <2>1. CASE Ref!To(s, "scan") /\ Ref!Proceed
    BY <1>2, <2>1, ToKept DEF Ref!Discover, Ref!Proceed, Ref!Remote, Ref!files
  <2>2. CASE Ref!End(s, Ref!Refusal(comments, work[s].doc.node))
    <3>1. Ref!Refusal(comments, work[s].doc.node) # "saved"
      BY DEF Ref!Refusal
    <3> QED
      BY <1>2, <2>2, <3>1, EndKept DEF Ref!Discover, Ref!Remote, Saving, Ref!files
  <2> QED
    BY <1>2, <2>1, <2>2 DEF Ref!Discover
<1> QED
  BY <1>1, <1>2

LEMMA ScanKept ==
    ASSUME 0 \notin Nodes, RefInv, NEW s \in Refiners, Ref!Scan(s)
    PROVE  RefInv'
<1>0. /\ work[s].at = "scan" /\ work[s].doc \in DocSet /\ work[s].doc.node \in Nodes
      /\ comments \in Seq(Remarks) /\ work[s] \in WorkSet /\ work[s].expected = draft[s].expected
  BY DEF Ref!Scan, RefInv, RefTyped, Saving, DocSet, Pledged
<1>g. UNCHANGED <<Ref!files, node, comments, delayed, surprised>>
  BY DEF Ref!Scan, Ref!Remote, Ref!files
<1>n. PICK n : n = work[s].doc.node
  OBVIOUS
<1>o. PICK o : o = Ref!Observed(comments, n)
  OBVIOUS
<1>e. ASSUME NEW how, Ref!End(s, how), how = "saved" => Good(comments, n) PROVE RefInv'
  BY <1>0, <1>g, <1>n, <1>e, EndKept DEF Saving
<1>1. CASE Ref!End(s, Ref!Refusal(comments, n))
  <2>1. Ref!Refusal(comments, n) # "saved"
    BY DEF Ref!Refusal
  <2> QED
    BY <1>1, <1>e, <2>1
<1>2. CASE ~Ref!Unowned(comments, n) /\ o.whole /\ o.doc = work[s].doc /\ Ref!End(s, "saved")
  BY <1>0, <1>e, <1>n, <1>o, <1>2, SavedIsGood
<1>3. CASE Ref!End(s, "stale") \/ Ref!End(s, "unread")
  BY <1>3, <1>e
<1>4. CASE Ref!Fresh(s, o) /\ Ref!Proceed
           /\ Ref!Go(s, [work[s] EXCEPT !.at = "write", !.seen = [id |-> o.id, doc |-> o.doc]])
  <2>1. PICK v : v = [work[s] EXCEPT !.at = "write", !.seen = [id |-> o.id, doc |-> o.doc]]
    OBVIOUS
  <2>2. o.id \in Nat /\ o.doc \in DocSet \cup {Ref!NoDoc}
        /\ (o.id = 0 \/ (o.id \in 1..Len(comments) /\ comments[o.id].doc.node = n))
    BY <1>0, <1>o, ObservedIs
  <2>3. v \in WorkSet /\ v.at = "write" /\ v.doc = work[s].doc /\ v.expected = work[s].expected
        /\ v.seen.id = o.id /\ v.seen.doc = o.doc
    BY <1>0, <2>1, <2>2 DEF WorkSet, EntrySet, Saving
  <2>4. o.doc = draft[s].expected.doc
    BY <1>0, <1>4 DEF Ref!Fresh
  <2>5. Mine(comments, o.id, n)
    BY <2>2 DEF Mine
  <2>6. ASSUME NEW a \in Aims, a[1] = o.id, a[1] # 0 PROVE a[2] = n
    <3>1. Mine(comments, a[1], a[2])
      BY DEF RefInv, Aimed
    <3>2. n # 0
      BY <1>0, <1>n
    <3> QED
      BY <2>2, <2>6, <3>1, <3>2 DEF Mine
  <2>7. work' = [work EXCEPT ![s] = v]
    BY <1>4, <2>1 DEF Ref!Go
  <2> QED
    BY <1>0, <1>g, <1>n, <1>4, <2>3, <2>4, <2>5, <2>6, <2>7, FilesStay, RefinerStep, ZenonT(60)
    DEF Ref!Proceed, Ref!files
<1> QED
  BY <1>n, <1>o, <1>1, <1>2, <1>3, <1>4 DEF Ref!Scan

LEMMA VerifyKept ==
    ASSUME 0 \notin Nodes, RefInv, NEW s \in Refiners, Ref!Verify(s)
    PROVE  RefInv'
<1>0. /\ work[s].at = "verify" /\ work[s].doc \in DocSet /\ work[s].doc.node \in Nodes
      /\ comments \in Seq(Remarks)
  BY DEF Ref!Verify, RefInv, RefTyped, Saving, DocSet
<1>g. UNCHANGED <<Ref!files, node, comments, delayed, surprised>>
  BY DEF Ref!Verify, Ref!Remote, Ref!files
<1>n. PICK n : n = work[s].doc.node
  OBVIOUS
<1>1. CASE Ref!End(s, "unverified")
  BY <1>0, <1>g, <1>1, EndKept DEF Saving
<1>2. CASE Ref!End(s, Ref!Recheck(s, n))
  <2>1. ASSUME Ref!Recheck(s, n) = "saved" PROVE Good(comments, n)
    <3>1. ~Ref!Unowned(comments, n)
      BY <2>1 DEF Ref!Recheck, Ref!Refusal
    <3>2. Ref!Observed(comments, n).doc = work[s].doc /\ Ref!Observed(comments, n).whole
      BY <2>1, <3>1 DEF Ref!Recheck, Ref!Verdict
    <3> QED
      BY <1>0, <1>n, <3>1, <3>2, SavedIsGood
  <2>2. ASSUME Double(comments, n) PROVE Ref!Recheck(s, n) = "ambiguous"
    <3>1. Ref!Several(Ref!Owned(comments, n))
      BY <2>2 DEF Double, Ref!Several, Ref!Owned
    <3> QED
      BY <3>1 DEF Ref!Recheck, Ref!Unowned, Ref!Refusal
  <2>3. work[s].at \in Saving
    BY <1>0 DEF Saving
  <2>4. PICK how : how = Ref!Recheck(s, n)
    OBVIOUS
  <2> QED
    BY <1>g, <1>n, <1>2, <2>1, <2>2, <2>3, <2>4, EndKept
<1> QED
  BY <1>n, <1>1, <1>2 DEF Ref!Verify

\* A body lands: one of the requests on their way.
LEMMA LandingKept ==
    ASSUME 0 \notin Nodes, RefInv, NEW u, NEW k, NEW d \in DocSet, LandedAt(comments, u, k, d),
           comments' = u, k \in 1..Len(comments) => <<k, d.node>> \in Aims,
           Aims' \subseteq Aims, UNCHANGED <<told, standing>>,
           ~surprised' => ~surprised /\
             \E q \in Refiners : work'[q].at = "verify" /\ work'[q].doc = d,
           \A q \in Refiners : work[q].at = "verify" => work'[q] = work[q]
    PROVE  Aimed' /\ Watched' /\ Stands'
<1>1. Aimed'
  <2>1. ASSUME NEW a \in Aims PROVE Mine(u, a[1], a[2])
    <3>1. Mine(comments, a[1], a[2])
      BY DEF RefInv, Aimed
    <3>2. k \in 1..Len(comments) => k # 0
      OBVIOUS
    <3>3. a[1] = k /\ k \in 1..Len(comments) => a[2] = d.node
      <4> SUFFICES ASSUME a[1] = k, k \in 1..Len(comments) PROVE a[2] = d.node
        OBVIOUS
      <4>1. PICK b \in Aims : b[1] = k /\ b[2] = d.node
        OBVIOUS
      <4> QED
        BY <3>2, <4>1 DEF RefInv, Aimed
    <3> QED
      BY <3>1, <3>3, LandedMine
  <2> QED
    BY <2>1 DEF RefInv, Aimed
<1>2. Watched'
  <2> SUFFICES ASSUME ~ surprised', NEW n \in Nodes, Double(u, n)
               PROVE  n \in told \/ \E q \in Refiners :
                                        work'[q].at = "verify" /\ work'[q].doc.node = n
    BY DEF Watched
  <2>1. CASE n = d.node
    BY <2>1
  <2>2. CASE Double(comments, n)
    BY <2>2 DEF RefInv, Watched
  <2> QED
    BY <2>1, <2>2, LandedDouble
<1>3. Stands'
  <2>1. CASE \E m \in Nodes : Double(comments, m)
    BY <2>1, LandedDouble DEF RefInv, Stands
  <2>2. CASE \A n \in standing : Good(comments, n)
    <3>1. comments \in Seq(Remarks) /\ standing \subseteq Nodes
      BY DEF RefInv, RefTyped, Stands
    <3>2. \A n \in standing : Good(u, n) \/ Double(u, n)
      BY <2>2, <3>1, LandedGood
    <3> QED
      BY <3>1, <3>2 DEF Stands
  <2> QED
    BY <2>1, <2>2 DEF RefInv, Stands
<1> QED
  BY <1>1, <1>2, <1>3

LEMMA LandsAs ==
    ASSUME RefInv, NEW r, r.doc \in DocSet, <<r.id, r.doc.node>> \in Aims, Ref!Lands(r)
    PROVE  \E u, k : /\ LandedAt(comments, u, k, r.doc) /\ comments' = u
                     /\ k \in 1..Len(comments) => <<k, r.doc.node>> \in Aims
<1>0. comments \in Seq(Remarks)
  BY DEF RefInv, RefTyped
<1>1. CASE r.id = 0
  BY <1>0, <1>1, LandsAtEnd DEF Ref!Lands
<1>2. CASE r.id # 0
  <2>1. Mine(comments, r.id, r.doc.node)
    <3>1. PICK a \in Aims : a[1] = r.id /\ a[2] = r.doc.node
      OBVIOUS
    <3> QED
      BY <3>1 DEF RefInv, Aimed
  <2>2. r.id \in 1..Len(comments) /\ comments[r.id].doc.node \in {r.doc.node, 0}
    BY <1>2, <2>1 DEF Mine
  <2>3. comments' = [comments EXCEPT ![r.id] = Ref!Body(r.doc)]
    BY <1>2 DEF Ref!Lands
  <2> QED
    BY <1>0, <2>2, <2>3, LandsWithin
<1> QED
  BY <1>1, <1>2

LEMMA WriteKept ==
    ASSUME 0 \notin Nodes, RefInv, NEW s \in Refiners, Ref!Write(s)
    PROVE  RefInv'
<1>0. /\ work[s].at = "write" /\ work[s].doc \in DocSet /\ work[s] \in WorkSet
      /\ comments \in Seq(Remarks) /\ work \in [Refiners -> WorkSet] /\ delayed \subseteq ReqSet
      /\ work[s].expected = draft[s].expected
  BY DEF Ref!Write, RefInv, RefTyped, Saving, Pledged
<1>g. UNCHANGED <<node, context, draft, told, standing, surprised>>
  BY DEF Ref!Write, Ref!Ghosts, Ref!files
<1>1. \E v \in WorkSet : /\ v.at = "verify" /\ v.doc = work[s].doc
                         /\ v.expected = work[s].expected
                         /\ work' = [work EXCEPT ![s] = v]
  <2>1. PICK v : v = [work[s] EXCEPT !.at = "verify"]
    OBVIOUS
  <2>2. PICK w : w = [work[s] EXCEPT !.at = "verify", !.raised = TRUE]
    OBVIOUS
  <2>3. v \in WorkSet /\ v.at = "verify" /\ v.doc = work[s].doc /\ v.expected = work[s].expected
    BY <1>0, <2>1 DEF WorkSet, Saving
  <2>4. w \in WorkSet /\ w.at = "verify" /\ w.doc = work[s].doc /\ w.expected = work[s].expected
    BY <1>0, <2>2 DEF WorkSet, Saving
  <2>5. work' = [work EXCEPT ![s] = v] \/ work' = [work EXCEPT ![s] = w]
    BY <2>1, <2>2 DEF Ref!Write, Ref!To, Ref!Go
  <2> QED
    BY <2>3, <2>4, <2>5
<1>2. PICK v \in WorkSet : /\ v.at = "verify" /\ v.doc = work[s].doc
                           /\ v.expected = work[s].expected
                           /\ work' = [work EXCEPT ![s] = v]
  BY <1>1
<1>3. work' \in [Refiners -> WorkSet] /\ work'[s] = v
      /\ \A q \in Refiners \ {s} : work'[q] = work[q]
  BY <1>0, <1>2
<1>r. PICK r : r = Ref!Request(s)
  OBVIOUS
<1>4. r \in ReqSet /\ r.doc = work[s].doc /\ r.id = work[s].seen.id
  <2>1. work[s].seen.id \in Nat /\ work[s].seen.doc \in DocSet \cup {Ref!NoDoc}
    BY <1>0 DEF WorkSet, EntrySet
  <2> QED
    BY <1>0, <1>r, <2>1 DEF Ref!Request, ReqSet
<1>5. delayed' \subseteq delayed \cup {r}
  BY <1>r DEF Ref!Write
<1>6. <<r.id, r.doc.node>> \in Aims
  BY <1>0, <1>4 DEF Aims
<1>7. Aims' \subseteq Aims
  <2>1. ASSUME NEW q \in delayed' PROVE <<q.id, q.doc.node>> \in Aims
    BY <1>5, <1>6, <2>1 DEF Aims
  <2>2. ASSUME NEW q \in Refiners, work'[q].at = "write" PROVE q # s /\ work[q] = work'[q]
    BY <1>2, <1>3, <2>2
  <2>3. ASSUME NEW q \in Refiners, work'[q].at = "write"
        PROVE <<work'[q].seen.id, work'[q].doc.node>> \in Aims
    BY <2>2, <2>3 DEF Aims
  <2> QED
    BY <2>1, <2>3 DEF Aims
<1>8. Pledged' /\ Bound'
  BY <1>0, <1>g, <1>2, <1>3 DEF RefInv, Pledged, Bound, Saving
<1>9. ASSUME comments' \in Seq(Remarks) PROVE RefTyped'
  <2>1. delayed' \subseteq ReqSet
    BY <1>0, <1>4, <1>5
  <2>2. \A q \in Refiners : /\ work'[q].at \in Saving => work'[q].doc \in DocSet
                            /\ work'[q].at = "select" => work'[q].snap \in [Nodes -> NodeSet]
    BY <1>0, <1>2, <1>3 DEF RefInv, RefTyped
  <2> QED
    BY <1>g, <1>3, <1>9, <2>1, <2>2 DEF RefInv, RefTyped
<1>10. \A q \in Refiners : work[q].at = "verify" => work'[q] = work[q]
  BY <1>0, <1>3
<1>11. CASE Ref!Lands(r)
  <2>1. PICK u, k : /\ LandedAt(comments, u, k, r.doc) /\ comments' = u
                    /\ k \in 1..Len(comments) => <<k, r.doc.node>> \in Aims
    BY <1>0, <1>4, <1>6, <1>11, LandsAs
  <2>2. u \in Seq(Remarks)
    BY <2>1 DEF LandedAt
  <2>3. \E q \in Refiners : work'[q].at = "verify" /\ work'[q].doc = r.doc
    BY <1>2, <1>3, <1>4
  <2>4. Aimed' /\ Watched' /\ Stands'
    BY <1>0, <1>g, <1>4, <1>7, <1>10, <2>1, <2>3, LandingKept
  <2> QED
    BY <1>8, <1>9, <2>1, <2>2, <2>4 DEF RefInv
<1>12. CASE UNCHANGED comments
  <2>1. Aimed'
    BY <1>7, <1>12 DEF RefInv, Aimed
  <2>2. Watched'
    BY <1>g, <1>10, <1>12 DEF RefInv, Watched
  <2>3. Stands'
    BY <1>g, <1>12 DEF RefInv, Stands
  <2> QED
    BY <1>0, <1>8, <1>9, <1>12, <2>1, <2>2, <2>3 DEF RefInv
<1> QED
  BY <1>r, <1>11, <1>12 DEF Ref!Write

LEMMA RefLandsLateKept ==
    ASSUME 0 \notin Nodes, RefInv, Ref!LandsLate
    PROVE  RefInv'
<1>0. comments \in Seq(Remarks) /\ delayed \subseteq ReqSet
  BY DEF RefInv, RefTyped
<1>r. PICK r \in delayed :
        /\ delayed' = delayed \ {r} /\ (Ref!Lands(r) \/ UNCHANGED comments)
        /\ surprised' = (surprised \/ (comments' # comments /\ ~Ref!Awaited(r)))
  BY DEF Ref!LandsLate
<1>g. UNCHANGED <<node, context, draft, work, told, standing>>
  BY DEF Ref!LandsLate, Ref!files
<1>1. r.doc \in DocSet /\ r.by \in Refiners /\ <<r.id, r.doc.node>> \in Aims
  BY <1>0 DEF ReqSet, Aims
<1>2. Aims' \subseteq Aims
  BY <1>r, <1>g DEF Aims
<1>3. Pledged' /\ Bound'
  BY <1>g DEF RefInv, Pledged, Bound
<1>4. ASSUME comments' \in Seq(Remarks) PROVE RefTyped'
  BY <1>r, <1>g, <1>4 DEF RefInv, RefTyped
<1>5. CASE Ref!Lands(r) /\ comments' # comments
  <2>1. PICK u, k : /\ LandedAt(comments, u, k, r.doc) /\ comments' = u
                    /\ k \in 1..Len(comments) => <<k, r.doc.node>> \in Aims
    BY <1>1, <1>5, LandsAs
  <2>2. u \in Seq(Remarks)
    BY <2>1 DEF LandedAt
  <2>3. ~surprised' => ~surprised /\
          \E q \in Refiners : work'[q].at = "verify" /\ work'[q].doc = r.doc
    BY <1>r, <1>g, <1>1, <1>5 DEF Ref!Awaited
  <2>4. Aimed' /\ Watched' /\ Stands'
    BY <1>g, <1>1, <1>2, <2>1, <2>3, LandingKept
  <2> QED
    BY <1>3, <1>4, <2>1, <2>2, <2>4 DEF RefInv
<1>6. CASE UNCHANGED comments
  <2>1. Aimed'
    BY <1>2, <1>6 DEF RefInv, Aimed
  <2>2. surprised => surprised'
    BY <1>r
  <2>3. Watched'
    BY <1>g, <1>6, <2>2 DEF RefInv, Watched
  <2>4. Stands'
    BY <1>g, <1>6 DEF RefInv, Stands
  <2> QED
    BY <1>0, <1>3, <1>4, <1>6, <2>1, <2>3, <2>4 DEF RefInv
<1> QED
  BY <1>r, <1>5, <1>6

LEMMA EditNodeKept ==
    ASSUME RefInv, Ref!EditNode
    PROVE  RefInv'
<1>0. node \in [Nodes -> NodeSet]
  BY DEF RefInv, RefTyped
<1>g. UNCHANGED <<context, draft, work, comments, delayed, told, standing, surprised>>
  BY DEF Ref!EditNode, Ref!Ghosts, Ref!files
<1>1. PICK n \in Nodes :
        node' \in {[node EXCEPT ![n].src = @ + 1], [node EXCEPT ![n].open = FALSE],
                   [node EXCEPT ![n].carriers = 2]}
  BY DEF Ref!EditNode
<1>2. node[n] \in NodeSet
  BY <1>0
<1>3. PICK m : m = node[n].src
  OBVIOUS
<1>4. m + 1 \in Nat
  BY <1>2, <1>3 DEF NodeSet
<1>5. PICK x, y, z : /\ x = [node[n] EXCEPT !.src = m + 1] /\ y = [node[n] EXCEPT !.open = FALSE]
                     /\ z = [node[n] EXCEPT !.carriers = 2]
  OBVIOUS
<1>6. x \in NodeSet /\ y \in NodeSet /\ z \in NodeSet
  BY <1>2, <1>4, <1>5 DEF NodeSet
<1>7. node' \in {[node EXCEPT ![n] = x], [node EXCEPT ![n] = y], [node EXCEPT ![n] = z]}
  BY <1>1, <1>3, <1>5
<1>8. node' \in [Nodes -> NodeSet]
  BY <1>0, <1>6, <1>7
<1> QED
  BY <1>g, <1>8 DEF RefInv, RefTyped, Bound, Pledged, Aimed, Aims, Watched, Stands

\* What people do to comments: no record appears, and a comment keeps its node or loses it.
Edited(t, u) ==
  /\ u \in Seq(Remarks)
  /\ \A j \in 1..Len(u) : u[j].defect = "none" => j \in 1..Len(t) /\ u[j] = t[j]
  /\ \A j \in 1..Len(t) : j \in 1..Len(u) /\ u[j].doc.node \in {t[j].doc.node, 0}

LEMMA EditedWithin ==
    ASSUME NEW t \in Seq(Remarks), NEW i \in 1..Len(t), NEW c \in Remarks, c.defect # "none",
           c.doc.node \in {t[i].doc.node, 0}
    PROVE  Edited(t, [t EXCEPT ![i] = c])
<1>1. PICK u : u = [t EXCEPT ![i] = c]
  OBVIOUS
<1>2. u \in Seq(Remarks) /\ Len(u) = Len(t) /\ u[i] = c
  BY <1>1
<1>3. \A j \in 1..Len(t) : j # i => u[j] = t[j]
  BY <1>1
<1>4. Edited(t, u)
  BY <1>2, <1>3 DEF Edited
<1> QED
  BY <1>1, <1>4

LEMMA EditedAtEnd ==
    ASSUME NEW t \in Seq(Remarks), NEW c \in Remarks, c.defect # "none"
    PROVE  Edited(t, Append(t, c))
<1>1. PICK u : u = Append(t, c)
  OBVIOUS
<1>2. u \in Seq(Remarks) /\ Len(u) = Len(t) + 1 /\ u[Len(t) + 1] = c /\ Len(t) \in Nat
  BY <1>1
<1>3. \A j \in 1..Len(t) : u[j] = t[j]
  BY <1>1
<1>4. Edited(t, u)
  BY <1>2, <1>3 DEF Edited
<1> QED
  BY <1>1, <1>4

LEMMA EditCommentKept ==
    ASSUME 0 \notin Nodes, RefInv, Ref!EditComment
    PROVE  RefInv'
<1>0. comments \in Seq(Remarks)
  BY DEF RefInv, RefTyped
<1>g. UNCHANGED <<node, context, draft, work, delayed, told, surprised>> /\ standing' = {}
  BY DEF Ref!EditComment, Ref!files
<1>1. \E u : comments' = u /\ Edited(comments, u)
  <2>1. PICK i \in 1..Len(comments) :
          \/ /\ comments[i].defect = "none"
             /\ \E d \in {"repeated", "damaged", "stray", "gone"} :
                  comments' = [comments EXCEPT ![i] =
                    [defect |-> d, doc |-> IF d \in {"stray", "gone"} THEN Ref!NoDoc ELSE @.doc]]
          \/ /\ comments[i].defect \in {"none", "damaged"}
             /\ \E d \in {"quoted", "damaged"} :
                  comments' = Append(comments, [defect |-> d, doc |-> comments[i].doc])
    BY DEF Ref!EditComment
  <2>2. comments[i] \in Remarks /\ Ref!NoDoc.node = 0
    BY <1>0 DEF Ref!NoDoc
  <2>3. ASSUME comments[i].defect = "none", NEW d \in {"repeated", "damaged", "stray", "gone"},
               comments' = [comments EXCEPT ![i] =
                 [defect |-> d, doc |-> IF d \in {"stray", "gone"} THEN Ref!NoDoc ELSE @.doc]]
        PROVE  \E u : comments' = u /\ Edited(comments, u)
    <3>1. PICK c : c = [defect |-> d,
                        doc |-> IF d \in {"stray", "gone"} THEN Ref!NoDoc ELSE comments[i].doc]
      OBVIOUS
    <3>2. comments[i].doc \in DocSet
      BY <2>2, <2>3 DEF Remarks
    <3>3. c \in Remarks
      BY <3>1, <3>2 DEF Remarks
    <3>4. c.defect # "none" /\ c.doc.node \in {comments[i].doc.node, 0}
      BY <2>2, <3>1
    <3>5. comments' = [comments EXCEPT ![i] = c]
      BY <2>3, <3>1
    <3> QED
      BY <1>0, <3>3, <3>4, <3>5, EditedWithin
  <2>4. ASSUME comments[i].defect \in {"none", "damaged"}, NEW d \in {"quoted", "damaged"},
               comments' = Append(comments, [defect |-> d, doc |-> comments[i].doc])
        PROVE  \E u : comments' = u /\ Edited(comments, u)
    <3>1. PICK c : c = [defect |-> d, doc |-> comments[i].doc]
      OBVIOUS
    <3>2. comments[i].doc \in DocSet
      BY <2>2, <2>4 DEF Remarks
    <3>3. c \in Remarks /\ c.defect # "none"
      BY <3>1, <3>2 DEF Remarks
    <3> QED
      BY <1>0, <2>4, <3>1, <3>3, EditedAtEnd
  <2> QED
    BY <2>1, <2>3, <2>4
<1>2. PICK u : comments' = u /\ Edited(comments, u)
  BY <1>1
<1>3. RefTyped' /\ Bound' /\ Pledged'
  BY <1>g, <1>2 DEF Edited, RefInv, RefTyped, Bound, Pledged
<1>4. Aimed'
  <2>1. Aims' = Aims
    BY <1>g DEF Aims
  <2>2. \A a \in Aims : Mine(u, a[1], a[2])
    BY <1>2 DEF Edited, RefInv, Aimed, Mine
  <2> QED
    BY <1>2, <2>1, <2>2 DEF RefInv, Aimed
<1>5. Watched'
  <2>1. \A n \in Nodes : Double(u, n) => Double(comments, n)
    BY <1>2, DoubleIs DEF Edited
  <2> QED
    BY <1>g, <1>2, <2>1 DEF RefInv, Watched
<1>6. Stands'
  BY <1>g DEF Stands
<1> QED
  BY <1>3, <1>4, <1>5, <1>6 DEF RefInv

LEMMA RefinementStarts ==
    ASSUME Ref!Init
    PROVE  RefInv
<1>1. Ref!NoDoc \in {Ref!NoDoc} /\ Ref!NoComment \in EntrySet
  BY DEF Ref!NoComment, EntrySet
<1>2. Ref!NoContext \in FileSet /\ Ref!NoContext.no = 0
  BY <1>1 DEF Ref!NoContext, FileSet
<1>3. [src |-> 1, open |-> TRUE, carriers |-> 1] \in NodeSet /\ <<>> \in Seq(Remarks)
  BY DEF NodeSet
<1>4. RefTyped
  BY <1>2, <1>3, IdleWork DEF Ref!Init, RefTyped, Saving
<1>5. Bound /\ Pledged
  BY <1>2, IdleWork DEF Ref!Init, Bound, Pledged, Saving
<1>6. Aims = {}
  BY IdleWork DEF Ref!Init, Aims
<1>7. Aimed
  BY <1>6 DEF Aimed
<1>8. Watched /\ Stands
  <2>1. ASSUME NEW n PROVE ~ Double(comments, n)
    BY DoubleIs DEF Ref!Init
  <2> QED
    BY <2>1 DEF Ref!Init, Watched, Stands
<1> QED
  BY <1>4, <1>5, <1>7, <1>8 DEF RefInv

LEMMA RefinementSteps ==
    ASSUME 0 \notin Nodes, RefInv, [Ref!Next]_Ref!vars
    PROVE  RefInv'
<1>1. CASE Ref!EditNode \/ Ref!EditComment \/ Ref!LandsLate
  BY <1>1, EditNodeKept, EditCommentKept, RefLandsLateKept
<1>2. ASSUME NEW s \in Refiners, Ref!Step(s) PROVE RefInv'
  BY <1>2, SnapshotKept, PrepareKept, WriteDraftKept, SaveRefined, TargetKept, ScanKept,
     WriteKept,
     VerifyKept DEF Ref!Step
<1>3. CASE UNCHANGED Ref!vars
  BY <1>3 DEF Ref!vars, RefInv, RefTyped, Bound, Pledged, Aimed, Aims, Watched, Stands
<1> QED
  BY <1>1, <1>2, <1>3 DEF Ref!Next

\* The invariant of refine sessions: what their files and their saves at work hold, which comments
\* their requests name, and who still has to look at a second record (authoring.py;
\* issue_backend.py, guarded_upsert_marked_comment).
LEMMA RefinementInvariance == ASSUME 0 \notin Nodes PROVE Ref!Spec => []RefInv
<1>1. Ref!Init => RefInv
  BY RefinementStarts
<1>2. RefInv /\ [Ref!Next]_Ref!vars => RefInv'
  BY RefinementSteps
<1> QED
  BY <1>1, <1>2, PTL DEF Ref!Spec

\* However many sessions and contexts, a save replaces only the record its author had in front of
\* them, or one written after the save's own scan (authoring.py, compose_save_request;
\* issue_backend.py, guarded_upsert_marked_comment).
THEOREM ReplacesWhatWasSeen ==
    ASSUME 0 \notin Nodes PROVE Ref!Spec => [][Ref!AuthorSawIt]_(Ref!vars)
<1>1. RefInv => Ref!AuthorSawIt
  BY DEF RefInv, Pledged, Ref!AuthorSawIt
<1> QED
  BY <1>1, RefinementInvariance, PTL DEF Ref!Spec

\* Of however many nodes, sessions and lost or late writes: two records of one node that sessions
\* wrote are never left without a session that was told (issue_backend.py, _refuse_unowned after
\* the write), and what was reported as saved reaches the planning session unless a second
\* record or a broken marker made the carrier unreadable (codec.py, find_target_refinement).
THEOREM RefinementsAreSafe == ASSUME 0 \notin Nodes PROVE Ref!Spec => []Ref!RefinementHolds
<1>1. ASSUME RefInv PROVE Ref!AmbiguityIsTold
  <2>1. \A n : Ref!Twice(n) <=> Double(comments, n)
    BY DEF Ref!Twice, Double
  <2> QED
    BY <1>1, <2>1 DEF RefInv, Watched, Ref!AmbiguityIsTold, Ref!AtRest
<1>2. ASSUME RefInv PROVE Ref!SavedIsDelivered
  <2> SUFFICES ASSUME NEW n \in standing, Ref!Strays(comments) = {},
                      \A m \in Nodes : ~ Ref!Twice(m)
               PROVE  Ref!Delivered(n) = "present"
    BY DEF Ref!SavedIsDelivered
  <2>1. n \in Nodes /\ comments \in Seq(Remarks) /\ Good(comments, n)
    BY <1>2 DEF RefInv, RefTyped, Stands, Ref!Twice, Double
  <2>2. PICK o : o = Ref!Observed(comments, n)
    OBVIOUS
  <2>3. o.id \in 1..Len(comments)
    BY <2>1, <2>2, ObservedIs DEF Good
  <2> QED
    BY <2>1, <2>2, <2>3 DEF Good, Ref!Delivered, Ref!Readable, Ref!Found
<1> QED
  BY <1>1, <1>2, RefinementInvariance, PTL DEF Ref!RefinementHolds

\* Comments and saves keep their types (refinement/, issue_backend.py).
THEOREM RefinementTypeCorrect == ASSUME 0 \notin Nodes PROVE Ref!Spec => []Ref!TypeOK
<1>1. ASSUME RefInv PROVE Ref!TypeOK
  <2>1. \A i \in 1..Len(comments) : comments[i] \in Remarks
    BY <1>1 DEF RefInv, RefTyped
  <2>2. \A s \in Refiners : work[s].doc \in DocSet \cup {Ref!NoDoc}
    BY <1>1 DEF RefInv, RefTyped, WorkSet
  <2>3. (\A d \in DocSet : d.node \in Nodes) /\ Ref!NoDoc.node = 0
    BY DEF DocSet, Ref!NoDoc
  <2>4. \A i \in 1..Len(comments) : comments[i].defect \in Ref!Defects
    BY <2>1 DEF Remarks, Ref!Defects
  <2> QED
    BY <2>2, <2>3, <2>4 DEF Ref!TypeOK
<1> QED
  BY <1>1, RefinementInvariance, PTL

=============================================================================
