------------------------------ MODULE Transfer ------------------------------
(***************************************************************************)
(* Replanning an objective (transfer.py, the TRANSFER arm of recover.py,   *)
(* the supersession writes of the GitHub objective store): a successor is  *)
(* created, the carried plans are re-owned, the successor is verified, and *)
(* only then is the predecessor stamped and closed.  Every write is one    *)
(* step; the machine's operation lock makes the command the only one.      *)
(***************************************************************************)
EXTENDS Naturals, Sequences, FiniteSets

CONSTANTS N,          \* plans
          Runs,       \* run ids of the replanning sessions
          Requests,   \* what they ask for: a policy and a delivery-order
                      \* projection, at each node the plan carried or 0
          MaxObj,     \* bound: objectives, the first one included
          MaxOps,     \* bound: TRANSFER operations
          Cap,        \* _CHAIN_DEPTH_CAP
          MaxEdits,   \* bound: changes made by others
          MaxFaults   \* bound: crashes

VARIABLES obj,      \* obj[i]: the stored objective i
          plan,     \* plan[p]: the header of plan p
          prs,      \* plans with an open pull request
          claimed,  \* plans 1..claimed hold a checkpoint pair
          op, nops, \* TRANSFER records of the succession's journal
          target,   \* target[r]: the objective the session was launched to replan
          nlin,     \* lineages minted
          me,       \* the running command
          edits, faults

vars == <<obj, plan, prs, claimed, op, nops, target, nlin, me, edits, faults>>
fixed == <<prs, claimed>>

Objs  == 1..MaxObj
Plans == 1..N
Ops   == 1..MaxOps

Carried(proj) == {proj[i] : i \in DOMAIN proj} \ {0}

NoRun  == "no run"
NoObj  == [st |-> "none", run |-> NoRun, sup |-> 0, by |-> 0, lin |-> 0,
           stacked |-> FALSE, proj |-> <<>>, full |-> FALSE]
NoReq  == [stacked |-> FALSE, proj |-> <<>>]
NoOp   == [st |-> "none", pred |-> 0, run |-> NoRun, req |-> NoReq, lin |-> 0]
Idle   == [pc |-> "idle", cmd |-> "none", obj |-> 0, run |-> NoRun, req |-> NoReq,
           lin |-> 0, op |-> 0, succ |-> 0, at |-> 0, now |-> FALSE]

Previous(proj, i) == IF i = 1 THEN 0 ELSE proj[i - 1]
Whole == [i \in 1..N |-> i]

\* An open objective, stacked with a claimed prefix or incremental, and its plans.
Init == /\ \E s \in BOOLEAN, k \in 0..1 :
             /\ s \/ k = 0
             /\ claimed = k /\ prs \in {1..k, (1..k) \cup {N}}
             /\ obj = [i \in Objs |-> IF i = 1
                         THEN [NoObj EXCEPT !.st = "open", !.lin = IF s THEN 1 ELSE 0,
                                            !.stacked = s, !.proj = Whole, !.full = TRUE]
                         ELSE NoObj]
             /\ plan = [p \in Plans |-> [owner |-> 1, node |-> p,
                                         lin |-> IF s THEN 1 ELSE 0,
                                         pred |-> IF s THEN p - 1 ELSE 0]]
        /\ op = [o \in Ops |-> NoOp] /\ nops = 0
        /\ target = [r \in Runs |-> 0] /\ nlin = 1
        /\ me = Idle /\ edits = 0 /\ faults = 0

-----------------------------------------------------------------------------
\* find_objective: open issues only.
Find(r) == {i \in Objs : obj[i].st = "open" /\ obj[i].run = r}

\* _supersession_chain: an objective and the predecessors behind it, cut at the
\* depth cap.
Older[i \in Objs] == IF obj[i].sup = 0 THEN {} ELSE {obj[i].sup} \cup Older[obj[i].sup]
Ancestors(i) == {i} \cup Older[i]
Readable(i) == Cardinality(Ancestors(i)) <= Cap

Unresolved(i) == {o \in Ops : op[o].st = "prepared" /\ op[o].pred \in Ancestors(i)}

\* The structural part of the reconstructed train: the journal is readable and
\* every plan of the projection is owned, linked and chained.
Sound(i) == /\ Readable(i)
            /\ \A n \in DOMAIN obj[i].proj :
                 LET p == obj[i].proj[n]
                 IN  p # 0 => plan[p] = [owner |-> i, node |-> n, lin |-> obj[i].lin,
                                         pred |-> Previous(obj[i].proj, n)]

Claims(i) == {p \in Carried(obj[i].proj) : p <= claimed}

\* _plan_from_stacked: D3 policy, D4 prefix, D5 open pull requests.
PlanFromStacked(i, q) ==
    /\ Sound(i)
    /\ Carried(q.proj) \subseteq Carried(obj[i].proj)
    /\ Claims(i) # {} => /\ q.stacked
                         /\ Len(q.proj) >= claimed
                         /\ \A n \in 1..claimed : q.proj[n] = obj[i].proj[n]
    /\ prs \cap Carried(obj[i].proj) \subseteq Carried(q.proj)
    /\ q.stacked \/ prs \cap Carried(q.proj) = {}

\* _plan_from_incremental: no open pull request, and no journal.
PlanFromIncremental(i, q) == /\ Carried(q.proj) \subseteq Carried(obj[i].proj)
                             /\ prs \cap Carried(obj[i].proj) = {}

\* Mutant of IncrementalLineage: every save mints.
AlwaysMint(i, r) == nlin + 1

\* _incremental_lineage: the successor of this run fixes the train's identity;
\* otherwise the stored lineage or a fresh one.
IncrementalLineage(i, r) == IF Find(r) # {} THEN obj[CHOOSE s \in Find(r) : TRUE].lin
                            ELSE IF obj[i].lin # 0 THEN obj[i].lin ELSE nlin + 1

\* corroborate_successor
Corroborated(s, o) == obj[s].sup = op[o].pred /\ obj[s].lin = op[o].lin

Fault == faults < MaxFaults /\ faults' = faults + 1
Quit  == me' = Idle
Execute(i, r, q, lin, o, now) ==
    me' = [me EXCEPT !.pc = "create", !.obj = i, !.run = r, !.req = q, !.lin = lin,
                     !.op = o, !.at = 1, !.now = now]

Begin(c, i, r, q) ==
    /\ me.pc = "idle" /\ obj[i].st # "none"
    /\ c = "save" => target[r] \in {0, i}
    /\ target' = IF c = "save" THEN [target EXCEPT ![r] = i] ELSE target
    /\ me' = [Idle EXCEPT !.pc = "route", !.cmd = c, !.obj = i, !.run = r, !.req = q]
    /\ UNCHANGED <<obj, plan, fixed, op, nops, nlin, edits, faults>>

\* _supersede_incremental: create and close at once, without a journal.
SupersedeIncremental ==
    LET i == me.obj
    IN  /\ me.pc = "route" /\ me.cmd = "save" /\ ~ obj[i].stacked /\ ~ me.req.stacked
        /\ IF obj[i].by = 0 /\ obj[i].st = "open"
           THEN Execute(i, me.run, me.req, 0, 0, TRUE) ELSE Quit
        /\ UNCHANGED <<obj, plan, fixed, op, nops, target, nlin, edits, faults>>

\* Mutant of RouteUnresolved: only this run's own successor counts as found.
ForgetOthers(o) ==
    LET found == Find(op[o].run) IN
    \/ /\ op[o].run = me.run
       /\ \E s \in found : Corroborated(s, o)
       /\ Execute(op[o].pred, op[o].run, op[o].req, op[o].lin, o, FALSE)
       /\ UNCHANGED op
    \/ /\ op[o].run # me.run \/ found = {}
       /\ op' = [op EXCEPT ![o].st = "abandoned"] /\ UNCHANGED me

\* _route_unresolved: the same run rolls forward from the recorded manifest,
\* another run is refused, and an absent successor is the proof to abandon.
RouteUnresolved(o) ==
    LET found == Find(op[o].run) IN
    \/ /\ \E s \in found : Corroborated(s, o) /\ op[o].run = me.run
       /\ Execute(op[o].pred, op[o].run, op[o].req, op[o].lin, o, FALSE)
       /\ UNCHANGED op
    \/ /\ found # {} /\ ~ \E s \in found : Corroborated(s, o) /\ op[o].run = me.run
       /\ Quit /\ UNCHANGED op
    \/ /\ found = {}
       /\ op' = [op EXCEPT ![o].st = "abandoned"] /\ UNCHANGED me

\* _run: the journal first, which may be beyond the depth cap, then the stamp, then
\* the preflight.
Run ==
    LET i == me.obj
    IN  /\ me.pc = "route" /\ me.cmd = "save" /\ (obj[i].stacked \/ me.req.stacked)
        /\ \/ obj[i].stacked /\ ~ Readable(i) /\ Quit /\ UNCHANGED op
           \/ obj[i].stacked /\ Readable(i) /\ \E o \in Unresolved(i) : RouteUnresolved(o)
           \/ /\ obj[i].stacked => Readable(i) /\ Unresolved(i) = {}
              /\ IF obj[i].by # 0
                 THEN IF obj[i].by \in Find(me.run)
                      THEN me' = [me EXCEPT !.pc = "close", !.succ = obj[i].by]
                      ELSE Quit
                 ELSE \/ obj[i].st # "open" /\ Quit
                      \/ /\ obj[i].st = "open" /\ obj[i].stacked
                         /\ IF PlanFromStacked(i, me.req) /\ nops < MaxOps
                            THEN me' = [me EXCEPT !.pc = "prepare",
                                          !.lin = IF me.req.stacked THEN obj[i].lin ELSE 0]
                            ELSE Quit
                      \/ /\ obj[i].st = "open" /\ ~ obj[i].stacked
                         /\ IF PlanFromIncremental(i, me.req)
                            THEN Execute(i, me.run, me.req, IncrementalLineage(i, me.run), 0, FALSE)
                            ELSE Quit
              /\ UNCHANGED op
        /\ UNCHANGED <<obj, plan, fixed, nops, target, nlin, edits, faults>>

Prepare ==
    /\ me.pc = "prepare"
    /\ nops' = nops + 1
    /\ op' = [op EXCEPT ![nops + 1] = [st |-> "prepared", pred |-> me.obj, run |-> me.run,
                                       req |-> me.req, lin |-> me.lin]]
    /\ Execute(me.obj, me.run, me.req, me.lin, nops + 1, FALSE)
    /\ UNCHANGED <<obj, plan, fixed, target, nlin, edits, faults>>

Fresh == CHOOSE i \in Objs : obj[i].st = "none"
Room  == \E i \in Objs : obj[i].st = "none"

\* supersede_objective: found by the run id and returned (the deferred arm
\* completes the body comment first), or created.
Create ==
    /\ me.pc = "create"
    /\ \/ /\ Find(me.run) # {}
          /\ \E s \in Find(me.run) :
               /\ obj' = IF me.now THEN obj ELSE [obj EXCEPT ![s].full = TRUE]
               /\ IF me.now THEN Quit
                  ELSE me' = [me EXCEPT !.pc = "own", !.succ = s]
          /\ UNCHANGED nlin
       \/ /\ Find(me.run) = {} /\ Room
          /\ obj' = [obj EXCEPT ![Fresh] =
                       [st |-> "open", run |-> me.run, sup |-> me.obj, by |-> 0,
                        lin |-> me.lin, stacked |-> me.req.stacked,
                        proj |-> me.req.proj, full |-> FALSE]]
          /\ nlin' = IF me.lin > nlin THEN me.lin ELSE nlin
          /\ me' = [me EXCEPT !.pc = "body", !.succ = Fresh]
       \/ Find(me.run) = {} /\ ~ Room /\ Quit /\ UNCHANGED <<obj, nlin>>
    /\ UNCHANGED <<plan, fixed, op, nops, target, edits, faults>>

\* Mutant of Body: the predecessor is closed as soon as the successor exists.
CloseEagerly == /\ me.pc = "body"
                /\ obj' = [obj EXCEPT ![me.succ].full = TRUE]
                /\ me' = [me EXCEPT !.pc = "stamp"]
                /\ UNCHANGED <<plan, fixed, op, nops, target, nlin, edits, faults>>

\* The body comment of the two-step create.
Body == /\ me.pc = "body"
        /\ obj' = [obj EXCEPT ![me.succ].full = TRUE]
        /\ me' = [me EXCEPT !.pc = IF me.now THEN "stamp" ELSE "own"]
        /\ UNCHANGED <<plan, fixed, op, nops, target, nlin, edits, faults>>

\* Mutant of Own: a published plan is left as it is.
OwnUnpublished == LET n == me.at
                      p == me.req.proj[n]
                  IN  /\ me.pc = "own"
                      /\ plan' = IF p <= claimed THEN plan
                                 ELSE [plan EXCEPT ![p].owner = me.succ, ![p].node = n]
                      /\ me' = [me EXCEPT !.pc = "identify"]
                      /\ UNCHANGED <<obj, fixed, op, nops, target, nlin, edits, faults>>

\* _apply_ownership, one carried plan at a time, in two header writes: the
\* ownership pair;
Own == LET n == me.at
           p == me.req.proj[n]
       IN  /\ me.pc = "own"
           /\ plan' = IF p = 0 THEN plan
                      ELSE [plan EXCEPT ![p].owner = me.succ, ![p].node = n]
           /\ me' = [me EXCEPT !.pc = "identify"]
           /\ UNCHANGED <<obj, fixed, op, nops, target, nlin, edits, faults>>

\* and, for a plan that is not published, the layer identity that a stacked
\* successor gives it and an incremental one takes away (_ownership_writes).
Identify == LET n == me.at
                p == me.req.proj[n]
            IN  /\ me.pc = "identify"
                /\ plan' = IF p <= claimed THEN plan
                           ELSE [plan EXCEPT ![p].lin = me.lin,
                                   ![p].pred = IF me.req.stacked
                                               THEN Previous(me.req.proj, n) ELSE 0]
                /\ me' = [me EXCEPT !.at = n + 1,
                             !.pc = IF n = Len(me.req.proj) THEN "verify" ELSE "own"]
                /\ UNCHANGED <<obj, fixed, op, nops, target, nlin, edits, faults>>

\* _verify: the live projection is the recorded one, without structural
\* blockers, and the claimed prefix is unchanged.
Verified(s) == /\ obj[s].proj = me.req.proj
               /\ IF me.req.stacked
                  THEN Sound(s) /\ (claimed > 0 => 1..claimed \subseteq Claims(s))
                  ELSE \A n \in DOMAIN me.req.proj :
                         LET p == me.req.proj[n]
                         IN  p # 0 => plan[p] = [owner |-> s, node |-> n, lin |-> 0, pred |-> 0]

Verify == /\ me.pc = "verify"
          /\ IF Verified(me.succ) THEN me' = [me EXCEPT !.pc = "stamp"] ELSE Quit
          /\ UNCHANGED <<obj, plan, fixed, op, nops, target, nlin, edits, faults>>

\* finalize_supersession: the stamp, which a conflicting one refuses, then the
\* close.
Stamp == /\ me.pc = "stamp"
         /\ IF obj[me.obj].by \in {0, me.succ}
            THEN /\ obj' = [obj EXCEPT ![me.obj].by = me.succ]
                 /\ me' = [me EXCEPT !.pc = "close"]
            ELSE Quit /\ UNCHANGED obj
         /\ UNCHANGED <<plan, fixed, op, nops, target, nlin, edits, faults>>

Close == /\ me.pc = "close"
         /\ obj' = [obj EXCEPT ![me.obj].st = "closed"]
         /\ IF me.op = 0 THEN Quit ELSE me' = [me EXCEPT !.pc = "complete"]
         /\ UNCHANGED <<plan, fixed, op, nops, target, nlin, edits, faults>>

Complete == /\ me.pc = "complete"
            /\ op' = [op EXCEPT ![me.op].st = "completed"]
            /\ Quit
            /\ UNCHANGED <<obj, plan, fixed, nops, target, nlin, edits, faults>>

\* _classify_transfer, _conclude_transfer, _abandon_transfer.
Recover ==
    /\ me.pc = "route" /\ me.cmd \in {"recover", "abandon"}
    /\ \/ /\ Readable(me.obj)
          /\ \E o \in Unresolved(me.obj) :
               LET found == Find(op[o].run) IN
               \/ /\ me.cmd = "recover" /\ \E s \in found : Corroborated(s, o)
                  /\ Execute(op[o].pred, op[o].run, op[o].req, op[o].lin, o, FALSE)
                  /\ UNCHANGED op
               \/ /\ me.cmd = "abandon" /\ found = {}
                  /\ op' = [op EXCEPT ![o].st = "abandoned"] /\ Quit
               \/ /\ ~ (me.cmd = "recover" /\ \E s \in found : Corroborated(s, o))
                  /\ ~ (me.cmd = "abandon" /\ found = {})
                  /\ Quit /\ UNCHANGED op
       \/ (Readable(me.obj) => Unresolved(me.obj) = {}) /\ Quit /\ UNCHANGED op
    /\ UNCHANGED <<obj, plan, fixed, nops, target, nlin, edits, faults>>

\* Somebody re-owns a plan, or closes an objective by hand.
Meddle ==
    /\ edits < MaxEdits /\ edits' = edits + 1
    /\ \/ \E p \in Plans, i \in Objs : /\ obj[i].st # "none"
                                       /\ plan' = [plan EXCEPT ![p].owner = i]
                                       /\ UNCHANGED obj
       \/ \E i \in Objs : /\ obj[i].st = "open"
                          /\ obj' = [obj EXCEPT ![i].st = "closed"] /\ UNCHANGED plan
    /\ UNCHANGED <<fixed, op, nops, target, nlin, me, faults>>

Crash == /\ me.pc # "idle" /\ Fault /\ Quit
         /\ UNCHANGED <<obj, plan, fixed, op, nops, target, nlin, edits>>

Work == \/ SupersedeIncremental \/ Run \/ Prepare \/ Create \/ Body \/ Own \/ Identify \/ Verify
        \/ Stamp \/ Close \/ Complete \/ Recover

Next == \/ Work \/ Meddle \/ Crash
        \/ \E i \in Objs :
             \/ \E r \in Runs, q \in Requests : Begin("save", i, r, q)
             \/ \E c \in {"recover", "abandon"} : Begin(c, i, NoRun, NoReq)

Spec == Init /\ [][Next]_vars

\* A command in progress goes on, and recover is run again, as its report
\* advises, on an objective with an unresolved operation that can be read.
Retry(c) == \E i \in Objs : Unresolved(i) # {} /\ Readable(i) /\ Begin(c, i, NoRun, NoReq)
Fairness == WF_vars(Work) /\ SF_vars(Retry("recover")) /\ SF_vars(Retry("abandon"))

-----------------------------------------------------------------------------
TypeOK == /\ \A i \in Objs : /\ obj[i].st \in {"none", "open", "closed"}
                             /\ obj[i].sup \in 0..MaxObj /\ obj[i].by \in 0..MaxObj
          /\ \A p \in Plans : plan[p].owner \in Objs
          /\ nops \in 0..MaxOps
          /\ \A o, q \in Ops : /\ op[o].st = "prepared" /\ op[q].st = "prepared"
                               /\ op[o].pred = op[q].pred
                               => o = q

\* A stacked objective is superseded last: when its stamp appears the successor
\* is whole, every plan it carries is its own, with the train's lineage, and no
\* published plan was dropped.
SupersededLast ==
    \A i \in Objs : obj[i].by = 0 /\ obj'[i].by # 0 /\ obj[i].stacked /\ edits = 0 =>
        LET s == obj'[i].by
        IN  /\ obj[s].st = "open" /\ obj[s].sup = i /\ obj[s].full
            /\ \A n \in DOMAIN obj[s].proj : obj[s].proj[n] # 0 =>
                 /\ plan[obj[s].proj[n]].owner = s
                 /\ plan[obj[s].proj[n]].lin = obj[s].lin
            /\ \A p \in 1..claimed : plan[p].owner = s

\* A stacked objective never has two live successors, whichever runs replan it,
\* wherever they are interrupted and whatever is closed or re-owned by hand.
OneSuccessor == \A i \in Objs : obj[i].stacked =>
    Cardinality({s \in Objs : obj[s].st = "open" /\ obj[s].sup = i}) <= 1

\* contracts.md, _route_unresolved, _classify_transfer: an operation whose
\* successor is not found did nothing after its prepared record, because creation
\* is the first effect.
AbsenceIsProof ==
    \A o \in Ops : op[o].st = "prepared" /\ op'[o].st = "abandoned" =>
        \A i \in Objs : obj[i].st # "none" => obj[i].run # op[o].run

\* The train's identity never forks: the lineage of a plan is that of a stored
\* objective, also after an interrupted conversion is saved again.
LineageUnforked == \A p \in Plans : plan[p].lin # 0 =>
                     \E i \in Objs : obj[i].st # "none" /\ obj[i].lin = plan[p].lin

\* Nothing is left to conclude, except beyond the depth cap: there the successor
\* cannot be verified, because its journal cannot be read.
Concluded == \A o \in Ops : op[o].st = "prepared" => Cardinality(Ancestors(op[o].pred)) >= Cap
=============================================================================
