---------------------------- MODULE TransferProofs ----------------------------
(***************************************************************************)
(* Theorems about Transfer: whichever sessions replan an objective,        *)
(* wherever they are interrupted and whatever is closed or re-owned by     *)
(* hand, a stacked objective never has two live successors and the train's *)
(* identity never forks; and without interference it is superseded last -  *)
(* for every number of plans, sessions, objectives, operations, changes    *)
(* and crashes, and whatever the sessions ask for.                         *)
(***************************************************************************)
EXTENDS Transfer, FiniteSetTheorems, TLAPS

Req == [stacked : BOOLEAN, proj : Seq(0..N)]

\* What the theorems assume of the constants.
Bounds == /\ N \in Nat \ {0} /\ MaxObj \in Nat \ {0} /\ MaxOps \in Nat /\ NoRun \notin Runs
          /\ Requests \subseteq Req /\ \A q \in Requests : Len(q.proj) > 0

ObjSet  == [st : {"none", "open", "closed"}, run : Runs \cup {NoRun}, sup : 0..MaxObj,
            by : 0..MaxObj, lin : Nat, stacked : BOOLEAN, proj : Seq(0..N), full : BOOLEAN]
PlanSet == [owner : Objs, node : Nat, lin : Nat, pred : 0..N]
OpSet   == [st : {"none", "prepared", "completed", "abandoned"}, pred : 0..MaxObj,
            run : Runs \cup {NoRun}, req : Req, lin : Nat]
Steps   == {"idle", "route", "prepare", "create", "body", "own", "identify", "verify",
            "stamp", "close", "complete"}
MeSet   == [pc : Steps, cmd : {"none", "save", "recover", "abandon"}, obj : 0..MaxObj,
            run : Runs \cup {NoRun}, req : Req, lin : Nat, op : 0..MaxOps, succ : 0..MaxObj,
            at : Nat, now : BOOLEAN]

Fields == /\ obj \in [Objs -> ObjSet] /\ plan \in [Plans -> PlanSet]
          /\ prs \subseteq Plans /\ claimed \in 0..N
          /\ op \in [Ops -> OpSet] /\ nops \in 0..MaxOps
          /\ target \in [Runs -> 0..MaxObj] /\ nlin \in Nat
          /\ me \in MeSet /\ edits \in Nat /\ faults \in Nat

-----------------------------------------------------------------------------
(* The objectives. *)

Exists(i) == i \in Objs /\ obj[i].st # "none"
Prepared(o) == op[o].st = "prepared"

\* A session replans one objective, and what it creates supersedes that one.
Chain == \A i \in Objs : Exists(i) =>
    IF obj[i].run = NoRun THEN obj[i].sup = 0
    ELSE obj[i].sup = target[obj[i].run] /\ Exists(obj[i].sup) /\ obj[i].sup # i

\* A session has one open objective.
Apart == \A s, t \in Objs : /\ obj[s].st = "open" /\ obj[t].st = "open"
                            /\ obj[s].run = obj[t].run /\ obj[s].run # NoRun
                            => s = t

\* An open successor of a stacked objective is the one it is stamped with, or
\* the one that an operation prepared by its session is about.
Reserved == \A s \in Objs :
    obj[s].st = "open" /\ obj[s].run # NoRun /\ obj[obj[s].sup].stacked =>
        \/ obj[obj[s].sup].by = s
        \/ \E o \in Ops : Prepared(o) /\ op[o].pred = obj[s].sup /\ op[o].run = obj[s].run

\* Once a plan is published every objective is stacked and keeps the published
\* prefix.
Keeps(q) == claimed > 0 => /\ q.stacked /\ Len(q.proj) >= claimed
                           /\ \A n \in 1..claimed : q.proj[n] = n
Prefix == \A i \in Objs : Exists(i) => Keeps(obj[i])

-----------------------------------------------------------------------------
(* The operations. *)

Asked(q) == q.req \in Requests /\ Keeps(q.req) /\ (~ q.req.stacked => q.lin = 0)

Journal == \A o \in Ops : op[o].st # "none" =>
    /\ o <= nops /\ op[o].run \in Runs /\ Exists(op[o].pred) /\ obj[op[o].pred].stacked
    /\ target[op[o].run] = op[o].pred /\ Asked(op[o])

OneEach == \A o, q \in Ops : Prepared(o) /\ Prepared(q) /\ op[o].pred = op[q].pred => o = q

\* The successor that an unresolved operation is about has its lineage, and the
\* predecessor is stamped with no other.
Made == \A o \in Ops : Prepared(o) =>
    /\ \A s \in Objs : obj[s].st = "open" /\ obj[s].run = op[o].run => obj[s].lin = op[o].lin
    /\ LET b == obj[op[o].pred].by IN b # 0 => Exists(b) /\ obj[b].run = op[o].run

-----------------------------------------------------------------------------
(* The running command. *)

Having   == {"body", "own", "identify", "verify", "stamp"}
Ending   == {"close", "complete"}
Acting   == {"create"} \cup Having \cup Ending

\* What it replans, for which session.
Aims == /\ me.pc # "idle" => Exists(me.obj)
        /\ me.pc \notin {"idle", "route"} \/ (me.pc = "route" /\ me.cmd = "save") =>
             me.run \in Runs /\ target[me.run] = me.obj /\ me.req \in Requests
        /\ me.pc \in {"route", "prepare"} => me.op = 0 /\ ~ me.now

\* A new operation: nothing on the predecessor is unresolved.
Opens == me.pc = "prepare" =>
    /\ obj[me.obj].stacked /\ obj[me.obj].by = 0 /\ nops < MaxOps /\ Asked(me)
    /\ \A o \in Ops : Prepared(o) => op[o].pred # me.obj

\* The operation it works under.
Holds == me.pc \in Acting =>
    /\ me.op # 0 => /\ Prepared(me.op) /\ ~ me.now
                    /\ op[me.op].pred = me.obj /\ op[me.op].run = me.run
                    /\ op[me.op].req = me.req /\ op[me.op].lin = me.lin
    /\ me.op = 0 => me.pc # "complete" /\ (me.pc # "close" => ~ obj[me.obj].stacked)
    /\ me.now => me.pc \notin {"own", "identify", "verify"}
    /\ me.pc # "close" => Keeps(me.req)
    /\ me.pc \in {"own", "identify"} => me.at \in DOMAIN me.req.proj
    /\ me.pc \in {"create", "body"} => me.at = 1

\* The successor it has.
Tip(s) == /\ Exists(s) /\ s # me.obj /\ obj[s].run = me.run
          /\ obj[s].lin = me.lin
          /\ edits = 0 => obj[s].st = "open"
          /\ \A t \in Objs : obj[t].st = "open" /\ obj[t].run = me.run => t = s
Carries(s) == /\ \A n \in DOMAIN obj[s].proj : obj[s].proj[n] # 0 =>
                   /\ plan[obj[s].proj[n]].owner = s
                   /\ plan[obj[s].proj[n]].lin = obj[s].lin
              /\ \A p \in 1..claimed : plan[p].owner = s
Has == /\ me.pc \in Having \/ (me.pc \in Ending /\ me.op # 0) => Tip(me.succ)
       /\ me.pc \in {"own", "identify", "verify", "stamp"} => obj[me.succ].full
       /\ me.pc = "create" /\ ~ me.now =>
            \A s \in Objs : obj[s].st = "open" /\ obj[s].run = me.run => obj[s].lin = me.lin
       /\ me.pc \in Ending /\ me.op # 0 => obj[me.obj].by = me.succ
       /\ me.pc = "stamp" /\ me.op # 0 /\ edits = 0 => Carries(me.succ)

\* The inductive invariant.
Store   == Chain /\ Apart /\ Reserved /\ Prefix /\ Journal /\ OneEach /\ Made
Command == Aims /\ Opens /\ Holds /\ Has
Inv     == Fields /\ Store /\ LineageUnforked /\ Command

-----------------------------------------------------------------------------
(* Records. *)

LEMMA IdleTyped ==
    ASSUME Bounds
    PROVE  Idle \in MeSet /\ Idle.op = 0 /\ ~ Idle.now
<1>1. <<>> \in Seq(0..N)
  OBVIOUS
<1>2. NoReq \in Req
  BY <1>1 DEF NoReq, Req
<1>3. 0 \in 0..MaxObj /\ 0 \in 0..MaxOps
  BY DEF Bounds
<1> QED
  BY <1>2, <1>3, SMTT(60) DEF Idle, MeSet, Steps

\* What a step of the command leaves alone.
Same(m) == /\ m.cmd = me.cmd /\ m.obj = me.obj /\ m.run = me.run /\ m.req = me.req
           /\ m.op = me.op /\ m.now = me.now

LEMMA Requested ==
    ASSUME Bounds
    PROVE  /\ \A q \in Requests : q \in Req
           /\ \A i \in Objs : i \in 0..MaxObj
           /\ \A r \in Runs : r \in Runs \cup {NoRun}
  BY DEF Bounds, Objs

\* A place of a projection.
LEMMA Place ==
    ASSUME NEW S, NEW s \in Seq(S), NEW n \in DOMAIN s
    PROVE  n \in Nat /\ n \in 1..Len(s) /\ s[n] \in S
  OBVIOUS

LEMMA Element ==
    ASSUME NEW q \in Req, NEW n \in DOMAIN q.proj
    PROVE  n \in Nat /\ n \in 1..Len(q.proj) /\ q.proj[n] \in 0..N
<1>1. q.proj \in Seq(0..N)
  BY DEF Req
<1> QED
  BY <1>1, Place

LEMMA Quits ==
    ASSUME Quit
    PROVE  me' = Idle /\ me'.pc = "idle" /\ me'.op = 0 /\ ~ me'.now
  BY DEF Quit, Idle

\* A write to one objective.
LEMMA ObjWrites ==
    ASSUME NEW x \in ObjSet, NEW s \in 0..MaxObj, NEW y
    PROVE  /\ y = [x EXCEPT !.full = TRUE] =>
                /\ y \in ObjSet /\ y.st = x.st /\ y.run = x.run /\ y.sup = x.sup /\ y.by = x.by
                /\ y.lin = x.lin /\ y.stacked = x.stacked /\ y.proj = x.proj /\ y.full
           /\ y = [x EXCEPT !.by = s] =>
                /\ y \in ObjSet /\ y.st = x.st /\ y.run = x.run /\ y.sup = x.sup /\ y.by = s
                /\ y.lin = x.lin /\ y.stacked = x.stacked /\ y.proj = x.proj /\ y.full = x.full
           /\ y = [x EXCEPT !.st = "closed"] =>
                /\ y \in ObjSet /\ y.st = "closed" /\ y.run = x.run /\ y.sup = x.sup
                /\ y.by = x.by /\ y.lin = x.lin /\ y.stacked = x.stacked /\ y.proj = x.proj
                /\ y.full = x.full
  BY ZenonT(60) DEF ObjSet

\* What a header write leaves alone.
Steady == \A i \in Objs :
    /\ obj'[i].run = obj[i].run /\ obj'[i].sup = obj[i].sup /\ obj'[i].lin = obj[i].lin
    /\ obj'[i].stacked = obj[i].stacked /\ obj'[i].proj = obj[i].proj
    /\ obj'[i].st = "none" <=> obj[i].st = "none"
    /\ obj'[i].st = "open" => obj[i].st = "open"

LEMMA ObjSteps ==
    ASSUME obj \in [Objs -> ObjSet], NEW k \in Objs, NEW s \in 0..MaxObj
    PROVE  /\ obj' = [obj EXCEPT ![k].full = TRUE] =>
                /\ obj' \in [Objs -> ObjSet] /\ Steady /\ obj'[k].full
                /\ \A i \in Objs : obj'[i].st = obj[i].st /\ obj'[i].by = obj[i].by
                /\ \A i \in Objs : obj[i].full => obj'[i].full
           /\ obj' = [obj EXCEPT ![k].by = s] =>
                /\ obj' \in [Objs -> ObjSet] /\ Steady /\ obj'[k].by = s
                /\ \A i \in Objs : obj'[i].st = obj[i].st /\ obj'[i].full = obj[i].full
                /\ \A i \in Objs : i # k => obj'[i] = obj[i]
           /\ obj' = [obj EXCEPT ![k].st = "closed"] /\ obj[k].st # "none" =>
                /\ obj' \in [Objs -> ObjSet] /\ Steady
                /\ \A i \in Objs : obj'[i].by = obj[i].by /\ obj'[i].full = obj[i].full
                /\ \A i \in Objs : i # k => obj'[i] = obj[i]
<1>1. ASSUME NEW y, obj' = [obj EXCEPT ![k] = y], y \in ObjSet
      PROVE  /\ obj' \in [Objs -> ObjSet] /\ obj'[k] = y
             /\ \A i \in Objs : i # k => obj'[i] = obj[i]
  BY <1>1
<1>2. obj[k] \in ObjSet
  OBVIOUS
<1>3. ASSUME obj' = [obj EXCEPT ![k].full = TRUE]
      PROVE  /\ obj' \in [Objs -> ObjSet] /\ Steady /\ obj'[k].full
             /\ \A i \in Objs : obj'[i].st = obj[i].st /\ obj'[i].by = obj[i].by
             /\ \A i \in Objs : obj[i].full => obj'[i].full
  <2>0. PICK y : y = [obj[k] EXCEPT !.full = TRUE]
    OBVIOUS
  <2>1. obj' = [obj EXCEPT ![k] = y]
    BY <1>3, <2>0, Zenon
  <2>2. /\ y \in ObjSet /\ y.st = obj[k].st /\ y.run = obj[k].run /\ y.sup = obj[k].sup
        /\ y.by = obj[k].by /\ y.lin = obj[k].lin /\ y.stacked = obj[k].stacked
        /\ y.proj = obj[k].proj /\ y.full
    BY <1>2, <2>0, ObjWrites, SMTT(60)
  <2>3. /\ obj' \in [Objs -> ObjSet] /\ obj'[k] = y
        /\ \A i \in Objs : i # k => obj'[i] = obj[i]
    BY <1>1, <2>1, <2>2, Zenon
  <2> QED
    BY <2>2, <2>3 DEF Steady
<1>4. ASSUME obj' = [obj EXCEPT ![k].by = s]
      PROVE  /\ obj' \in [Objs -> ObjSet] /\ Steady /\ obj'[k].by = s
             /\ \A i \in Objs : obj'[i].st = obj[i].st /\ obj'[i].full = obj[i].full
             /\ \A i \in Objs : i # k => obj'[i] = obj[i]
  <2>0. PICK y : y = [obj[k] EXCEPT !.by = s]
    OBVIOUS
  <2>1. obj' = [obj EXCEPT ![k] = y]
    BY <1>4, <2>0, Zenon
  <2>2. /\ y \in ObjSet /\ y.st = obj[k].st /\ y.run = obj[k].run /\ y.sup = obj[k].sup
        /\ y.by = s /\ y.lin = obj[k].lin /\ y.stacked = obj[k].stacked
        /\ y.proj = obj[k].proj /\ y.full = obj[k].full
    BY <1>2, <2>0, ObjWrites, SMTT(60)
  <2>3. /\ obj' \in [Objs -> ObjSet] /\ obj'[k] = y
        /\ \A i \in Objs : i # k => obj'[i] = obj[i]
    BY <1>1, <2>1, <2>2, Zenon
  <2> QED
    BY <2>2, <2>3 DEF Steady
<1>5. ASSUME obj' = [obj EXCEPT ![k].st = "closed"], obj[k].st # "none"
      PROVE  /\ obj' \in [Objs -> ObjSet] /\ Steady
             /\ \A i \in Objs : obj'[i].by = obj[i].by /\ obj'[i].full = obj[i].full
             /\ \A i \in Objs : i # k => obj'[i] = obj[i]
  <2>0. PICK y : y = [obj[k] EXCEPT !.st = "closed"]
    OBVIOUS
  <2>1. obj' = [obj EXCEPT ![k] = y]
    BY <1>5, <2>0, Zenon
  <2>2. /\ y \in ObjSet /\ y.st = "closed" /\ y.run = obj[k].run /\ y.sup = obj[k].sup
        /\ y.by = obj[k].by /\ y.lin = obj[k].lin /\ y.stacked = obj[k].stacked
        /\ y.proj = obj[k].proj /\ y.full = obj[k].full
    BY <1>2, <2>0, ObjWrites, SMTT(60)
  <2>3. /\ obj' \in [Objs -> ObjSet] /\ obj'[k] = y
        /\ \A i \in Objs : i # k => obj'[i] = obj[i]
    BY <1>1, <2>1, <2>2, Zenon
  <2> QED
    BY <1>5, <2>2, <2>3 DEF Steady
<1> QED
  BY <1>3, <1>4, <1>5

-----------------------------------------------------------------------------
(* Steps that leave most of the store alone. *)

Calm == UNCHANGED <<op, target, claimed, prs>> /\ nops' \in Nat /\ nops' >= nops
ByStays == \A i \in Objs : obj'[i].by = obj[i].by

LEMMA SteadyStore ==
    ASSUME Bounds, Fields, Store, Steady, ByStays, Calm
    PROVE  Store'
<1>0. /\ op' = op /\ target' = target /\ claimed' = claimed
      /\ \A o \in Ops : Prepared(o)' <=> Prepared(o)
      /\ \A i : Exists(i)' <=> Exists(i)
  BY DEF Calm, Steady, Prepared, Exists
<1>1. Chain'
  BY <1>0 DEF Store, Chain, Steady
<1>2. Apart'
  BY DEF Store, Apart, Steady
<1>3. Reserved'
  <2> SUFFICES ASSUME NEW s \in Objs, (obj'[s].st = "open"), (obj'[s].run # NoRun),
                      (obj'[obj'[s].sup].stacked)
               PROVE  \/ obj'[obj'[s].sup].by = s
                      \/ \E o \in Ops : /\ Prepared(o)' /\ op'[o].pred = obj'[s].sup
                                        /\ op'[o].run = obj'[s].run
    BY DEF Reserved
  <2>1. /\ obj[s].st = "open" /\ obj[s].run # NoRun /\ obj'[s].sup = obj[s].sup
        /\ obj'[s].run = obj[s].run
    BY DEF Steady
  <2>2. obj[s].sup \in Objs
    BY <2>1 DEF Store, Chain, Exists
  <2>3. /\ obj'[obj[s].sup].stacked = obj[obj[s].sup].stacked
        /\ obj'[obj[s].sup].by = obj[obj[s].sup].by
    BY <2>2 DEF Steady, ByStays
  <2> QED
    BY <1>0, <2>1, <2>3 DEF Store, Reserved
<1>4. Prefix'
  BY <1>0 DEF Store, Prefix, Keeps, Steady
<1>5. Journal'
  <2> SUFFICES ASSUME NEW o \in Ops, op[o].st # "none"
               PROVE  /\ o <= nops' /\ op[o].run \in Runs /\ Exists(op[o].pred)'
                      /\ obj'[op[o].pred].stacked /\ target[op[o].run] = op[o].pred
                      /\ Asked(op[o])'
    BY <1>0 DEF Journal
  <2>1. /\ o <= nops /\ op[o].run \in Runs /\ Exists(op[o].pred)
        /\ obj[op[o].pred].stacked /\ target[op[o].run] = op[o].pred /\ Asked(op[o])
    BY DEF Store, Journal
  <2>2. Exists(op[o].pred)' /\ obj'[op[o].pred].stacked
    BY <1>0, <2>1 DEF Exists, Steady
  <2>3. Asked(op[o])'
    BY <1>0, <2>1 DEF Asked, Keeps
  <2>4. o <= nops'
    BY <2>1 DEF Calm, Fields, Ops
  <2> QED
    BY <2>1, <2>2, <2>3, <2>4
<1>6. OneEach'
  BY <1>0 DEF Store, OneEach
<1>7. Made'
  <2> SUFFICES ASSUME NEW o \in Ops, Prepared(o), NEW b, b = obj'[op[o].pred].by
               PROVE  /\ \A s \in Objs : obj'[s].st = "open" /\ obj'[s].run = op[o].run
                                         => obj'[s].lin = op[o].lin
                      /\ b # 0 => Exists(b)' /\ obj'[b].run = op[o].run
    BY <1>0 DEF Made, Exists
  <2>1. op[o].pred \in Objs
    BY DEF Store, Journal, Exists, Prepared
  <2>2. \A s \in Objs : obj'[s].st = "open" /\ obj'[s].run = op[o].run
                        => obj'[s].lin = op[o].lin
    BY DEF Store, Made, Steady
  <2>3. b = obj[op[o].pred].by
    BY <2>1 DEF ByStays
  <2>4. ASSUME b # 0 PROVE Exists(b)' /\ obj'[b].run = op[o].run
    <3>1. Exists(b) /\ obj[b].run = op[o].run
      BY <2>3, <2>4 DEF Store, Made
    <3> QED
      BY <1>0, <3>1 DEF Exists, Steady
  <2> QED
    BY <2>2, <2>4
<1> QED
  BY <1>1, <1>2, <1>3, <1>4, <1>5, <1>6, <1>7 DEF Store

\* Nothing stored changes.
LEMMA StoreStays ==
    ASSUME Bounds, Fields, Store, UNCHANGED <<obj, op, target, claimed, prs, nops>>
    PROVE  Store'
<1>1. Steady /\ ByStays
  BY DEF Steady, ByStays
<1>2. Calm
  BY DEF Calm, Fields
<1> QED
  BY <1>1, <1>2, SteadyStore

\* Objectives stay, with their lineage.
Lasting == \A i \in Objs : obj[i].st # "none" => obj'[i].st # "none" /\ obj'[i].lin = obj[i].lin

LEMMA LineageStays ==
    ASSUME LineageUnforked, Lasting, \A p \in Plans : plan'[p].lin = plan[p].lin
    PROVE  LineageUnforked'
  BY DEF LineageUnforked, Lasting

\* A command that has ended.
LEMMA Quiet ==
    ASSUME me'.pc = "idle"
    PROVE  Command'
  BY DEF Command, Aims, Opens, Holds, Has, Acting, Having, Ending

LEMMA Ended ==
    ASSUME Bounds, me \in MeSet, Quit
    PROVE  me' \in MeSet /\ Command'
<1>1. me' \in MeSet
  BY IdleTyped DEF Quit
<1>2. Command'
  BY Quits, Quiet
<1> QED
  BY <1>1, <1>2

-----------------------------------------------------------------------------
(* One lemma per action. *)

\* The step of a command that stores nothing.
Silent == UNCHANGED <<obj, plan, prs, claimed, op, nops, target, nlin>>

LEMMA Silently ==
    ASSUME Bounds, Inv, Silent, me' \in MeSet, edits' \in Nat, faults' \in Nat, Command'
    PROVE  Inv'
<1>1. Fields'
  BY DEF Inv, Fields, Silent
<1>2. Store'
  BY StoreStays DEF Inv, Silent
<1>3. Lasting /\ \A p \in Plans : plan'[p].lin = plan[p].lin
  BY DEF Silent, Lasting
<1>4. LineageUnforked'
  BY <1>3, LineageStays DEF Inv
<1> QED
  BY <1>1, <1>2, <1>4 DEF Inv

LEMMA BeginInv ==
    ASSUME Bounds, Inv, NEW c \in {"save", "recover", "abandon"}, NEW i \in Objs,
           NEW r \in Runs \cup {NoRun}, NEW q \in Req, Begin(c, i, r, q),
           c = "save" => r \in Runs /\ q \in Requests
    PROVE  Inv'
<1>1. /\ me.pc = "idle" /\ Exists(i)
      /\ obj' = obj /\ plan' = plan /\ prs' = prs /\ claimed' = claimed /\ op' = op
      /\ nops' = nops /\ nlin' = nlin /\ edits' = edits /\ faults' = faults
      /\ me' = [Idle EXCEPT !.pc = "route", !.cmd = c, !.obj = i, !.run = r, !.req = q]
  BY DEF Begin, Exists, fixed
<1>2. /\ me' \in MeSet /\ me'.pc = "route" /\ me'.cmd = c /\ me'.obj = i /\ me'.run = r
      /\ me'.req = q /\ me'.op = 0 /\ ~ me'.now
  <2>1. 0 \in 0..MaxObj /\ 0 \in 0..MaxOps /\ i \in 0..MaxObj
    BY DEF Bounds, Objs
  <2>2. Idle \in MeSet /\ Idle.op = 0 /\ ~ Idle.now
    BY IdleTyped
  <2>3. me' = [Idle EXCEPT !.pc = "route", !.cmd = c, !.obj = i, !.run = r, !.req = q]
    BY <1>1
  <2>4. PICK z \in MeSet : z = Idle
    BY <2>2
  <2>5. me' = [z EXCEPT !.pc = "route", !.cmd = c, !.obj = i, !.run = r, !.req = q]
    BY <2>3, <2>4
  <2>6. /\ me' \in MeSet /\ me'.pc = "route" /\ me'.cmd = c /\ me'.obj = i /\ me'.run = r
        /\ me'.req = q /\ me'.op = z.op /\ me'.now = z.now
    BY <2>1, <2>5 DEF MeSet, Steps
  <2> QED
    BY <2>2, <2>4, <2>6
<1>3. /\ target' \in [Runs -> 0..MaxObj]
      /\ c = "save" => target'[r] = i
      /\ \A x \in Runs : target[x] # 0 => target'[x] = target[x]
  <2>1. CASE c = "save"
    BY <2>1 DEF Begin, Inv, Fields, Bounds, Objs
  <2>2. CASE c # "save"
    BY <2>2 DEF Begin, Inv, Fields
  <2> QED
    BY <2>1, <2>2
<1>4. Fields'
  BY <1>1, <1>2, <1>3 DEF Inv, Fields
<1>5. /\ \A o \in Ops : Prepared(o)' <=> Prepared(o)
      /\ \A x : Exists(x)' <=> Exists(x)
  BY <1>1 DEF Prepared, Exists
<1>6. Chain'
  <2> SUFFICES ASSUME NEW x \in Objs, Exists(x)
               PROVE  IF obj[x].run = NoRun THEN obj[x].sup = 0
                      ELSE /\ obj[x].sup = target'[obj[x].run] /\ Exists(obj[x].sup)
                           /\ obj[x].sup # x
    BY <1>1, <1>5 DEF Chain
  <2>1. IF obj[x].run = NoRun THEN obj[x].sup = 0
        ELSE obj[x].sup = target[obj[x].run] /\ Exists(obj[x].sup) /\ obj[x].sup # x
    BY DEF Inv, Store, Chain
  <2>2. obj[x].run \in Runs \cup {NoRun}
    BY DEF Inv, Fields, ObjSet
  <2>3. Exists(obj[x].sup) => obj[x].sup # 0
    BY SMTT(60) DEF Exists, Objs, Bounds
  <2> QED
    BY <1>3, <2>1, <2>2, <2>3
<1>7. Apart' /\ Reserved' /\ Prefix' /\ OneEach' /\ Made'
  <2>1. Apart /\ Reserved /\ Prefix /\ OneEach /\ Made
    BY DEF Inv, Store
  <2> QED
    BY <1>1, <1>5, <2>1 DEF Apart, Reserved, Prefix, Keeps, OneEach, Made
<1>8. Journal'
  <2> SUFFICES ASSUME NEW o \in Ops, op[o].st # "none"
               PROVE  /\ o <= nops /\ op[o].run \in Runs /\ Exists(op[o].pred)
                      /\ obj[op[o].pred].stacked /\ target'[op[o].run] = op[o].pred
                      /\ Asked(op[o])
    BY <1>1, <1>5 DEF Journal, Asked, Keeps
  <2>1. /\ o <= nops /\ op[o].run \in Runs /\ Exists(op[o].pred)
        /\ obj[op[o].pred].stacked /\ target[op[o].run] = op[o].pred /\ Asked(op[o])
    BY DEF Inv, Store, Journal
  <2>2. op[o].pred # 0
    BY <2>1 DEF Exists, Objs, Bounds
  <2> QED
    BY <1>3, <2>1, <2>2
<1>9. LineageUnforked'
  BY <1>1 DEF Inv, LineageUnforked
<1>10. Command'
  <2>1. Aims'
    BY <1>1, <1>2, <1>3, <1>5 DEF Aims
  <2>2. Opens' /\ Holds' /\ Has'
    BY <1>2 DEF Opens, Holds, Has, Acting, Having, Ending
  <2> QED
    BY <2>1, <2>2 DEF Command
<1> QED
  BY <1>4, <1>6, <1>7, <1>8, <1>9, <1>10 DEF Inv, Store

\* A command that rolls an unresolved operation forward.
LEMMA RollsForward ==
    ASSUME Bounds, Inv, Silent, edits' = edits, faults' = faults, NEW o \in Ops, Prepared(o),
           Execute(op[o].pred, op[o].run, op[o].req, op[o].lin, o, FALSE)
    PROVE  Inv'
<1>1. /\ op[o].run \in Runs /\ Exists(op[o].pred) /\ obj[op[o].pred].stacked
      /\ target[op[o].run] = op[o].pred /\ Asked(op[o])
  BY DEF Inv, Store, Journal, Prepared
<1>2. /\ op[o].pred \in Objs /\ op[o].req \in Requests /\ op[o].lin \in Nat /\ o \in 0..MaxOps
      /\ o # 0
  BY <1>1 DEF Exists, Asked, Inv, Fields, OpSet, Ops, Bounds
<1>3. /\ me' \in MeSet /\ me'.pc = "create" /\ me'.obj = op[o].pred
      /\ me'.run = op[o].run /\ me'.req = op[o].req /\ me'.lin = op[o].lin /\ me'.op = o
      /\ me'.now = FALSE /\ me'.at = 1
  <2>1. me \in MeSet /\ FALSE \in BOOLEAN
    BY DEF Inv, Fields
  <2>2. op[o].run \in Runs
    BY <1>1
  <2> QED
    BY <1>2, <2>1, <2>2, Requested DEF Execute, MeSet, Steps, Objs
<1>4. /\ obj' = obj /\ op' = op /\ target' = target /\ claimed' = claimed /\ nops' = nops
  BY DEF Silent
<1>5. Aims'
  BY <1>1, <1>2, <1>3, <1>4 DEF Aims, Exists
<1>6. Opens'
  BY <1>3 DEF Opens
<1>7. Holds'
  BY <1>1, <1>2, <1>3, <1>4 DEF Holds, Prepared, Asked, Keeps, Acting, Having, Ending
<1>8. Has'
  <2>1. \A s \in Objs : obj[s].st = "open" /\ obj[s].run = op[o].run => obj[s].lin = op[o].lin
    BY DEF Inv, Store, Made
  <2> QED
    BY <1>3, <1>4, <2>1 DEF Has, Having, Ending
<1> QED
  BY <1>3, <1>5, <1>6, <1>7, <1>8, Silently DEF Command, Inv, Fields

\* An operation is concluded when its session has no open successor, or the
\* one it is stamped with.
LEMMA Concludes ==
    ASSUME Bounds, Inv, UNCHANGED <<obj, plan, prs, claimed, nops, target, nlin, edits, faults>>,
           NEW o \in Ops, Prepared(o), NEW c \in {"completed", "abandoned"},
           \A s \in Objs : obj[s].st = "open" /\ obj[s].run = op[o].run
                           => obj[op[o].pred].by = s,
           op' = [op EXCEPT ![o].st = c], me' \in MeSet, Command'
    PROVE  Inv'
<1>1. /\ obj' = obj /\ target' = target /\ claimed' = claimed /\ nops' = nops /\ plan' = plan
      /\ \A x : Exists(x)' <=> Exists(x)
  BY DEF Exists
<1>2. /\ op' \in [Ops -> OpSet] /\ op'[o].st = c
      /\ \A q \in Ops : /\ op'[q].pred = op[q].pred /\ op'[q].run = op[q].run
                        /\ op'[q].req = op[q].req /\ op'[q].lin = op[q].lin
                        /\ q # o => op'[q] = op[q]
  <2>1. op \in [Ops -> OpSet] /\ op[o] \in OpSet
    BY DEF Inv, Fields
  <2>2. PICK y : y = [op[o] EXCEPT !.st = c]
    OBVIOUS
  <2>3. /\ y \in OpSet /\ y.st = c /\ y.pred = op[o].pred /\ y.run = op[o].run
        /\ y.req = op[o].req /\ y.lin = op[o].lin
    BY <2>1, <2>2 DEF OpSet
  <2>4. op' = [op EXCEPT ![o] = y]
    BY <2>2, Zenon
  <2> QED
    BY <2>1, <2>3, <2>4
<1>3. \A q \in Ops : /\ Prepared(q)' <=> Prepared(q) /\ q # o
                     /\ op'[q].st # "none" => op[q].st # "none"
  BY <1>2 DEF Prepared
<1>4. Chain' /\ Apart' /\ Prefix' /\ LineageUnforked'
  <2>1. Chain /\ Apart /\ Prefix /\ LineageUnforked
    BY DEF Inv, Store
  <2> QED
    BY <1>1, <2>1 DEF Chain, Apart, Prefix, Keeps, LineageUnforked
<1>5. Reserved'
  <2> SUFFICES ASSUME NEW s \in Objs, obj[s].st = "open", obj[s].run # NoRun,
                      obj[obj[s].sup].stacked, obj[obj[s].sup].by # s
               PROVE  \E q \in Ops : /\ Prepared(q)' /\ op'[q].pred = obj[s].sup
                                     /\ op'[q].run = obj[s].run
    BY <1>1 DEF Reserved
  <2>1. PICK q \in Ops : Prepared(q) /\ op[q].pred = obj[s].sup /\ op[q].run = obj[s].run
    BY DEF Inv, Store, Reserved
  <2>2. q # o
    BY <2>1
  <2> QED
    BY <1>2, <1>3, <2>1, <2>2
<1>6. Journal'
  <2> SUFFICES ASSUME NEW q \in Ops, op[q].st # "none"
               PROVE  /\ q <= nops /\ op[q].run \in Runs /\ Exists(op[q].pred)
                      /\ obj[op[q].pred].stacked /\ target[op[q].run] = op[q].pred
                      /\ op[q].req \in Requests /\ Keeps(op[q].req)
                      /\ (~ op[q].req.stacked => op[q].lin = 0)
    BY <1>1, <1>2, <1>3 DEF Journal, Asked, Keeps
  <2> QED
    BY DEF Inv, Store, Journal, Asked
<1>7. OneEach'
  <2>1. OneEach
    BY DEF Inv, Store
  <2> QED
    BY <1>2, <1>3, <2>1 DEF OneEach
<1>8. Made'
  <2>1. Made
    BY DEF Inv, Store
  <2> QED
    BY <1>1, <1>2, <1>3, <2>1 DEF Made
<1>9. Fields'
  BY <1>2 DEF Inv, Fields
<1> QED
  BY <1>4, <1>5, <1>6, <1>7, <1>8, <1>9 DEF Inv, Store

LEMMA SupersedeIncrementalInv ==
    ASSUME Bounds, Inv, SupersedeIncremental
    PROVE  Inv'
<1>0. /\ me.pc = "route" /\ me.cmd = "save" /\ ~ obj[me.obj].stacked /\ Silent
      /\ edits' = edits /\ faults' = faults
  BY DEF SupersedeIncremental, Silent, fixed
<1>1. me \in MeSet /\ edits \in Nat /\ faults \in Nat
  BY DEF Inv, Fields
<1>2. Quit \/ Execute(me.obj, me.run, me.req, 0, 0, TRUE)
  BY DEF SupersedeIncremental
<1>3. CASE Quit
  BY <1>0, <1>1, <1>3, Ended, Silently
<1>4. CASE Execute(me.obj, me.run, me.req, 0, 0, TRUE)
  <2>1. Exists(me.obj) /\ me.run \in Runs /\ target[me.run] = me.obj /\ me.req \in Requests
    BY <1>0 DEF Inv, Command, Aims
  <2>2. me.obj \in Objs /\ 0 \in Nat /\ 0 \in 0..MaxOps /\ TRUE \in BOOLEAN
    BY <2>1 DEF Exists, Bounds
  <2>3. /\ me' \in MeSet /\ me'.pc = "create" /\ me'.cmd = me.cmd /\ me'.obj = me.obj
        /\ me'.run = me.run /\ me'.req = me.req /\ me'.lin = 0 /\ me'.op = 0
        /\ me'.now = TRUE /\ me'.at = 1 /\ me'.succ = me.succ
    BY <1>1, <1>4, <2>1, <2>2, Requested, ZenonT(60) DEF Execute, MeSet, Steps, Objs
  <2>4. obj' = obj /\ claimed' = claimed /\ target' = target
    BY <1>0 DEF Silent
  <2>5. Aims'
    BY <2>1, <2>3, <2>4 DEF Aims, Exists
  <2>6. Keeps(me.req)
    <3>1. Keeps(obj[me.obj])
      BY <2>1 DEF Inv, Store, Prefix, Exists
    <3> QED
      BY <1>0, <3>1 DEF Keeps
  <2>7. Opens' /\ Holds' /\ Has'
    <3>1. Opens' /\ Has'
      BY <2>3 DEF Opens, Has, Having, Ending
    <3>2. Holds'
      BY <1>0, <2>3, <2>4, <2>6 DEF Holds, Keeps, Acting, Having, Ending
    <3> QED
      BY <3>1, <3>2
  <2> QED
    BY <1>0, <1>1, <2>3, <2>5, <2>7, Silently DEF Command
<1> QED
  BY <1>2, <1>3, <1>4

\* What a request that passed the preflight keeps.
LEMMA PlanKeeps ==
    ASSUME Bounds, Inv, NEW i \in Objs, Exists(i), NEW q \in Req, PlanFromStacked(i, q)
    PROVE  Keeps(q)
<1>1. Keeps(obj[i])
  BY DEF Inv, Store, Prefix
<1>2. SUFFICES ASSUME claimed > 0
               PROVE  q.stacked /\ Len(q.proj) >= claimed /\ \A n \in 1..claimed : q.proj[n] = n
  BY DEF Keeps
<1>3. claimed \in Nat /\ obj[i].proj \in Seq(0..N)
  BY DEF Inv, Fields, ObjSet, Bounds
<1>4. Len(obj[i].proj) >= claimed /\ \A n \in 1..claimed : obj[i].proj[n] = n
  BY <1>1, <1>2 DEF Keeps
<1>5. 1 \in Claims(i)
  <2>1. 1 \in DOMAIN obj[i].proj /\ obj[i].proj[1] = 1
    BY <1>2, <1>3, <1>4
  <2> QED
    BY <1>2, <1>3, <2>1 DEF Claims, Carried
<1>6. /\ q.stacked /\ Len(q.proj) >= claimed
      /\ \A n \in 1..claimed : q.proj[n] = obj[i].proj[n]
  BY <1>5 DEF PlanFromStacked
<1> QED
  BY <1>4, <1>6

\* An objective is one of its own ancestors.
LEMMA OwnAncestor ==
    ASSUME NEW i \in Objs, Unresolved(i) = {}
    PROVE  \A o \in Ops : Prepared(o) => op[o].pred # i
<1>1. i \in Ancestors(i)
  BY DEF Ancestors
<1> QED
  BY <1>1 DEF Unresolved, Prepared

LEMMA LineageTyped ==
    ASSUME Bounds, Inv, NEW i \in Objs, NEW r \in Runs
    PROVE  /\ IncrementalLineage(i, r) \in Nat
           /\ \A s \in Objs : obj[s].st = "open" /\ obj[s].run = r
                              => obj[s].lin = IncrementalLineage(i, r)
<1>1. /\ \A s \in Objs : obj[s].lin \in Nat
      /\ nlin \in Nat /\ r # NoRun
  BY DEF Inv, Fields, ObjSet, Bounds
<1>2. CASE Find(r) = {}
  <2>1. IncrementalLineage(i, r) \in Nat
    BY <1>1, <1>2 DEF IncrementalLineage
  <2> QED
    BY <1>2, <2>1 DEF Find
<1>3. CASE Find(r) # {}
  <2>1. PICK t : t = CHOOSE s \in Find(r) : TRUE
    OBVIOUS
  <2>2. t \in Find(r)
    BY <1>3, <2>1
  <2>3. IncrementalLineage(i, r) = obj[t].lin
    BY <1>3, <2>1 DEF IncrementalLineage
  <2>4. t \in Objs /\ obj[t].st = "open" /\ obj[t].run = r
    BY <2>2 DEF Find
  <2>5. \A s \in Objs : obj[s].st = "open" /\ obj[s].run = r => s = t
    BY <1>1, <2>4 DEF Inv, Store, Apart
  <2> QED
    BY <1>1, <2>3, <2>4, <2>5
<1> QED
  BY <1>2, <1>3

\* An incremental objective is replanned without a journal.
LEMMA Direct ==
    ASSUME Bounds, Inv, Silent, edits' = edits, faults' = faults, me.pc = "route",
           me.cmd = "save", ~ obj[me.obj].stacked, me.req.stacked,
           Execute(me.obj, me.run, me.req, IncrementalLineage(me.obj, me.run), 0, FALSE)
    PROVE  Inv'
<1>1. Exists(me.obj) /\ me.run \in Runs /\ target[me.run] = me.obj /\ me.req \in Requests
  BY DEF Inv, Command, Aims
<1>2. me.obj \in Objs /\ 0 \in 0..MaxOps /\ me \in MeSet
  BY <1>1 DEF Exists, Bounds, Inv, Fields
<1>3. PICK n : n = IncrementalLineage(me.obj, me.run)
  OBVIOUS
<1>4. /\ n \in Nat
      /\ \A s \in Objs : obj[s].st = "open" /\ obj[s].run = me.run => obj[s].lin = n
  BY <1>1, <1>2, <1>3, LineageTyped
<1>5. me' = [me EXCEPT !.pc = "create", !.obj = me.obj, !.run = me.run, !.req = me.req,
                       !.lin = n, !.op = 0, !.at = 1, !.now = FALSE]
  BY <1>3 DEF Execute
<1>6. /\ me' \in MeSet /\ me'.pc = "create" /\ me'.cmd = me.cmd /\ me'.obj = me.obj
      /\ me'.run = me.run /\ me'.req = me.req /\ me'.lin = n /\ me'.op = 0
      /\ me'.now = FALSE /\ me'.at = 1 /\ me'.succ = me.succ
  BY <1>1, <1>2, <1>4, <1>5, Requested DEF MeSet, Steps, Objs
<1>7. obj' = obj /\ claimed' = claimed /\ target' = target
  BY DEF Silent
<1>8. Aims'
  BY <1>1, <1>6, <1>7 DEF Aims, Exists
<1>9. Keeps(me.req)
  <2>1. Keeps(obj[me.obj])
    BY <1>1 DEF Inv, Store, Prefix, Exists
  <2> QED
    BY <2>1 DEF Keeps
<1>10. Opens'
  BY <1>6 DEF Opens
<1>11. Holds'
  BY <1>6, <1>7, <1>9 DEF Holds, Keeps, Acting, Having, Ending
<1>12. Has'
  BY <1>4, <1>6, <1>7 DEF Has, Having, Ending
<1> QED
  BY <1>6, <1>8, <1>10, <1>11, <1>12, Silently DEF Command, Inv, Fields

\* A stacked one is about to open an operation.
LEMMA Opening ==
    ASSUME Bounds, Inv, Silent, edits' = edits, faults' = faults, me.pc = "route",
           me.cmd = "save", obj[me.obj].stacked, obj[me.obj].by = 0, nops < MaxOps,
           Unresolved(me.obj) = {}, PlanFromStacked(me.obj, me.req),
           me' = [me EXCEPT !.pc = "prepare",
                            !.lin = IF me.req.stacked THEN obj[me.obj].lin ELSE 0]
    PROVE  Inv'
<1>1. /\ Exists(me.obj) /\ me.run \in Runs /\ target[me.run] = me.obj /\ me.req \in Requests
      /\ me.op = 0 /\ ~ me.now
  BY DEF Inv, Command, Aims
<1>2. me.obj \in Objs /\ me \in MeSet /\ obj[me.obj].lin \in Nat /\ "prepare" \in Steps
  BY <1>1 DEF Exists, Inv, Fields, ObjSet, Steps
<1>3. PICK n : n = IF me.req.stacked THEN obj[me.obj].lin ELSE 0
  OBVIOUS
<1>4. me' = [me EXCEPT !.pc = "prepare", !.lin = n]
  BY <1>3
<1>5. n \in Nat /\ 0 \in 0..MaxObj /\ (~ me.req.stacked => n = 0)
  BY <1>2, <1>3 DEF Bounds
<1>6. me' \in MeSet
  BY <1>2, <1>4, <1>5, ZenonT(60) DEF MeSet
<1>7. Same(me') /\ me'.pc = "prepare" /\ me'.lin = n
  BY <1>2, <1>4, ZenonT(60) DEF MeSet, Same
<1>8. /\ obj' = obj /\ op' = op /\ claimed' = claimed /\ target' = target /\ nops' = nops
  BY DEF Silent
<1>9. Aims'
  BY <1>1, <1>7, <1>8 DEF Aims, Exists, Same
<1>10. Opens'
  <2>1. Keeps(me.req)
    BY <1>1, <1>2, PlanKeeps, Requested
  <2>2. \A o \in Ops : Prepared(o) => op[o].pred # me.obj
    BY <1>2, OwnAncestor
  <2> QED
    BY <1>1, <1>5, <1>7, <1>8, <2>1, <2>2 DEF Opens, Asked, Keeps, Same, Prepared
<1>11. Holds' /\ Has'
  BY <1>7 DEF Holds, Has, Acting, Having, Ending
<1> QED
  BY <1>6, <1>9, <1>10, <1>11, Silently DEF Command, Inv, Fields

\* The successor is already stamped, only the close is missing.
LEMMA Closing ==
    ASSUME Bounds, Inv, Silent, edits' = edits, faults' = faults, me.pc = "route",
           me.cmd = "save", me' = [me EXCEPT !.pc = "close", !.succ = obj[me.obj].by]
    PROVE  Inv'
<1>1. /\ Exists(me.obj) /\ me.run \in Runs /\ target[me.run] = me.obj /\ me.req \in Requests
      /\ me.op = 0 /\ ~ me.now
  BY DEF Inv, Command, Aims
<1>2. me.obj \in Objs /\ me \in MeSet /\ obj[me.obj].by \in 0..MaxObj
  BY <1>1 DEF Exists, Inv, Fields, ObjSet
<1>3. me' \in MeSet
  <2>1. "close" \in Steps
    BY DEF Steps
  <2>2. PICK b \in 0..MaxObj : b = obj[me.obj].by
    BY <1>2
  <2>3. me' = [me EXCEPT !.pc = "close", !.succ = b]
    BY <2>2
  <2> QED
    BY <1>2, <2>1, <2>2, <2>3, ZenonT(60) DEF MeSet
<1>4. Same(me') /\ me'.pc = "close"
  BY <1>2 DEF MeSet, Same
<1>5. obj' = obj /\ target' = target
  BY DEF Silent
<1>6. Aims'
  BY <1>1, <1>4, <1>5 DEF Aims, Exists, Same
<1>7. Opens' /\ Holds' /\ Has'
  BY <1>1, <1>4 DEF Opens, Holds, Has, Acting, Having, Ending, Same
<1> QED
  BY <1>3, <1>6, <1>7, Silently DEF Command, Inv, Fields

\* A command at the start does not look at the operations.
LEMMA Routing ==
    ASSUME Command, me.pc = "route", UNCHANGED <<obj, target, me>>
    PROVE  Command'
<1>1. Aims'
  BY DEF Command, Aims, Exists
<1>2. Opens' /\ Holds' /\ Has'
  BY DEF Opens, Holds, Has, Acting, Having, Ending
<1> QED
  BY <1>1, <1>2 DEF Command

LEMMA RunInv ==
    ASSUME Bounds, Inv, Run
    PROVE  Inv'
<1>0. /\ me.pc = "route" /\ me.cmd = "save" /\ (obj[me.obj].stacked \/ me.req.stacked)
      /\ UNCHANGED <<obj, plan, prs, claimed, nops, target, nlin, edits, faults>>
  BY DEF Run, fixed
<1>1. me \in MeSet /\ edits \in Nat /\ faults \in Nat /\ Command
  BY DEF Inv, Fields
<1>2. CASE op' = op /\ Quit
  <2>1. Silent
    BY <1>0, <1>2 DEF Silent
  <2> QED
    BY <1>0, <1>1, <1>2, <2>1, Ended, Silently
<1>3. CASE obj[me.obj].stacked /\ \E o \in Unresolved(me.obj) : RouteUnresolved(o)
  <2>1. PICK o \in Unresolved(me.obj) : RouteUnresolved(o)
    BY <1>3
  <2>2. o \in Ops /\ Prepared(o)
    BY <2>1 DEF Unresolved, Prepared
  <2>3. CASE /\ Execute(op[o].pred, op[o].run, op[o].req, op[o].lin, o, FALSE)
             /\ UNCHANGED op
    <3>1. Silent
      BY <1>0, <2>3 DEF Silent
    <3> QED
      BY <1>0, <2>2, <2>3, <3>1, RollsForward
  <2>4. CASE /\ Find(op[o].run) = {} /\ op' = [op EXCEPT ![o].st = "abandoned"]
             /\ UNCHANGED me
    <3>1. Command'
      BY <1>0, <1>1, <2>4, Routing
    <3>2. \A s \in Objs : ~ (obj[s].st = "open" /\ obj[s].run = op[o].run)
      BY <2>4 DEF Find
    <3> QED
      BY <1>0, <1>1, <2>2, <2>4, <3>1, <3>2, Concludes
  <2> QED
    BY <1>2, <2>1, <2>3, <2>4 DEF RouteUnresolved
<1>4. CASE /\ obj[me.obj].stacked => Unresolved(me.obj) = {}
           /\ op' = op /\ ~ Quit
           /\ IF obj[me.obj].by # 0
              THEN me' = [me EXCEPT !.pc = "close", !.succ = obj[me.obj].by]
              ELSE \/ /\ obj[me.obj].stacked
                      /\ PlanFromStacked(me.obj, me.req) /\ nops < MaxOps
                      /\ me' = [me EXCEPT !.pc = "prepare",
                                  !.lin = IF me.req.stacked THEN obj[me.obj].lin ELSE 0]
                   \/ /\ ~ obj[me.obj].stacked
                      /\ Execute(me.obj, me.run, me.req, IncrementalLineage(me.obj, me.run),
                                 0, FALSE)
  <2>1. Silent
    BY <1>0, <1>4 DEF Silent
  <2>2. CASE me' = [me EXCEPT !.pc = "close", !.succ = obj[me.obj].by]
    BY <1>0, <2>1, <2>2, Closing
  <2>3. CASE /\ obj[me.obj].stacked /\ obj[me.obj].by = 0
             /\ PlanFromStacked(me.obj, me.req) /\ nops < MaxOps
             /\ me' = [me EXCEPT !.pc = "prepare",
                         !.lin = IF me.req.stacked THEN obj[me.obj].lin ELSE 0]
    BY <1>0, <1>4, <2>1, <2>3, Opening
  <2>4. CASE /\ ~ obj[me.obj].stacked
             /\ Execute(me.obj, me.run, me.req, IncrementalLineage(me.obj, me.run), 0, FALSE)
    BY <1>0, <2>1, <2>4, Direct
  <2> QED
    BY <1>4, <2>2, <2>3, <2>4
<1> QED
  BY <1>2, <1>3, <1>4 DEF Run

\* A session without an operation on a live stacked objective has created nothing.
LEMMA NothingMade ==
    ASSUME Bounds, Inv, me.pc = "prepare"
    PROVE  \A s \in Objs : obj[s].st = "open" => obj[s].run # me.run
<1>1. /\ me.run \in Runs /\ target[me.run] = me.obj /\ Exists(me.obj) /\ obj[me.obj].stacked
      /\ obj[me.obj].by = 0 /\ \A o \in Ops : Prepared(o) => op[o].pred # me.obj
  BY DEF Inv, Command, Aims, Opens
<1>2. SUFFICES ASSUME NEW s \in Objs, obj[s].st = "open", obj[s].run = me.run PROVE FALSE
  OBVIOUS
<1>3. obj[s].run # NoRun /\ s # 0
  BY <1>1, <1>2 DEF Bounds, Objs
<1>4. obj[s].sup = me.obj
  BY <1>1, <1>2, <1>3 DEF Inv, Store, Chain, Exists
<1>5. \/ obj[me.obj].by = s
      \/ \E o \in Ops : Prepared(o) /\ op[o].pred = me.obj /\ op[o].run = obj[s].run
  BY <1>1, <1>2, <1>3, <1>4 DEF Inv, Store, Reserved
<1> QED
  BY <1>1, <1>3, <1>5

LEMMA PrepareInv ==
    ASSUME Bounds, Inv, Prepare
    PROVE  Inv'
<1>0. /\ me.pc = "prepare" /\ obj' = obj /\ plan' = plan /\ prs' = prs /\ claimed' = claimed
      /\ target' = target /\ nlin' = nlin /\ edits' = edits /\ faults' = faults
      /\ nops' = nops + 1
  BY DEF Prepare, fixed
<1>1. /\ me.run \in Runs /\ target[me.run] = me.obj /\ Exists(me.obj) /\ obj[me.obj].stacked
      /\ nops < MaxOps /\ Asked(me) /\ me.req \in Requests
      /\ \A o \in Ops : Prepared(o) => op[o].pred # me.obj
  BY <1>0 DEF Inv, Command, Aims, Opens, Asked
<1>2. me \in MeSet /\ nops \in Nat /\ MaxOps \in Nat /\ me.obj \in Objs
  BY <1>1 DEF Inv, Fields, Bounds, Exists
<1>3. PICK k : k = nops + 1
  OBVIOUS
<1>4. k \in Ops /\ k \in 0..MaxOps /\ k # 0
  BY <1>1, <1>2, <1>3 DEF Ops
<1>5. PICK y : y = [st |-> "prepared", pred |-> me.obj, run |-> me.run, req |-> me.req,
                    lin |-> me.lin]
  OBVIOUS
<1>6. /\ y \in OpSet /\ y.st = "prepared" /\ y.pred = me.obj /\ y.run = me.run
      /\ y.req = me.req /\ y.lin = me.lin
  BY <1>1, <1>2, <1>5, Requested DEF OpSet, MeSet
<1>7. op' = [op EXCEPT ![k] = y]
  BY <1>3, <1>5 DEF Prepare
<1>8. op' \in [Ops -> OpSet] /\ op'[k] = y /\ \A q \in Ops \ {k} : op'[q] = op[q]
  BY <1>4, <1>6, <1>7 DEF Inv, Fields
<1>9. me' = [me EXCEPT !.pc = "create", !.obj = me.obj, !.run = me.run, !.req = me.req,
                       !.lin = me.lin, !.op = k, !.at = 1, !.now = FALSE]
  BY <1>3 DEF Prepare, Execute
<1>10. /\ me' \in MeSet /\ me'.pc = "create" /\ me'.cmd = me.cmd /\ me'.obj = me.obj
       /\ me'.run = me.run /\ me'.req = me.req /\ me'.lin = me.lin /\ me'.op = k
       /\ me'.now = FALSE /\ me'.at = 1
  BY <1>1, <1>2, <1>4, <1>9, Requested, ZenonT(60) DEF MeSet, Steps
<1>11. \A q \in Ops : q # k => (Prepared(q)' <=> Prepared(q))
  BY <1>8 DEF Prepared
<1>12. \A s \in Objs : obj[s].st = "open" => obj[s].run # me.run
  BY <1>0, NothingMade
<1>13. ~ Prepared(k)
  <2>1. op[k].st # "none" => k <= nops
    BY <1>4 DEF Inv, Store, Journal
  <2> QED
    BY <1>2, <1>3, <2>1 DEF Prepared
<1>14. Chain' /\ Apart' /\ Prefix' /\ LineageUnforked'
  <2>1. Chain /\ Apart /\ Prefix /\ LineageUnforked
    BY DEF Inv, Store
  <2> QED
    BY <1>0, <2>1 DEF Chain, Apart, Prefix, Exists, Keeps, LineageUnforked
<1>15. Reserved'
  <2>1. Reserved
    BY DEF Inv, Store
  <2> QED
    BY <1>0, <1>8, <1>11, <1>13, <2>1 DEF Reserved
<1>16. Journal'
  <2> SUFFICES ASSUME NEW q \in Ops, op'[q].st # "none"
               PROVE  /\ q <= nops + 1 /\ op'[q].run \in Runs /\ Exists(op'[q].pred)
                      /\ obj[op'[q].pred].stacked /\ target[op'[q].run] = op'[q].pred
                      /\ op'[q].req \in Requests /\ Keeps(op'[q].req)
                      /\ (~ op'[q].req.stacked => op'[q].lin = 0)
    BY <1>0 DEF Journal, Asked, Keeps, Exists
  <2>1. CASE q = k
    BY <1>1, <1>2, <1>3, <1>6, <1>8, <2>1 DEF Asked
  <2>2. CASE q # k
    <3>1. op'[q] = op[q]
      BY <1>8, <2>2
    <3>2. /\ q <= nops /\ op[q].run \in Runs /\ Exists(op[q].pred)
          /\ obj[op[q].pred].stacked /\ target[op[q].run] = op[q].pred
          /\ op[q].req \in Requests /\ Keeps(op[q].req)
          /\ (~ op[q].req.stacked => op[q].lin = 0)
      BY <3>1 DEF Inv, Store, Journal, Asked
    <3>3. q <= nops + 1
      BY <1>2, <3>2 DEF Ops
    <3> QED
      BY <3>1, <3>2, <3>3
  <2> QED
    BY <2>1, <2>2
<1>17. OneEach'
  <2>1. OneEach
    BY DEF Inv, Store
  <2> QED
    BY <1>1, <1>6, <1>8, <1>11, <2>1 DEF OneEach
<1>18. Made'
  <2> SUFFICES ASSUME NEW q \in Ops, Prepared(q)', NEW b, b = obj[op'[q].pred].by
               PROVE  /\ \A s \in Objs : obj[s].st = "open" /\ obj[s].run = op'[q].run
                                         => obj[s].lin = op'[q].lin
                      /\ b # 0 => Exists(b) /\ obj[b].run = op'[q].run
    BY <1>0 DEF Made, Exists
  <2>1. CASE q = k
    <3>1. obj[me.obj].by = 0
      BY <1>0 DEF Inv, Command, Opens
    <3> QED
      BY <1>6, <1>8, <1>12, <2>1, <3>1
  <2>2. CASE q # k
    <3>1. op'[q] = op[q] /\ Prepared(q)
      BY <1>8, <1>11, <2>2
    <3> QED
      BY <3>1 DEF Inv, Store, Made
  <2> QED
    BY <2>1, <2>2, SMTT(60)
<1>19. Fields'
  BY <1>0, <1>1, <1>2, <1>8, <1>10 DEF Inv, Fields
<1>20. Aims'
  BY <1>0, <1>1, <1>10 DEF Aims, Exists
<1>21. Opens'
  BY <1>10 DEF Opens
<1>22. Holds'
  <2>1. Prepared(k)'
    BY <1>6, <1>8 DEF Prepared
  <2>2. Keeps(me.req)'
    BY <1>0, <1>1, <1>10 DEF Asked, Keeps
  <2> QED
    BY <1>4, <1>6, <1>8, <1>10, <2>1, <2>2 DEF Holds, Acting, Having, Ending, Prepared, Keeps
<1>23. Has'
  BY <1>0, <1>10, <1>12 DEF Has, Having, Ending
<1> QED
  BY <1>14, <1>15, <1>16, <1>17, <1>18, <1>19, <1>20, <1>21, <1>22, <1>23
     DEF Inv, Store, Command

LEMMA CreateFound ==
    ASSUME Bounds, Inv, me.pc = "create", ~ me.now, NEW s \in Find(me.run),
           obj' = [obj EXCEPT ![s].full = TRUE], me' = [me EXCEPT !.pc = "own", !.succ = s],
           UNCHANGED <<plan, prs, claimed, op, nops, target, nlin, edits, faults>>
    PROVE  Inv'
<1>0. me \in MeSet /\ obj \in [Objs -> ObjSet] /\ s \in Objs /\ 0 \in 0..MaxObj
  BY DEF Inv, Fields, Find, Bounds
<1>1. /\ me.run \in Runs /\ target[me.run] = me.obj /\ Exists(me.obj) /\ me.req \in Requests
  BY DEF Inv, Command, Aims
<1>2. obj[s].st = "open" /\ obj[s].run = me.run /\ Exists(s) /\ me.run # NoRun
  BY <1>0, <1>1 DEF Find, Exists, Bounds
<1>3. s # me.obj
  BY <1>0, <1>1, <1>2 DEF Inv, Store, Chain
<1>4. obj[s].lin = me.lin
  BY <1>0, <1>2 DEF Inv, Command, Has
<1>5. \A t \in Objs : obj[t].st = "open" /\ obj[t].run = me.run => t = s
  BY <1>0, <1>2 DEF Inv, Store, Apart
<1>6. /\ obj' \in [Objs -> ObjSet] /\ Steady /\ obj'[s].full
      /\ \A i \in Objs : obj'[i].st = obj[i].st /\ obj'[i].by = obj[i].by
  BY <1>0, ObjSteps
<1>7. /\ me' \in MeSet /\ Same(me') /\ me'.pc = "own" /\ me'.succ = s /\ me'.lin = me.lin
      /\ me'.at = me.at
  <2>1. "own" \in Steps /\ s \in 0..MaxObj
    BY <1>0 DEF Steps, Objs
  <2>2. me' \in MeSet
    BY <1>0, <2>1 DEF MeSet
  <2>3. /\ Same(me') /\ me'.pc = "own" /\ me'.succ = s /\ me'.lin = me.lin
        /\ me'.at = me.at
    BY <1>0 DEF MeSet, Same
  <2> QED
    BY <2>2, <2>3
<1>8. Fields'
  BY <1>6, <1>7 DEF Inv, Fields
<1>9. Store'
  <2>1. Calm /\ ByStays
    BY <1>6 DEF Calm, ByStays, Inv, Fields
  <2> QED
    BY <1>6, <2>1, SteadyStore DEF Inv
<1>10. LineageUnforked'
  <2>1. Lasting /\ \A p \in Plans : plan'[p].lin = plan[p].lin
    BY <1>6 DEF Lasting, Steady
  <2> QED
    BY <2>1, LineageStays DEF Inv
<1>11. Aims' /\ Opens'
  <2>1. Exists(me.obj)'
    BY <1>1, <1>6, <1>7 DEF Exists, Same
  <2> QED
    BY <1>1, <1>7, <2>1 DEF Aims, Opens, Same
<1>12. Holds'
  <2>1. /\ me.op # 0 => /\ Prepared(me.op) /\ op[me.op].pred = me.obj
                        /\ op[me.op].run = me.run
                        /\ op[me.op].req = me.req /\ op[me.op].lin = me.lin
        /\ me.op = 0 => ~ obj[me.obj].stacked
        /\ Keeps(me.req) /\ me.at = 1
    BY DEF Inv, Command, Holds, Acting
  <2>2. me.at \in DOMAIN me.req.proj
    BY <1>1, <2>1 DEF Bounds, Req
  <2>3. me.op = 0 => ~ obj'[me.obj].stacked
    BY <1>1, <1>6, <2>1 DEF Steady, Exists
  <2> QED
    BY <1>7, <2>1, <2>2, <2>3
       DEF Holds, Same, Prepared, Keeps, Acting, Having, Ending
<1>13. Has'
  <2>1. Tip(me.succ)'
    BY <1>0, <1>2, <1>3, <1>4, <1>5, <1>6, <1>7 DEF Tip, Exists, Same, Steady
  <2> QED
    BY <1>6, <1>7, <2>1 DEF Has, Having, Ending
<1> QED
  BY <1>8, <1>9, <1>10, <1>11, <1>12, <1>13 DEF Inv, Command

LEMMA CreateNew ==
    ASSUME Bounds, Inv, me.pc = "create", Find(me.run) = {}, NEW f \in Objs,
           obj[f].st = "none",
           obj' = [obj EXCEPT ![f] = [st |-> "open", run |-> me.run, sup |-> me.obj, by |-> 0,
                                      lin |-> me.lin, stacked |-> me.req.stacked,
                                      proj |-> me.req.proj, full |-> FALSE]],
           nlin' \in Nat, me' = [me EXCEPT !.pc = "body", !.succ = f],
           UNCHANGED <<plan, prs, claimed, op, nops, target, edits, faults>>
    PROVE  Inv'
<1>0. me \in MeSet /\ obj \in [Objs -> ObjSet] /\ 0 \in 0..MaxObj /\ f \in 0..MaxObj /\ f # 0
  BY DEF Inv, Fields, Bounds, Objs
<1>1. /\ me.run \in Runs /\ target[me.run] = me.obj /\ Exists(me.obj) /\ me.req \in Requests
      /\ me.run # NoRun
  BY DEF Inv, Command, Aims, Bounds
<1>2. /\ me.op # 0 => /\ Prepared(me.op) /\ ~ me.now /\ op[me.op].pred = me.obj
                      /\ op[me.op].run = me.run
                      /\ op[me.op].req = me.req /\ op[me.op].lin = me.lin
      /\ me.op = 0 => ~ obj[me.obj].stacked
      /\ Keeps(me.req) /\ me.at = 1
  BY DEF Inv, Command, Holds, Acting
<1>3. \A s \in Objs : obj[s].st = "open" => obj[s].run # me.run
  BY DEF Find
<1>4. PICK y : y = [st |-> "open", run |-> me.run, sup |-> me.obj, by |-> 0,
                    lin |-> me.lin, stacked |-> me.req.stacked,
                    proj |-> me.req.proj, full |-> FALSE]
  OBVIOUS
<1>5. /\ y \in ObjSet /\ y.st = "open" /\ y.run = me.run /\ y.sup = me.obj /\ y.by = 0
      /\ y.lin = me.lin /\ y.stacked = me.req.stacked /\ y.proj = me.req.proj
  <2>1. me.req.stacked \in BOOLEAN /\ me.req.proj \in Seq(0..N)
    BY <1>1, Requested DEF Req
  <2> QED
    BY <1>0, <1>1, <1>4, <2>1 DEF ObjSet, MeSet
<1>6. obj' = [obj EXCEPT ![f] = y]
  BY <1>4
<1>7. obj' \in [Objs -> ObjSet] /\ obj'[f] = y /\ \A i \in Objs : i # f => obj'[i] = obj[i]
  BY <1>0, <1>5, <1>6, ZenonT(60)
<1>8. /\ me' \in MeSet /\ Same(me') /\ me'.pc = "body" /\ me'.succ = f /\ me'.lin = me.lin
      /\ me'.at = me.at
  BY <1>0 DEF MeSet, Same, Steps
<1>9. op' = op /\ target' = target /\ claimed' = claimed /\ nops' = nops /\ plan' = plan
  OBVIOUS
<1>10. /\ \A i : Exists(i) => i \in Objs /\ i # f /\ obj'[i] = obj[i] /\ Exists(i)'
       /\ \A i : Exists(i)' => i = f \/ Exists(i)
       /\ \A o \in Ops : Prepared(o)' <=> Prepared(o)
  BY <1>7, <1>9 DEF Exists, Prepared
<1>11. Fields'
  BY <1>7, <1>8 DEF Inv, Fields
<1>12. Chain'
  <2> SUFFICES ASSUME NEW i \in Objs, Exists(i)'
               PROVE  IF obj'[i].run = NoRun THEN obj'[i].sup = 0
                      ELSE obj'[i].sup = target[obj'[i].run] /\ Exists(obj'[i].sup)
                           /\ obj'[i].sup # i
    BY <1>9, <1>10 DEF Chain, Exists
  <2>1. CASE i = f
    BY <1>1, <1>5, <1>7, <1>10, <2>1
  <2>2. CASE i # f
    BY <1>10, <2>2 DEF Inv, Store, Chain
  <2> QED
    BY <2>1, <2>2
<1>13. Apart'
  <2>1. Apart
    BY DEF Inv, Store
  <2> QED
    BY <1>3, <1>5, <1>7, <2>1 DEF Apart
<1>14. Reserved'
  <2> SUFFICES ASSUME NEW s \in Objs, obj'[s].st = "open", obj'[s].run # NoRun,
                      obj'[obj'[s].sup].stacked
               PROVE  \/ obj'[obj'[s].sup].by = s
                      \/ \E o \in Ops : /\ Prepared(o) /\ op[o].pred = obj'[s].sup
                                        /\ op[o].run = obj'[s].run
    BY <1>9, <1>10 DEF Reserved
  <2>1. CASE s = f
    <3>1. obj[me.obj].stacked
      BY <1>1, <1>5, <1>7, <1>10, <2>1
    <3>2. me.op \in Ops /\ Prepared(me.op)
      BY <1>0, <1>2, <3>1, SMTT(60) DEF MeSet, Ops, Bounds
    <3>3. obj'[s].sup = me.obj /\ obj'[s].run = me.run
      BY <1>5, <1>7, <2>1
    <3>4. op[me.op].pred = me.obj /\ op[me.op].run = me.run
      BY <1>0, <1>2, <3>2 DEF Ops
    <3> QED
      BY <3>2, <3>3, <3>4
  <2>2. CASE s # f
    <3>1. obj'[s] = obj[s] /\ Exists(s)
      BY <1>7, <2>2 DEF Exists
    <3>2. Exists(obj[s].sup)
      BY <3>1 DEF Inv, Store, Chain
    <3>3. obj'[obj[s].sup] = obj[obj[s].sup]
      BY <1>10, <3>2
    <3> QED
      BY <3>1, <3>3 DEF Inv, Store, Reserved
  <2> QED
    BY <2>1, <2>2
<1>15. Prefix'
  <2> SUFFICES ASSUME NEW i \in Objs, Exists(i)' PROVE Keeps(obj'[i])
    BY <1>9 DEF Prefix, Keeps
  <2>1. CASE i = f
    BY <1>2, <1>5, <1>7, <2>1 DEF Keeps
  <2>2. CASE i # f
    BY <1>10, <2>2 DEF Inv, Store, Prefix
  <2> QED
    BY <2>1, <2>2
<1>16. Journal'
  <2>1. Journal
    BY DEF Inv, Store
  <2> QED
    BY <1>9, <1>10, <2>1 DEF Journal, Asked, Keeps
<1>17. OneEach'
  <2>1. OneEach
    BY SMTT(60) DEF Inv, Store
  <2> QED
    BY <1>9, <1>10, <2>1 DEF OneEach
<1>18. Made'
  <2> SUFFICES ASSUME NEW o \in Ops, Prepared(o), NEW b, b = obj'[op[o].pred].by
               PROVE  /\ \A s \in Objs : obj'[s].st = "open" /\ obj'[s].run = op[o].run
                                         => obj'[s].lin = op[o].lin
                      /\ b # 0 => Exists(b)' /\ obj'[b].run = op[o].run
    BY <1>9, <1>10 DEF Made, Exists
  <2>1. /\ Exists(op[o].pred) /\ obj[op[o].pred].stacked
        /\ target[op[o].run] = op[o].pred
    BY DEF Inv, Store, Journal, Prepared
  <2>2. b = obj[op[o].pred].by
    BY <1>10, <2>1, SMTT(60)
  <2>3. b # 0 => Exists(b)' /\ obj'[b].run = op[o].run
    <3>1. b # 0 => Exists(b) /\ obj[b].run = op[o].run
      BY <2>2 DEF Inv, Store, Made
    <3> QED
      BY <1>10, <3>1, SMTT(60)
  <2>4. op[o].run = me.run => op[o].lin = me.lin
    <3> SUFFICES ASSUME op[o].run = me.run PROVE op[o].lin = me.lin
      OBVIOUS
    <3>1. op[o].pred = me.obj /\ me.op # 0
      BY <1>1, <1>2, <2>1
    <3>2. me.op \in Ops
      BY <1>0, <3>1, SMTT(60) DEF MeSet, Ops, Bounds
    <3>3. o = me.op
      BY <1>2, <3>1, <3>2 DEF Inv, Store, OneEach
    <3> QED
      BY <1>2, <3>1, <3>3
  <2>5. \A s \in Objs : s # f /\ obj'[s].st = "open" /\ obj'[s].run = op[o].run
                        => obj'[s].lin = op[o].lin
    BY <1>7 DEF Inv, Store, Made
  <2> QED
    BY <1>5, <1>7, <2>3, <2>4, <2>5, SMTT(60)
<1>19. LineageUnforked'
  <2>1. Lasting /\ \A p \in Plans : plan'[p].lin = plan[p].lin
    BY <1>10 DEF Lasting, Exists
  <2> QED
    BY <2>1, LineageStays DEF Inv
<1>20. Aims' /\ Opens'
  <2>1. Exists(me.obj)'
    BY <1>1, <1>8, <1>10 DEF Exists, Same
  <2> QED
    BY <1>1, <1>8, <2>1 DEF Aims, Opens, Same
<1>21. Holds'
  <2>1. me.op = 0 => ~ obj'[me.obj].stacked
    BY <1>1, <1>2, <1>10
  <2> QED
    BY <1>2, <1>8, <1>9, <2>1
       DEF Holds, Same, Prepared, Keeps, Acting, Having, Ending
<1>22. Has'
  <2>1. Tip(me.succ)'
    BY <1>1, <1>3, <1>5, <1>7, <1>8, <1>10, SMTT(60) DEF Tip, Exists, Same
  <2> QED
    BY <1>8, <2>1 DEF Has, Having, Ending
<1> QED
  BY <1>11, <1>12, <1>13, <1>14, <1>15, <1>16, <1>17, <1>18, <1>19, <1>20, <1>21, <1>22
     DEF Inv, Store, Command

LEMMA CreateInv ==
    ASSUME Bounds, Inv, Create
    PROVE  Inv'
<1>0. /\ me.pc = "create" /\ me \in MeSet /\ edits \in Nat /\ faults \in Nat /\ nlin \in Nat
      /\ UNCHANGED <<plan, prs, claimed, op, nops, target, edits, faults>>
  BY DEF Create, fixed, Inv, Fields
<1>1. CASE Quit /\ obj' = obj /\ nlin' = nlin
  <2>1. Silent
    BY <1>0, <1>1 DEF Silent
  <2> QED
    BY <1>0, <1>1, <2>1, Ended, Silently
<1>2. CASE ~ me.now /\ nlin' = nlin /\ \E s \in Find(me.run) :
             /\ obj' = [obj EXCEPT ![s].full = TRUE]
             /\ me' = [me EXCEPT !.pc = "own", !.succ = s]
  <2>1. PICK s \in Find(me.run) : /\ obj' = [obj EXCEPT ![s].full = TRUE]
                                  /\ me' = [me EXCEPT !.pc = "own", !.succ = s]
    BY <1>2
  <2> QED
    BY <1>0, <1>2, <2>1, CreateFound
<1>3. CASE /\ Find(me.run) = {} /\ Room
           /\ obj' = [obj EXCEPT ![Fresh] =
                       [st |-> "open", run |-> me.run, sup |-> me.obj, by |-> 0,
                        lin |-> me.lin, stacked |-> me.req.stacked,
                        proj |-> me.req.proj, full |-> FALSE]]
           /\ nlin' = IF me.lin > nlin THEN me.lin ELSE nlin
           /\ me' = [me EXCEPT !.pc = "body", !.succ = Fresh]
  <2>1. PICK f : f = Fresh
    OBVIOUS
  <2>2. f \in Objs /\ obj[f].st = "none"
    BY <1>3, <2>1 DEF Fresh, Room
  <2>3. nlin' \in Nat
    BY <1>0, <1>3 DEF MeSet
  <2> QED
    BY <1>0, <1>3, <2>1, <2>2, <2>3, CreateNew
<1> QED
  BY <1>1, <1>2, <1>3, ZenonT(60) DEF Create

\* What holds of the command between the creation and the stamp.
LEMMA Midway ==
    ASSUME Bounds, Inv, me.pc \in Having
    PROVE  /\ me \in MeSet /\ obj \in [Objs -> ObjSet] /\ plan \in [Plans -> PlanSet]
           /\ me.run \in Runs /\ target[me.run] = me.obj /\ me.obj \in Objs /\ Exists(me.obj)
           /\ me.req \in Requests /\ me.req \in Req /\ Keeps(me.req)
           /\ me.op # 0 => /\ Prepared(me.op) /\ ~ me.now /\ op[me.op].pred = me.obj
                           /\ op[me.op].run = me.run /\ me.op \in Ops
                           /\ op[me.op].req = me.req /\ op[me.op].lin = me.lin
           /\ me.op = 0 => ~ obj[me.obj].stacked
           /\ Tip(me.succ) /\ me.succ \in Objs
<1>1. me \in MeSet /\ obj \in [Objs -> ObjSet] /\ plan \in [Plans -> PlanSet]
  BY DEF Inv, Fields
<1>2. /\ me.run \in Runs /\ target[me.run] = me.obj /\ Exists(me.obj) /\ me.req \in Requests
  BY DEF Inv, Command, Aims, Having
<1>3. me.obj \in Objs /\ me.req \in Req
  BY <1>2, Requested DEF Exists
<1>4. /\ me.op # 0 => /\ Prepared(me.op) /\ ~ me.now /\ op[me.op].pred = me.obj
                      /\ op[me.op].run = me.run
                      /\ op[me.op].req = me.req /\ op[me.op].lin = me.lin
      /\ me.op = 0 => ~ obj[me.obj].stacked
      /\ Keeps(me.req)
  BY DEF Inv, Command, Holds, Acting, Having
<1>5. me.op # 0 => me.op \in Ops
  BY <1>1 DEF MeSet, Ops, Bounds
<1>6. Tip(me.succ)
  BY DEF Inv, Command, Has
<1> QED
  BY <1>1, <1>2, <1>3, <1>4, <1>5, <1>6 DEF Tip, Exists

\* A header of a plan: what the successor's progress stands on is untouched.
LEMMA Midstep ==
    ASSUME Bounds, Inv, me.pc \in Having, me' \in MeSet, Same(me'), me'.succ = me.succ,
           me'.lin = me.lin, me'.pc \in Having \ {"body", "stamp"},
           obj' = obj, UNCHANGED <<prs, claimed, op, nops, target, nlin, edits, faults>>,
           plan' \in [Plans -> PlanSet], obj[me.succ].full,
           ~ me.now, me'.pc \in {"own", "identify"} => me'.at \in DOMAIN me.req.proj,
           \A p \in Plans : plan'[p].lin = plan[p].lin \/ plan'[p].lin = me.lin
    PROVE  Inv'
<1>0. /\ me.run \in Runs /\ target[me.run] = me.obj /\ me.obj \in Objs /\ Exists(me.obj)
      /\ me.req \in Requests /\ Keeps(me.req)
      /\ me.op # 0 => /\ Prepared(me.op) /\ op[me.op].pred = me.obj
                      /\ op[me.op].run = me.run
                      /\ op[me.op].req = me.req /\ op[me.op].lin = me.lin
      /\ me.op = 0 => ~ obj[me.obj].stacked
      /\ Tip(me.succ) /\ me.succ \in Objs
  BY Midway
<1>1. Fields'
  BY DEF Inv, Fields
<1>2. Store'
  BY StoreStays DEF Inv
<1>3. LineageUnforked'
  <2>1. obj[me.succ].st # "none" /\ obj[me.succ].lin = me.lin
    BY <1>0 DEF Tip, Exists
  <2> QED
    BY <1>0, <2>1 DEF Inv, LineageUnforked
<1>4. Aims' /\ Opens'
  BY <1>0 DEF Aims, Opens, Exists, Same, Having
<1>5. Holds'
  BY <1>0 DEF Holds, Same, Prepared, Keeps, Acting, Having, Ending
<1>6. Has'
  <2>1. Tip(me.succ)'
    <3>1. /\ Exists(me.succ) /\ me.succ # me.obj /\ obj[me.succ].run = me.run
          /\ obj[me.succ].lin = me.lin /\ (edits = 0 => obj[me.succ].st = "open")
          /\ \A t \in Objs : obj[t].st = "open" /\ obj[t].run = me.run => t = me.succ
      BY <1>0 DEF Tip
    <3>2. me'.obj = me.obj /\ me'.run = me.run
      BY DEF Same
    <3> QED
      BY <3>1, <3>2 DEF Tip, Exists
  <2> QED
    BY <2>1 DEF Has, Having, Ending
<1> QED
  BY <1>1, <1>2, <1>3, <1>4, <1>5, <1>6 DEF Inv, Command

LEMMA OwnInv ==
    ASSUME Bounds, Inv, Own
    PROVE  Inv'
<1>0. /\ me.pc = "own" /\ me.pc \in Having /\ obj' = obj
      /\ UNCHANGED <<prs, claimed, op, nops, target, nlin, edits, faults>>
      /\ me' = [me EXCEPT !.pc = "identify"]
      /\ plan' = IF me.req.proj[me.at] = 0 THEN plan
                 ELSE [plan EXCEPT ![me.req.proj[me.at]].owner = me.succ,
                                   ![me.req.proj[me.at]].node = me.at]
  BY SMTT(60) DEF Own, fixed, Having
<1>1. /\ me \in MeSet /\ plan \in [Plans -> PlanSet] /\ me.req \in Req /\ me.succ \in Objs
  BY <1>0, Midway, SMTT(60)
<1>2. me.at \in DOMAIN me.req.proj /\ ~ me.now /\ obj[me.succ].full
  BY <1>0 DEF Inv, Command, Holds, Has, Acting, Having
<1>3. PICK p : p = me.req.proj[me.at]
  OBVIOUS
<1>4. p \in 0..N /\ me.at \in Nat
  BY <1>1, <1>2, <1>3, Element
<1>5. /\ plan' \in [Plans -> PlanSet]
      /\ \A q \in Plans : plan'[q].lin = plan[q].lin \/ plan'[q].lin = me.lin
  <2>1. CASE p = 0
    BY <1>0, <1>1, <1>3, <2>1
  <2>2. CASE p # 0
    <3>1. p \in Plans /\ plan[p] \in PlanSet
      BY <1>1, <1>4, <2>2 DEF Plans, Bounds
    <3>2. PICK y : y = [plan[p] EXCEPT !.owner = me.succ, !.node = me.at]
      OBVIOUS
    <3>3. y \in PlanSet /\ y.lin = plan[p].lin
      BY <1>1, <1>4, <3>1, <3>2 DEF PlanSet
    <3>4. plan' = [plan EXCEPT ![p] = y]
      BY <1>0, <1>1, <1>3, <2>2, <3>1, <3>2
    <3> QED
      BY <1>1, <3>1, <3>3, <3>4
  <2> QED
    BY <2>1, <2>2
<1>6. me' \in MeSet /\ Same(me') /\ me'.succ = me.succ /\ me'.lin = me.lin /\ me'.at = me.at
      /\ me'.pc = "identify"
  BY <1>0, <1>1 DEF MeSet, Same, Steps
<1> QED
  <2>1. me'.pc \in Having \ {"body", "stamp"}
    BY <1>6, SMTT(60) DEF Having
  <2> QED
    BY <1>0, <1>2, <1>5, <1>6, <2>1, Midstep, ZenonT(60)

LEMMA IdentifyInv ==
    ASSUME Bounds, Inv, Identify
    PROVE  Inv'
<1>0. /\ me.pc = "identify" /\ me.pc \in Having /\ obj' = obj
      /\ UNCHANGED <<prs, claimed, op, nops, target, nlin, edits, faults>>
      /\ me' = [me EXCEPT !.at = me.at + 1,
                          !.pc = IF me.at = Len(me.req.proj) THEN "verify" ELSE "own"]
      /\ plan' = IF me.req.proj[me.at] <= claimed THEN plan
                 ELSE [plan EXCEPT ![me.req.proj[me.at]].lin = me.lin,
                                   ![me.req.proj[me.at]].pred =
                                      IF me.req.stacked
                                      THEN Previous(me.req.proj, me.at) ELSE 0]
  BY SMTT(60) DEF Identify, fixed, Having
<1>1. /\ me \in MeSet /\ plan \in [Plans -> PlanSet] /\ me.req \in Req /\ me.succ \in Objs
  BY <1>0, Midway, SMTT(60)
<1>2. me.at \in DOMAIN me.req.proj /\ ~ me.now /\ obj[me.succ].full
  BY <1>0 DEF Inv, Command, Holds, Has, Acting, Having
<1>3. PICK p : p = me.req.proj[me.at]
  OBVIOUS
<1>4. p \in 0..N /\ me.at \in Nat /\ claimed \in Nat /\ me.lin \in Nat
      /\ Len(me.req.proj) \in Nat /\ DOMAIN me.req.proj = 1..Len(me.req.proj)
  <2>1. p \in 0..N /\ me.at \in Nat
    BY <1>1, <1>2, <1>3, Element
  <2>2. claimed \in Nat /\ me.lin \in Nat
    BY <1>1 DEF MeSet, Inv, Fields, Bounds
  <2>3. Len(me.req.proj) \in Nat /\ DOMAIN me.req.proj = 1..Len(me.req.proj)
    BY <1>1 DEF Req
  <2> QED
    BY <2>1, <2>2, <2>3
<1>5. PICK b : b = IF me.req.stacked THEN Previous(me.req.proj, me.at) ELSE 0
  OBVIOUS
<1>6. b \in 0..N
  <2>1. Previous(me.req.proj, me.at) \in 0..N
    <3>1. CASE me.at = 1
      BY <3>1 DEF Previous, Bounds
    <3>2. CASE me.at # 1
      <4>1. me.at - 1 \in DOMAIN me.req.proj
        BY <1>2, <1>4, <3>2
      <4>2. me.req.proj[me.at - 1] \in 0..N
        BY <1>1, <4>1, Element
      <4> QED
        BY <3>2, <4>2 DEF Previous
    <3> QED
      BY <3>1, <3>2
  <2> QED
    BY <1>5, <2>1 DEF Bounds
<1>7. /\ plan' \in [Plans -> PlanSet]
      /\ \A q \in Plans : plan'[q].lin = plan[q].lin \/ plan'[q].lin = me.lin
  <2>1. CASE p <= claimed
    BY <1>0, <1>1, <1>3, <2>1
  <2>2. CASE ~ (p <= claimed)
    <3>1. p \in Plans /\ plan[p] \in PlanSet
      BY <1>1, <1>4, <2>2 DEF Plans, Bounds
    <3>2. PICK y : y = [plan[p] EXCEPT !.lin = me.lin, !.pred = b]
      OBVIOUS
    <3>3. y \in PlanSet /\ y.lin = me.lin
      BY <1>4, <1>6, <3>1, <3>2 DEF PlanSet
    <3>4. plan' = [plan EXCEPT ![p].lin = me.lin, ![p].pred = b]
      BY <1>0, <1>3, <1>5, <2>2
    <3>5. plan' = [plan EXCEPT ![p] = y]
      BY <1>1, <3>1, <3>2, <3>4
    <3> QED
      BY <1>1, <3>1, <3>3, <3>5
  <2> QED
    BY <2>1, <2>2
<1>8. PICK c : c = IF me.at = Len(me.req.proj) THEN "verify" ELSE "own"
  OBVIOUS
<1>9. /\ c \in {"verify", "own"} /\ me' = [me EXCEPT !.at = me.at + 1, !.pc = c]
      /\ c = "own" => me.at + 1 \in DOMAIN me.req.proj
  BY <1>0, <1>2, <1>4, <1>8
<1>10. me' \in MeSet /\ Same(me') /\ me'.succ = me.succ /\ me'.lin = me.lin
       /\ me'.at = me.at + 1 /\ me'.pc = c
  <2>1. c \in Steps /\ me.at + 1 \in Nat
    BY <1>4, <1>9 DEF Steps
  <2> QED
    BY <1>1, <1>9, <2>1 DEF MeSet, Same
<1> QED
  <2>1. me'.pc \in Having \ {"body", "stamp"} /\ me'.pc # "identify"
    BY <1>9, <1>10 DEF Having
  <2>2. me'.pc \in {"own", "identify"} => me'.at \in DOMAIN me.req.proj
    BY <1>9, <1>10, <2>1, SMTT(60)
  <2> QED
    BY <1>0, <1>2, <1>7, <1>10, <2>1, <2>2, Midstep, ZenonT(60)

LEMMA BodyInv ==
    ASSUME Bounds, Inv, Body
    PROVE  Inv'
<1>0. /\ me.pc = "body" /\ me.pc \in Having /\ obj' = [obj EXCEPT ![me.succ].full = TRUE]
      /\ UNCHANGED <<plan, prs, claimed, op, nops, target, nlin, edits, faults>>
      /\ me' = [me EXCEPT !.pc = IF me.now THEN "stamp" ELSE "own"]
  BY DEF Body, fixed, Having
<1>1. /\ me \in MeSet /\ obj \in [Objs -> ObjSet]
      /\ me.run \in Runs /\ target[me.run] = me.obj /\ me.obj \in Objs /\ Exists(me.obj)
      /\ me.req \in Requests /\ me.req \in Req /\ Keeps(me.req)
      /\ me.op # 0 => /\ Prepared(me.op) /\ ~ me.now /\ op[me.op].pred = me.obj
                      /\ op[me.op].run = me.run
                      /\ op[me.op].req = me.req /\ op[me.op].lin = me.lin
      /\ me.op = 0 => ~ obj[me.obj].stacked
      /\ Tip(me.succ) /\ me.succ \in Objs /\ 0 \in 0..MaxObj
  BY <1>0, Midway DEF Bounds
<1>2. /\ obj' \in [Objs -> ObjSet] /\ Steady /\ obj'[me.succ].full
      /\ \A i \in Objs : obj'[i].st = obj[i].st /\ obj'[i].by = obj[i].by
  BY <1>0, <1>1, ObjSteps
<1>3. PICK c : c = IF me.now THEN "stamp" ELSE "own"
  OBVIOUS
<1>4. /\ c \in {"stamp", "own"} /\ (c = "own" <=> ~ me.now)
      /\ me' = [me EXCEPT !.pc = c]
  BY <1>0, <1>3
<1>5. /\ me' \in MeSet /\ Same(me') /\ me'.pc = c /\ me'.succ = me.succ /\ me'.lin = me.lin
      /\ me'.at = me.at
  BY <1>1, <1>4 DEF MeSet, Same, Steps
<1>6. Fields'
  BY <1>0, <1>2, <1>5 DEF Inv, Fields
<1>7. Store'
  <2>1. Calm /\ ByStays
    BY <1>0, <1>2 DEF Calm, ByStays, Inv, Fields
  <2> QED
    BY <1>2, <2>1, SteadyStore DEF Inv
<1>8. LineageUnforked'
  <2>1. Lasting /\ \A p \in Plans : plan'[p].lin = plan[p].lin
    BY <1>0, <1>2 DEF Lasting, Steady
  <2> QED
    BY <2>1, LineageStays DEF Inv
<1>9. Aims' /\ Opens'
  BY <1>0, <1>1, <1>2, <1>4, <1>5 DEF Aims, Opens, Exists, Same
<1>10. Holds'
  <2>1. me.at = 1
    BY <1>0 DEF Inv, Command, Holds, Acting, Having
  <2>2. me.at \in DOMAIN me.req.proj
    BY <1>1, <2>1 DEF Bounds, Req
  <2>3. me.op = 0 => ~ obj'[me.obj].stacked
    BY <1>1, <1>2 DEF Steady
  <2>4. \A o : Prepared(o)' <=> Prepared(o)
    BY <1>0 DEF Prepared
  <2> QED
    BY <1>0, <1>1, <1>4, <1>5, <2>2, <2>3, <2>4 DEF Holds, Same, Keeps, Acting, Having, Ending
<1>11. Has'
  <2>1. Tip(me.succ)'
    <3>1. /\ Exists(me.succ) /\ me.succ # me.obj /\ obj[me.succ].run = me.run
          /\ obj[me.succ].lin = me.lin /\ (edits = 0 => obj[me.succ].st = "open")
          /\ \A t \in Objs : obj[t].st = "open" /\ obj[t].run = me.run => t = me.succ
      BY <1>1 DEF Tip
    <3>2. me'.obj = me.obj /\ me'.run = me.run
      BY <1>5 DEF Same
    <3> QED
      BY <1>0, <1>1, <1>2, <1>5, <3>1, <3>2 DEF Tip, Exists, Steady
  <2>2. me'.pc = "stamp" => me'.op = 0
    BY <1>1, <1>4, <1>5 DEF Same
  <2> QED
    BY <1>2, <1>4, <1>5, <2>1, <2>2, SMTT(60) DEF Has, Having, Ending
<1> QED
  BY <1>6, <1>7, <1>8, <1>9, <1>10, <1>11 DEF Inv, Command

\* What _verify has seen when it lets the stamp follow.
LEMMA VerifiedCarries ==
    ASSUME Bounds, Inv, me.pc = "verify", me.op # 0, Verified(me.succ)
    PROVE  Carries(me.succ)
<1>0. /\ me.req \in Req /\ Keeps(me.req) /\ op[me.op].req = me.req /\ op[me.op].lin = me.lin
      /\ me.op \in Ops /\ Prepared(me.op) /\ Tip(me.succ) /\ me.succ \in Objs
  BY Midway DEF Having
<1>1. PICK s \in Objs : s = me.succ
  BY <1>0
<1>2. obj[s].proj = me.req.proj /\ obj[s].lin = me.lin
  BY <1>0, <1>1 DEF Verified, Tip
<1>3. \A n \in DOMAIN obj[s].proj : obj[s].proj[n] # 0 =>
         plan[obj[s].proj[n]].owner = s /\ plan[obj[s].proj[n]].lin = obj[s].lin
  <2> SUFFICES ASSUME NEW n \in DOMAIN obj[s].proj, NEW p, p = obj[s].proj[n], p # 0
               PROVE  plan[p].owner = s /\ plan[p].lin = obj[s].lin
    OBVIOUS
  <2>1. CASE me.req.stacked
    <3>1. Sound(s)
      BY <1>1, <2>1 DEF Verified
    <3>2. plan[p] = [owner |-> s, node |-> n, lin |-> obj[s].lin,
                     pred |-> Previous(obj[s].proj, n)]
      BY <3>1 DEF Sound
    <3> QED
      BY <3>2
  <2>2. CASE ~ me.req.stacked
    <3>1. me.lin = 0
      BY <1>0, <2>2 DEF Inv, Store, Journal, Asked, Prepared
    <3>2. plan[p] = [owner |-> s, node |-> n, lin |-> 0, pred |-> 0]
      BY <1>1, <1>2, <2>2 DEF Verified
    <3> QED
      BY <1>2, <3>1, <3>2
  <2> QED
    BY <2>1, <2>2
<1>4. \A p \in 1..claimed : plan[p].owner = s
  <2> SUFFICES ASSUME NEW p \in 1..claimed PROVE plan[p].owner = s
    OBVIOUS
  <2>1. claimed \in Nat /\ claimed > 0 /\ p # 0
    <3>1. claimed \in Nat
      BY DEF Inv, Fields, Bounds
    <3> QED
      BY <3>1
  <2>2. me.req.stacked
    BY <1>0, <2>1 DEF Keeps
  <2>3. p \in Claims(s)
    <3>1. 1..claimed \subseteq Claims(s)
      BY <1>1, <2>1, <2>2 DEF Verified
    <3> QED
      BY <3>1
  <2>4. PICK n \in DOMAIN obj[s].proj : obj[s].proj[n] = p
    BY <2>3 DEF Claims, Carried
  <2> QED
    BY <1>3, <2>1, <2>4
<1> QED
  BY <1>1, <1>3, <1>4 DEF Carries

LEMMA VerifyInv ==
    ASSUME Bounds, Inv, Verify
    PROVE  Inv'
<1>0. /\ me.pc = "verify" /\ me.pc \in Having /\ Silent /\ edits' = edits /\ faults' = faults
      /\ edits \in Nat /\ faults \in Nat /\ me \in MeSet
  BY DEF Verify, fixed, Having, Silent, Inv, Fields
<1>1. CASE Quit
  BY <1>0, <1>1, Ended, Silently
<1>2. CASE Verified(me.succ) /\ me' = [me EXCEPT !.pc = "stamp"]
  <2>1. /\ me.run \in Runs /\ target[me.run] = me.obj /\ me.obj \in Objs /\ Exists(me.obj)
        /\ me.req \in Requests /\ me.req \in Req /\ Keeps(me.req)
        /\ me.op # 0 => /\ Prepared(me.op) /\ ~ me.now /\ op[me.op].pred = me.obj
                        /\ op[me.op].run = me.run
                        /\ op[me.op].req = me.req /\ op[me.op].lin = me.lin
        /\ me.op = 0 => ~ obj[me.obj].stacked
        /\ Tip(me.succ) /\ me.succ \in Objs
    BY <1>0, Midway
  <2>2. /\ me' \in MeSet /\ Same(me') /\ me'.pc = "stamp" /\ me'.succ = me.succ
        /\ me'.lin = me.lin
    BY <1>0, <1>2 DEF MeSet, Same, Steps
  <2>3. obj' = obj /\ plan' = plan /\ claimed' = claimed /\ op' = op /\ target' = target
    BY <1>0 DEF Silent
  <2>4. Aims' /\ Opens'
    BY <2>1, <2>2, <2>3 DEF Aims, Opens, Exists, Same
  <2>5. Holds'
    BY <2>1, <2>2, <2>3 DEF Holds, Prepared, Keeps, Same, Acting, Having, Ending
  <2>6. Has'
    <3>1. Tip(me.succ)'
      BY <1>0, <2>1, <2>2, <2>3 DEF Tip, Exists, Same
    <3>2. me.op # 0 => Carries(me.succ)
      BY <1>0, <1>2, VerifiedCarries, SMTT(60)
    <3>3. me'.op # 0 => Carries(me.succ)'
      BY <2>2, <2>3, <3>2 DEF Carries, Same
    <3>4. obj'[me'.succ].full
      BY <1>0, <2>2, <2>3 DEF Inv, Command, Has
    <3> QED
      BY <2>2, <3>1, <3>3, <3>4 DEF Has, Having, Ending
  <2> QED
    BY <1>0, <2>2, <2>4, <2>5, <2>6, Silently DEF Command
<1> QED
  BY <1>1, <1>2 DEF Verify

LEMMA Stamping ==
    ASSUME Bounds, Inv, me.pc = "stamp", obj[me.obj].by \in {0, me.succ},
           obj' = [obj EXCEPT ![me.obj].by = me.succ], me' = [me EXCEPT !.pc = "close"],
           UNCHANGED <<plan, prs, claimed, op, nops, target, nlin, edits, faults>>
    PROVE  Inv'
<1>0. /\ me \in MeSet /\ obj \in [Objs -> ObjSet]
      /\ me.run \in Runs /\ target[me.run] = me.obj /\ me.obj \in Objs /\ Exists(me.obj)
      /\ me.req \in Requests /\ Keeps(me.req)
      /\ me.op # 0 => /\ Prepared(me.op) /\ ~ me.now /\ op[me.op].pred = me.obj
                      /\ op[me.op].run = me.run /\ me.op \in Ops
                      /\ op[me.op].req = me.req /\ op[me.op].lin = me.lin
      /\ me.op = 0 => ~ obj[me.obj].stacked
      /\ Tip(me.succ) /\ me.succ \in Objs
  BY Midway DEF Having
<1>1. PICK s \in Objs : s = me.succ
  BY <1>0
<1>2. PICK k \in Objs : k = me.obj
  BY <1>0
<1>3. s \in 0..MaxObj /\ s # 0
  BY <1>1 DEF Objs, Bounds
<1>4. obj' = [obj EXCEPT ![k].by = s]
  BY <1>1, <1>2, SMTT(60)
<1>5. /\ obj' \in [Objs -> ObjSet] /\ Steady /\ obj'[k].by = s
      /\ \A i \in Objs : obj'[i].st = obj[i].st /\ obj'[i].full = obj[i].full
      /\ \A i \in Objs : i # k => obj'[i] = obj[i]
  BY <1>0, <1>3, <1>4, ObjSteps, ZenonT(60)
<1>6. /\ me' \in MeSet /\ Same(me') /\ me'.pc = "close" /\ me'.succ = me.succ
      /\ me'.lin = me.lin
  BY <1>0 DEF MeSet, Same, Steps
<1>7. /\ op' = op /\ target' = target /\ claimed' = claimed /\ nops' = nops
      /\ \A o : Prepared(o)' <=> Prepared(o)
      /\ \A i : Exists(i)' <=> Exists(i)
  BY <1>5 DEF Prepared, Exists
<1>8. Exists(s) /\ obj[s].run = me.run /\ obj[k].by \in {0, s}
  BY <1>0, <1>1, <1>2 DEF Tip
<1>9. Fields'
  BY <1>5, <1>6 DEF Inv, Fields
<1>10. Chain' /\ Apart' /\ Prefix' /\ OneEach'
  <2>1. Chain /\ Apart /\ Prefix /\ OneEach
    BY DEF Inv, Store
  <2>2. Chain'
    BY <1>5, <1>7, <2>1 DEF Chain, Steady
  <2>3. Apart' /\ OneEach'
    BY <1>5, <1>7, <2>1 DEF Apart, OneEach, Steady
  <2>4. Prefix'
    BY <1>5, <1>7, <2>1, SMTT(60) DEF Prefix, Keeps, Steady
  <2> QED
    BY <2>2, <2>3, <2>4, <2>1
<1>11. Journal'
  <2>1. Journal
    BY DEF Inv, Store
  <2> QED
    BY <1>5, <1>7, <2>1 DEF Journal, Asked, Keeps, Steady, Exists
<1>12. Reserved'
  <2> SUFFICES ASSUME NEW x \in Objs, obj'[x].st = "open", obj'[x].run # NoRun,
                      obj'[obj'[x].sup].stacked
               PROVE  \/ obj'[obj'[x].sup].by = x
                      \/ \E o \in Ops : /\ Prepared(o) /\ op[o].pred = obj'[x].sup
                                        /\ op[o].run = obj'[x].run
    BY <1>7 DEF Reserved
  <2>1. /\ obj[x].st = "open" /\ obj[x].run # NoRun /\ obj'[x].sup = obj[x].sup
        /\ obj'[x].run = obj[x].run
    BY <1>5 DEF Steady
  <2>2. obj[x].sup \in Objs
    BY <2>1 DEF Inv, Store, Chain, Exists
  <2>3. obj[obj[x].sup].stacked
    BY <1>5, <2>1, <2>2 DEF Steady
  <2>4. \/ obj[obj[x].sup].by = x
        \/ \E o \in Ops : /\ Prepared(o) /\ op[o].pred = obj[x].sup
                          /\ op[o].run = obj[x].run
    BY <2>1, <2>3 DEF Inv, Store, Reserved
  <2>5. x # 0
    BY DEF Objs, Bounds
  <2>6. obj[obj[x].sup].by = x => obj'[obj[x].sup].by = x
    BY <1>5, <1>8, <2>2, <2>5, SMTT(60)
  <2> QED
    BY <2>1, <2>4, <2>6, SMTT(60)
<1>13. Made'
  <2> SUFFICES ASSUME NEW o \in Ops, Prepared(o), NEW b, b = obj'[op[o].pred].by
               PROVE  /\ \A x \in Objs : obj'[x].st = "open" /\ obj'[x].run = op[o].run
                                         => obj'[x].lin = op[o].lin
                      /\ b # 0 => Exists(b) /\ obj'[b].run = op[o].run
    BY <1>7 DEF Made
  <2>1. op[o].pred \in Objs /\ obj[op[o].pred].stacked
    BY SMTT(60) DEF Inv, Store, Journal, Exists, Prepared
  <2>2. \A x \in Objs : obj'[x].st = "open" /\ obj'[x].run = op[o].run
                        => obj'[x].lin = op[o].lin
    BY <1>5, SMTT(60) DEF Inv, Store, Made, Steady
  <2>3. CASE op[o].pred = k
    <3>1. me.op # 0
      BY <1>0, <1>2, <2>1, <2>3
    <3>2. me.op \in Ops /\ Prepared(me.op) /\ op[me.op].pred = k /\ op[me.op].run = me.run
      BY <1>0, <1>2, <3>1
    <3>3. o = me.op
      BY <2>3, <3>2 DEF Inv, Store, OneEach
    <3>4. b = s /\ obj'[s].run = obj[s].run
      BY <1>5, <2>3, SMTT(60) DEF Steady
    <3> QED
      BY <1>8, <2>2, <3>2, <3>3, <3>4
  <2>4. CASE op[o].pred # k
    <3>1. b = obj[op[o].pred].by
      BY <1>5, <2>1, <2>4
    <3>2. b # 0 => Exists(b) /\ obj[b].run = op[o].run
      BY <3>1 DEF Inv, Store, Made
    <3>3. Exists(b) => obj'[b].run = obj[b].run
      BY <1>5 DEF Exists, Steady
    <3> QED
      BY <2>2, <3>2, <3>3
  <2> QED
    BY <2>3, <2>4
<1>14. LineageUnforked'
  <2>1. Lasting /\ \A p \in Plans : plan'[p].lin = plan[p].lin
    BY <1>5 DEF Lasting, Steady
  <2> QED
    BY <2>1, LineageStays DEF Inv
<1>15. Aims' /\ Opens'
  BY <1>0, <1>6, <1>7 DEF Aims, Opens, Same
<1>16. Holds'
  BY <1>0, <1>6, <1>7 DEF Holds, Same, Acting, Having, Ending
<1>17. Has'
  <2>1. Tip(me.succ)'
    <3>1. /\ Exists(s) /\ s # me.obj /\ obj[s].run = me.run
          /\ obj[s].lin = me.lin /\ (edits = 0 => obj[s].st = "open")
          /\ \A t \in Objs : obj[t].st = "open" /\ obj[t].run = me.run => t = s
      BY <1>0, <1>1 DEF Tip
    <3>2. me'.obj = me.obj /\ me'.run = me.run
      BY <1>6 DEF Same
    <3> QED
      BY <1>1, <1>5, <1>6, <1>7, <3>1, <3>2 DEF Tip, Exists, Steady
  <2>2. obj'[me'.obj].by = me'.succ
    BY <1>1, <1>2, <1>5, <1>6 DEF Same
  <2> QED
    BY <1>6, <2>1, <2>2 DEF Has, Having, Ending
<1> QED
  BY <1>9, <1>10, <1>11, <1>12, <1>13, <1>14, <1>15, <1>16, <1>17 DEF Inv, Store, Command

LEMMA StampInv ==
    ASSUME Bounds, Inv, Stamp
    PROVE  Inv'
<1>0. /\ me.pc = "stamp" /\ me \in MeSet /\ edits \in Nat /\ faults \in Nat
      /\ UNCHANGED <<plan, prs, claimed, op, nops, target, nlin, edits, faults>>
  BY DEF Stamp, fixed, Inv, Fields
<1>1. CASE Quit /\ obj' = obj
  <2>1. Silent
    BY <1>0, <1>1 DEF Silent
  <2> QED
    BY <1>0, <1>1, <2>1, Ended, Silently
<1>2. CASE /\ obj[me.obj].by \in {0, me.succ}
           /\ obj' = [obj EXCEPT ![me.obj].by = me.succ]
           /\ me' = [me EXCEPT !.pc = "close"]
  BY <1>0, <1>2, Stamping
<1> QED
  BY <1>1, <1>2 DEF Stamp

\* Closing an objective, by the command or by hand, leaves the store in order.
LEMMA Closes ==
    ASSUME Bounds, Inv, NEW k \in Objs, obj[k].st # "none",
           obj' = [obj EXCEPT ![k].st = "closed"],
           UNCHANGED <<plan, prs, claimed, op, nops, target, nlin>>,
           me' \in MeSet, edits' \in Nat, faults' \in Nat
    PROVE  /\ Fields' /\ Store' /\ LineageUnforked' /\ Steady
           /\ \A i \in Objs : obj'[i].by = obj[i].by /\ obj'[i].full = obj[i].full
           /\ \A i \in Objs : i # k => obj'[i] = obj[i]
<1>0. obj \in [Objs -> ObjSet] /\ 0 \in 0..MaxObj
  BY DEF Inv, Fields, Bounds
<1>1. /\ obj' \in [Objs -> ObjSet] /\ Steady
      /\ \A i \in Objs : obj'[i].by = obj[i].by /\ obj'[i].full = obj[i].full
      /\ \A i \in Objs : i # k => obj'[i] = obj[i]
  BY <1>0, ObjSteps
<1>2. Fields'
  BY <1>1 DEF Inv, Fields
<1>3. Store'
  <2>1. Calm /\ ByStays
    BY <1>1 DEF Calm, ByStays, Inv, Fields
  <2> QED
    BY <1>1, <2>1, SteadyStore DEF Inv
<1>4. LineageUnforked'
  <2>1. Lasting /\ \A p \in Plans : plan'[p].lin = plan[p].lin
    BY <1>1 DEF Lasting, Steady
  <2> QED
    BY <2>1, LineageStays DEF Inv
<1> QED
  BY <1>1, <1>2, <1>3, <1>4

LEMMA CloseInv ==
    ASSUME Bounds, Inv, Close
    PROVE  Inv'
<1>0. /\ me.pc = "close" /\ obj' = [obj EXCEPT ![me.obj].st = "closed"]
      /\ UNCHANGED <<plan, prs, claimed, op, nops, target, nlin, edits, faults>>
      /\ me \in MeSet /\ edits \in Nat /\ faults \in Nat
  BY DEF Close, fixed, Inv, Fields
<1>1. /\ me.run \in Runs /\ target[me.run] = me.obj /\ me.obj \in Objs /\ Exists(me.obj)
      /\ me.req \in Requests
  BY <1>0 DEF Inv, Command, Aims, Exists
<1>2. CASE Quit
  <2>1. me' \in MeSet /\ Command'
    BY <1>0, <1>2, Ended
  <2>2. Fields' /\ Store' /\ LineageUnforked'
    BY <1>0, <1>1, <2>1, Closes DEF Exists
  <2> QED
    BY <2>1, <2>2 DEF Inv
<1>3. CASE me.op # 0 /\ me' = [me EXCEPT !.pc = "complete"]
  <2>1. /\ Prepared(me.op) /\ ~ me.now /\ op[me.op].pred = me.obj
        /\ op[me.op].run = me.run /\ op[me.op].req = me.req /\ op[me.op].lin = me.lin
    BY <1>0, <1>3 DEF Inv, Command, Holds, Acting, Ending
  <2>2. Keeps(me.req)
    <3>1. me.op \in Ops
      BY <1>0, <1>3, SMTT(60) DEF MeSet, Ops, Bounds
    <3> QED
      BY <2>1, <3>1 DEF Inv, Store, Journal, Asked, Prepared
  <2>3. PICK s : s = me.succ
    OBVIOUS
  <2>4. /\ Exists(s) /\ s # me.obj /\ obj[s].run = me.run
        /\ obj[s].lin = me.lin /\ (edits = 0 => obj[s].st = "open")
        /\ \A t \in Objs : obj[t].st = "open" /\ obj[t].run = me.run => t = s
        /\ obj[me.obj].by = s
    BY <1>0, <1>3, <2>3 DEF Inv, Command, Has, Tip, Ending
  <2>5. /\ me' \in MeSet /\ Same(me') /\ me'.pc = "complete" /\ me'.succ = s
        /\ me'.lin = me.lin
    BY <1>0, <1>3, <2>3 DEF MeSet, Same, Steps
  <2>6. /\ Fields' /\ Store' /\ LineageUnforked' /\ Steady
        /\ \A i \in Objs : obj'[i].by = obj[i].by /\ obj'[i].full = obj[i].full
        /\ \A i \in Objs : i # me.obj => obj'[i] = obj[i]
    BY <1>0, <1>1, <2>5, Closes DEF Exists
  <2>7. Aims' /\ Opens'
    BY <1>0, <1>1, <2>5, <2>6 DEF Aims, Opens, Same, Exists, Steady
  <2>8. Holds'
    BY <1>0, <1>3, <2>1, <2>2, <2>5 DEF Holds, Same, Prepared, Keeps, Acting, Having, Ending
  <2>9. Has'
    <3>1. me'.obj = me.obj /\ me'.run = me.run /\ s \in Objs
      BY <2>4, <2>5 DEF Same, Exists
    <3>2. Tip(me.succ)'
      BY <1>0, <2>4, <2>5, <2>6, <3>1 DEF Tip, Exists, Steady
    <3>3. obj'[me'.obj].by = me'.succ
      BY <1>1, <2>4, <2>5, <2>6, <3>1
    <3> QED
      BY <2>5, <3>2, <3>3 DEF Has, Having, Ending
  <2> QED
    BY <2>6, <2>7, <2>8, <2>9 DEF Inv, Command
<1> QED
  BY <1>2, <1>3 DEF Close

LEMMA CompleteInv ==
    ASSUME Bounds, Inv, Complete
    PROVE  Inv'
<1>0. /\ me.pc = "complete" /\ op' = [op EXCEPT ![me.op].st = "completed"] /\ Quit
      /\ UNCHANGED <<obj, plan, prs, claimed, nops, target, nlin, edits, faults>>
      /\ me \in MeSet
  BY DEF Complete, fixed, Inv, Fields
<1>1. /\ me.op # 0 /\ Prepared(me.op) /\ op[me.op].pred = me.obj /\ op[me.op].run = me.run
  BY <1>0 DEF Inv, Command, Holds, Acting, Ending
<1>2. PICK o \in Ops : o = me.op
  BY <1>0, <1>1 DEF MeSet, Ops, Bounds
<1>3. /\ obj[me.obj].by = me.succ
      /\ \A t \in Objs : obj[t].st = "open" /\ obj[t].run = me.run => t = me.succ
  BY <1>0, <1>1 DEF Inv, Command, Has, Tip, Ending
<1>4. me' \in MeSet /\ Command'
  BY <1>0, Ended
<1>5. \A s \in Objs : obj[s].st = "open" /\ obj[s].run = op[o].run => obj[op[o].pred].by = s
  BY <1>1, <1>2, <1>3
<1>6. Prepared(o) /\ op' = [op EXCEPT ![o].st = "completed"]
  BY <1>0, <1>1, <1>2
<1> QED
  BY <1>0, <1>4, <1>5, <1>6, Concludes

LEMMA RecoverInv ==
    ASSUME Bounds, Inv, Recover
    PROVE  Inv'
<1>0. /\ UNCHANGED <<obj, plan, prs, claimed, nops, target, nlin, edits, faults>>
      /\ me \in MeSet /\ edits \in Nat /\ faults \in Nat
  BY DEF Recover, fixed, Inv, Fields
<1>1. CASE op' = op /\ Quit
  <2>1. Silent
    BY <1>0, <1>1 DEF Silent
  <2> QED
    BY <1>0, <1>1, <2>1, Ended, Silently
<1>2. ASSUME NEW o \in Unresolved(me.obj),
             \/ /\ Execute(op[o].pred, op[o].run, op[o].req, op[o].lin, o, FALSE)
                /\ op' = op
             \/ /\ Find(op[o].run) = {}
                /\ op' = [op EXCEPT ![o].st = "abandoned"] /\ Quit
      PROVE  Inv'
  <2>1. o \in Ops /\ Prepared(o)
    BY DEF Unresolved, Prepared
  <2>2. CASE /\ Execute(op[o].pred, op[o].run, op[o].req, op[o].lin, o, FALSE)
             /\ op' = op
    <3>1. Silent
      BY <1>0, <2>2 DEF Silent
    <3> QED
      BY <1>0, <2>1, <2>2, <3>1, RollsForward
  <2>3. CASE /\ Find(op[o].run) = {}
             /\ op' = [op EXCEPT ![o].st = "abandoned"] /\ Quit
    <3>1. me' \in MeSet /\ Command'
      BY <1>0, <2>3, Ended
    <3>2. \A s \in Objs : ~ (obj[s].st = "open" /\ obj[s].run = op[o].run)
      BY <2>3 DEF Find
    <3> QED
      BY <1>0, <2>1, <2>3, <3>1, <3>2, Concludes
  <2> QED
    BY <1>2, <2>2, <2>3
<1> QED
  BY <1>1, <1>2 DEF Recover

LEMMA MeddleInv ==
    ASSUME Bounds, Inv, Meddle
    PROVE  Inv'
<1>0. /\ me' = me /\ edits' = edits + 1 /\ faults' = faults
      /\ UNCHANGED <<prs, claimed, op, nops, target, nlin>>
      /\ me \in MeSet /\ edits \in Nat /\ faults \in Nat
      /\ obj \in [Objs -> ObjSet] /\ plan \in [Plans -> PlanSet]
  BY DEF Meddle, fixed, Inv, Fields
<1>1. edits' \in Nat /\ edits' # 0
  BY <1>0
<1>2. CASE obj' = obj /\ \E p \in Plans, i \in Objs : plan' = [plan EXCEPT ![p].owner = i]
  <2>1. PICK p \in Plans, i \in Objs : plan' = [plan EXCEPT ![p].owner = i]
    BY <1>2
  <2>2. /\ plan' \in [Plans -> PlanSet]
        /\ \A q \in Plans : plan'[q].lin = plan[q].lin
    BY <1>0, <2>1 DEF PlanSet
  <2>3. Fields'
    BY <1>0, <1>1, <1>2, <2>2 DEF Inv, Fields
  <2>4. Store'
    BY <1>0, <1>2, StoreStays DEF Inv
  <2>5. LineageUnforked'
    <3>1. Lasting
      BY <1>2 DEF Lasting
    <3> QED
      BY <2>2, <3>1, LineageStays DEF Inv
  <2>6. Command'
    <3>1. Aims' /\ Opens' /\ Holds'
      BY <1>0, <1>2 DEF Inv, Command, Aims, Opens, Holds, Exists, Asked, Keeps, Prepared
    <3>2. Has'
      BY <1>0, <1>1, <1>2 DEF Inv, Command, Has, Tip, Exists
    <3> QED
      BY <3>1, <3>2 DEF Command
  <2> QED
    BY <2>3, <2>4, <2>5, <2>6 DEF Inv
<1>3. CASE plan' = plan /\ \E i \in Objs : /\ obj[i].st = "open"
                                           /\ obj' = [obj EXCEPT ![i].st = "closed"]
  <2>1. PICK k \in Objs : obj[k].st = "open" /\ obj' = [obj EXCEPT ![k].st = "closed"]
    BY <1>3
  <2>2. /\ Fields' /\ Store' /\ LineageUnforked' /\ Steady
        /\ \A i \in Objs : obj'[i].by = obj[i].by /\ obj'[i].full = obj[i].full
    BY <1>0, <1>1, <1>3, <2>1, Closes
  <2>3. \A i : Exists(i)' <=> Exists(i)
    BY <2>2 DEF Exists, Steady
  <2>4. Aims'
    BY <1>0, <2>3 DEF Inv, Command, Aims
  <2>5. Opens'
    <3> SUFFICES ASSUME me.pc = "prepare"
                 PROVE  /\ obj'[me.obj].stacked /\ obj'[me.obj].by = 0 /\ nops < MaxOps
                        /\ Asked(me)
                        /\ \A o \in Ops : Prepared(o) => op[o].pred # me.obj
      BY <1>0 DEF Opens, Asked, Keeps, Prepared
    <3>1. Exists(me.obj) /\ obj[me.obj].stacked /\ obj[me.obj].by = 0
      BY DEF Inv, Command, Aims, Opens
    <3>2. obj'[me.obj].stacked /\ obj'[me.obj].by = 0
      BY <2>2, <3>1 DEF Exists, Steady
    <3> QED
      BY <3>2 DEF Inv, Command, Opens
  <2>6. Holds'
    <3>1. Holds /\ (me.pc \in Acting => Exists(me.obj))
      BY DEF Inv, Command, Aims, Acting, Having, Ending
    <3>2. Exists(me.obj) => obj'[me.obj].stacked = obj[me.obj].stacked
      BY <2>2 DEF Exists, Steady
    <3> QED
      BY <1>0, <3>1, <3>2 DEF Holds, Prepared, Keeps
  <2>7. Has'
    <3>1. (Has /\ Exists(me.obj)) \/ me.pc = "idle"
      BY DEF Inv, Command, Aims
    <3>2. CASE me.pc = "idle"
      BY <1>0, <3>2 DEF Has, Having, Ending
    <3>3. CASE Has /\ Exists(me.obj)
      <4>1. \A s : Tip(s) => Tip(s)'
        BY <1>0, <1>1, <2>2, <2>3 DEF Tip, Exists, Steady
      <4>2. Tip(me.succ) => Tip(me.succ)' /\ me.succ \in Objs
        BY <1>0, <4>1 DEF Tip, Exists
      <4>3. Exists(me.obj) => obj'[me.obj].by = obj[me.obj].by
        BY <2>2 DEF Exists
      <4>4. me.succ \in Objs => obj'[me.succ].full = obj[me.succ].full
        BY <2>2
      <4>5. \A s \in Objs : /\ obj'[s].run = obj[s].run /\ obj'[s].lin = obj[s].lin
                            /\ obj'[s].st = "open" => obj[s].st = "open"
        BY <2>2 DEF Steady
      <4>6. /\ me.pc \in Having \/ (me.pc \in Ending /\ me.op # 0) => Tip(me.succ)'
            /\ me.pc \in {"own", "identify", "verify", "stamp"} => obj'[me.succ].full
        BY <3>3, <4>2, <4>4 DEF Has, Having
      <4>7. /\ me.pc = "create" /\ ~ me.now => \A s \in Objs :
                 obj'[s].st = "open" /\ obj'[s].run = me.run => obj'[s].lin = me.lin
            /\ me.pc \in Ending /\ me.op # 0 => obj'[me.obj].by = me.succ
        BY <3>3, <4>3, <4>5 DEF Has
      <4> QED
        BY <1>0, <1>1, <4>6, <4>7 DEF Has
    <3> QED
      BY <3>1, <3>2, <3>3
  <2> QED
    BY <2>2, <2>4, <2>5, <2>6, <2>7 DEF Inv, Command
<1> QED
  BY <1>2, <1>3 DEF Meddle

LEMMA CrashInv ==
    ASSUME Bounds, Inv, Crash
    PROVE  Inv'
<1>1. Silent /\ edits' = edits /\ faults' = faults + 1 /\ Quit
  BY DEF Crash, Fault, Silent, fixed
<1>2. me \in MeSet /\ edits \in Nat /\ faults \in Nat
  BY DEF Inv, Fields
<1>3. edits' \in Nat /\ faults' \in Nat
  BY <1>1, <1>2
<1> QED
  BY <1>1, <1>2, <1>3, Ended, Silently

LEMMA InitInv ==
    ASSUME Bounds, Init
    PROVE  Inv
<1>1. PICK s \in BOOLEAN, k \in 0..1 :
         /\ s \/ k = 0
         /\ claimed = k /\ prs \in {1..k, (1..k) \cup {N}}
         /\ obj = [i \in Objs |-> IF i = 1
                     THEN [NoObj EXCEPT !.st = "open", !.lin = IF s THEN 1 ELSE 0,
                                        !.stacked = s, !.proj = Whole, !.full = TRUE]
                     ELSE NoObj]
         /\ plan = [p \in Plans |-> [owner |-> 1, node |-> p,
                                     lin |-> IF s THEN 1 ELSE 0,
                                     pred |-> IF s THEN p - 1 ELSE 0]]
  BY DEF Init
<1>2. /\ op = [o \in Ops |-> NoOp] /\ nops = 0
      /\ target = [r \in Runs |-> 0] /\ nlin = 1
      /\ me = Idle /\ edits = 0 /\ faults = 0
  BY DEF Init
<1>3. PICK y : y = [NoObj EXCEPT !.st = "open", !.lin = IF s THEN 1 ELSE 0,
                                 !.stacked = s, !.proj = Whole, !.full = TRUE]
  OBVIOUS
<1>4. /\ N \in Nat /\ N > 0 /\ MaxObj \in Nat /\ MaxObj > 0 /\ MaxOps \in Nat
      /\ 0 \in 0..MaxObj /\ 0 \in 0..MaxOps /\ 1 \in Objs /\ <<>> \in Seq(0..N)
  BY DEF Bounds, Objs
<1>5. Whole \in Seq(0..N) /\ Len(Whole) = N /\ \A n \in 1..N : Whole[n] = n
  BY <1>4 DEF Whole
<1>6. PICK l : l = IF s THEN 1 ELSE 0
  OBVIOUS
<1>7. /\ y.st = "open" /\ y.run = NoRun /\ y.sup = 0 /\ y.by = 0 /\ y.lin = l
      /\ y.stacked = s /\ y.proj = Whole /\ y.full /\ y \in ObjSet
  <2>1. l \in Nat
    BY <1>6
  <2>2. y = [st |-> "open", run |-> NoRun, sup |-> 0, by |-> 0, lin |-> l,
             stacked |-> s, proj |-> Whole, full |-> TRUE]
    BY <1>3, <1>6 DEF NoObj
  <2> QED
    BY <1>4, <1>5, <2>1, <2>2 DEF ObjSet
<1>8. NoObj \in ObjSet /\ NoObj.st = "none"
  BY <1>4 DEF NoObj, ObjSet
<1>9. obj \in [Objs -> ObjSet] /\ obj[1] = y /\ \A i \in Objs : i # 1 => obj[i] = NoObj
  BY <1>1, <1>3, <1>4, <1>7, <1>8
<1>10. Fields
  <2>1. plan \in [Plans -> PlanSet]
    <3> SUFFICES ASSUME NEW p \in Plans
                 PROVE  [owner |-> 1, node |-> p, lin |-> IF s THEN 1 ELSE 0,
                         pred |-> IF s THEN p - 1 ELSE 0] \in PlanSet
      BY <1>1
    <3>1. p \in Nat /\ (IF s THEN 1 ELSE 0) \in Nat /\ (IF s THEN p - 1 ELSE 0) \in 0..N
      BY <1>4 DEF Plans
    <3> QED
      BY <1>4, <3>1 DEF PlanSet
  <2>2. prs \subseteq Plans /\ claimed \in 0..N
    BY <1>1, <1>4 DEF Plans
  <2>3. NoReq \in Req /\ NoOp \in OpSet
    BY <1>4 DEF NoReq, Req, NoOp, OpSet
  <2>4. op \in [Ops -> OpSet] /\ target \in [Runs -> 0..MaxObj]
    BY <1>2, <1>4, <2>3
  <2>5. me \in MeSet
    BY <1>2, <1>4, <2>3 DEF Idle, MeSet, Steps
  <2> QED
    BY <1>2, <1>4, <1>9, <2>1, <2>2, <2>4, <2>5 DEF Fields
<1>11. \A i : Exists(i) <=> i = 1
  BY <1>4, <1>7, <1>8, <1>9 DEF Exists
<1>12. \A o \in Ops : op[o].st = "none"
  BY <1>2 DEF NoOp
<1>13. Chain /\ Apart /\ Reserved
  BY <1>7, <1>8, <1>9, <1>11 DEF Chain, Apart, Reserved
<1>14. Prefix
  <2>1. Keeps(y)
    BY <1>1, <1>4, <1>5, <1>7 DEF Keeps
  <2> QED
    BY <1>9, <1>11, <2>1 DEF Prefix
<1>15. Journal /\ OneEach /\ Made
  BY <1>12 DEF Journal, OneEach, Made, Prepared
<1>16. LineageUnforked
  <2>1. \A p \in Plans : plan[p].lin = l
    BY <1>1, <1>6
  <2> QED
    BY <1>4, <1>7, <1>9, <2>1 DEF LineageUnforked
<1>17. Command
  <2>1. me.pc = "idle"
    BY <1>2 DEF Idle
  <2> QED
    BY <2>1 DEF Command, Aims, Opens, Holds, Has, Acting, Having, Ending
<1> QED
  BY <1>10, <1>13, <1>14, <1>15, <1>16, <1>17 DEF Inv, Store

-----------------------------------------------------------------------------
LEMMA NextInv ==
    ASSUME Bounds, Inv, [Next]_vars
    PROVE  Inv'
<1>1. CASE SupersedeIncremental
  BY <1>1, SupersedeIncrementalInv
<1>2. CASE Run
  BY <1>2, RunInv
<1>3. CASE Prepare
  BY <1>3, PrepareInv
<1>4. CASE Create
  BY <1>4, CreateInv
<1>5. CASE Body
  BY <1>5, BodyInv
<1>6. CASE Own
  BY <1>6, OwnInv
<1>7. CASE Identify
  BY <1>7, IdentifyInv
<1>8. CASE Verify
  BY <1>8, VerifyInv
<1>9. CASE Stamp
  BY <1>9, StampInv
<1>10. CASE Close
  BY <1>10, CloseInv
<1>11. CASE Complete
  BY <1>11, CompleteInv
<1>12. CASE Recover
  BY <1>12, RecoverInv
<1>13. CASE Meddle
  BY <1>13, MeddleInv
<1>14. CASE Crash
  BY <1>14, CrashInv
<1>15. ASSUME NEW i \in Objs, NEW r \in Runs, NEW q \in Requests, Begin("save", i, r, q)
       PROVE  Inv'
  <2>1. q \in Req /\ r \in Runs \cup {NoRun}
    BY Requested
  <2> QED
    BY <1>15, <2>1, BeginInv
<1>16. ASSUME NEW i \in Objs, NEW c \in {"recover", "abandon"}, Begin(c, i, NoRun, NoReq)
       PROVE  Inv'
  <2>1. NoReq \in Req /\ NoRun \in Runs \cup {NoRun} /\ c # "save"
    BY DEF NoReq, Req
  <2> QED
    BY <1>16, <2>1, BeginInv
<1>17. CASE UNCHANGED vars
  <2>1. Silent /\ me' = me /\ edits' = edits /\ faults' = faults /\ plan' = plan
    BY <1>17, SMTT(60) DEF vars, Silent
  <2>2. Command'
    BY <2>1 DEF Inv, Command, Aims, Opens, Holds, Has, Silent, Exists, Asked, Keeps, Prepared,
                Tip, Carries
  <2> QED
    BY <2>1, <2>2, Silently DEF Inv, Fields
<1> QED
  BY <1>1, <1>2, <1>3, <1>4, <1>5, <1>6, <1>7, <1>8, <1>9, <1>10, <1>11, <1>12, <1>13,
     <1>14, <1>15, <1>16, <1>17 DEF Next, Work

\* The invariant that the theorems rest on.
THEOREM Invariance ==
    ASSUME Bounds
    PROVE  Spec => []Inv
<1>1. Init => Inv
  BY InitInv
<1>2. Inv /\ [Next]_vars => Inv'
  BY NextInv
<1> QED
  BY <1>1, <1>2, PTL DEF Spec

\* Every stored field stays in range, and a predecessor never has two unresolved
\* operations (Transfer's type invariant).
THEOREM TypeCorrect ==
    ASSUME Bounds
    PROVE  Spec => []TypeOK
<1>1. Inv => TypeOK
  <2> SUFFICES ASSUME Inv PROVE TypeOK
    OBVIOUS
  <2>1. \A i \in Objs : /\ obj[i].st \in {"none", "open", "closed"}
                        /\ obj[i].sup \in 0..MaxObj /\ obj[i].by \in 0..MaxObj
    BY DEF Inv, Fields, ObjSet
  <2>2. (\A p \in Plans : plan[p].owner \in Objs) /\ nops \in 0..MaxOps
    BY DEF Inv, Fields, PlanSet
  <2>3. \A o, q \in Ops : /\ op[o].st = "prepared" /\ op[q].st = "prepared"
                          /\ op[o].pred = op[q].pred
                          => o = q
    BY DEF Inv, Store, OneEach, Prepared
  <2> QED
    BY <2>1, <2>2, <2>3 DEF TypeOK
<1> QED
  BY <1>1, Invariance, PTL

\* Two live successors of a stacked objective are the same one.
LEMMA LiveOnce ==
    ASSUME Bounds, Inv, NEW i \in Objs, obj[i].stacked,
           NEW s \in Objs, obj[s].st = "open", obj[s].sup = i,
           NEW t \in Objs, obj[t].st = "open", obj[t].sup = i
    PROVE  s = t
<1>1. i # 0 /\ s # 0 /\ t # 0
  BY DEF Objs, Bounds
<1>2. obj[s].run # NoRun /\ obj[t].run # NoRun
  BY <1>1 DEF Inv, Store, Chain, Exists
<1>3. /\ obj[i].by = s \/ \E o \in Ops : /\ Prepared(o) /\ op[o].pred = i
                                         /\ op[o].run = obj[s].run
      /\ obj[i].by = t \/ \E o \in Ops : /\ Prepared(o) /\ op[o].pred = i
                                         /\ op[o].run = obj[t].run
  BY <1>2 DEF Inv, Store, Reserved
<1>4. SUFFICES ASSUME s # t PROVE obj[s].run = obj[t].run
  BY <1>2 DEF Inv, Store, Apart
<1>5. \A o \in Ops : Prepared(o) /\ op[o].pred = i /\ obj[i].by # 0
                     => obj[obj[i].by].run = op[o].run
  BY DEF Inv, Store, Made
<1>6. \A o, q \in Ops : Prepared(o) /\ Prepared(q) /\ op[o].pred = i /\ op[q].pred = i => o = q
  BY DEF Inv, Store, OneEach
<1>7. CASE obj[i].by = s
  <2>1. PICK o \in Ops : Prepared(o) /\ op[o].pred = i /\ op[o].run = obj[t].run
    BY <1>3, <1>4, <1>7
  <2> QED
    BY <1>1, <1>5, <1>7, <2>1
<1>8. CASE obj[i].by # s
  <2>1. PICK o \in Ops : Prepared(o) /\ op[o].pred = i /\ op[o].run = obj[s].run
    BY <1>3, <1>8
  <2>2. CASE obj[i].by = t
    BY <1>1, <1>5, <2>1, <2>2
  <2>3. CASE obj[i].by # t
    BY <1>3, <1>6, <2>1, <2>3
  <2> QED
    BY <2>2, <2>3
<1> QED
  BY <1>7, <1>8

\* Whichever sessions replan a stacked objective, wherever they are interrupted
\* and whatever is closed or re-owned by hand, it has at most one live successor:
\* the journal's prepared record and the stamp each name one session, and they
\* name the same.
THEOREM OneLiveSuccessor ==
    ASSUME Bounds
    PROVE  Spec => []OneSuccessor
<1>1. Inv => OneSuccessor
  <2> SUFFICES ASSUME Inv, NEW i \in Objs, obj[i].stacked
               PROVE  Cardinality({s \in Objs : obj[s].st = "open" /\ obj[s].sup = i}) <= 1
    BY DEF OneSuccessor
  <2> DEFINE S == {s \in Objs : obj[s].st = "open" /\ obj[s].sup = i}
  <2>1. CASE S = {}
    BY <2>1, FS_EmptySet, SMTT(60)
  <2>2. CASE S # {}
    <3>1. PICK s : s \in S
      BY <2>2
    <3>2. \A t \in S : t = s
      BY <3>1, LiveOnce
    <3>3. S = {s}
      BY <3>1, <3>2
    <3>4. Cardinality(S) = 1
      BY <3>3, FS_Singleton, Zenon
    <3> QED
      BY <3>4
  <2> QED
    BY <2>1, <2>2
<1> QED
  BY <1>1, Invariance, PTL

\* The train's identity never forks: the lineage of every plan is that of a stored
\* objective, after every interruption of a conversion or an ownership write.
THEOREM LineageNeverForks ==
    ASSUME Bounds
    PROVE  Spec => []LineageUnforked
<1>1. Inv => LineageUnforked
  BY DEF Inv
<1> QED
  BY <1>1, Invariance, PTL

\* The stamp of a stacked objective: what was verified still stands.
LEMMA StampedLast ==
    ASSUME Bounds, Inv, me.pc = "stamp", obj[me.obj].stacked, edits = 0
    PROVE  /\ me.succ \in Objs /\ obj[me.succ].st = "open" /\ obj[me.succ].sup = me.obj
           /\ obj[me.succ].full /\ Carries(me.succ)
<1>1. /\ me.run \in Runs /\ target[me.run] = me.obj /\ me.op # 0 /\ Tip(me.succ)
      /\ me.succ \in Objs
  BY Midway DEF Having
<1>2. obj[me.succ].st = "open" /\ obj[me.succ].run = me.run /\ Exists(me.succ)
  BY <1>1 DEF Tip
<1>3. obj[me.succ].sup = me.obj
  BY <1>1, <1>2 DEF Inv, Store, Chain, Bounds
<1>4. obj[me.succ].full /\ Carries(me.succ)
  BY <1>1 DEF Inv, Command, Has
<1> QED
  BY <1>1, <1>2, <1>3, <1>4

\* Only the stamp supersedes.
LEMMA OnlyStamp ==
    ASSUME Bounds, Inv, [Next]_vars, ~ Stamp
    PROVE  \A i \in Objs : obj'[i].by # 0 => obj'[i].by = obj[i].by
<1>0. obj \in [Objs -> ObjSet] /\ me \in MeSet
  BY DEF Inv, Fields
<1>1. CASE obj' = obj
  BY <1>1
<1>2. ASSUME NEW k, \/ obj' = [obj EXCEPT ![k].full = TRUE]
                    \/ obj' = [obj EXCEPT ![k].st = "closed"]
      PROVE  \A i \in Objs : obj'[i].by = obj[i].by
  <2> SUFFICES ASSUME NEW i \in Objs PROVE obj'[i].by = obj[i].by
    OBVIOUS
  <2>1. obj[i] \in ObjSet
    BY <1>0
  <2>2. CASE i = k
    BY <1>0, <1>2, <2>1, <2>2 DEF ObjSet
  <2>3. CASE i # k
    BY <1>0, <1>2, <2>3, SMTT(60)
  <2> QED
    BY <2>2, <2>3
<1>3. ASSUME Create PROVE \A i \in Objs : obj'[i].by # 0 => obj'[i].by = obj[i].by
  <2>1. CASE \E s \in Find(me.run) : obj' = [obj EXCEPT ![s].full = TRUE]
    BY <1>2, <2>1
  <2>2. CASE \E f : obj' = [obj EXCEPT ![f] =
                       [st |-> "open", run |-> me.run, sup |-> me.obj, by |-> 0,
                        lin |-> me.lin, stacked |-> me.req.stacked,
                        proj |-> me.req.proj, full |-> FALSE]]
    BY <1>0, <2>2
  <2> QED
    BY <1>1, <1>3, <2>1, <2>2 DEF Create
<1>4. CASE Body
  <2>1. PICK k : k = me.succ
    OBVIOUS
  <2>2. obj' = [obj EXCEPT ![k].full = TRUE]
    BY <1>4, <2>1 DEF Body
  <2> QED
    BY <1>2, <2>2
<1>5. CASE Close
  <2>1. PICK k : k = me.obj
    OBVIOUS
  <2>2. obj' = [obj EXCEPT ![k].st = "closed"]
    BY <1>5, <2>1 DEF Close
  <2> QED
    BY <1>2, <2>2
<1>6. CASE Meddle
  <2>1. \/ obj' = obj
        \/ \E i \in Objs : /\ obj[i].st = "open"
                          /\ obj' = [obj EXCEPT ![i].st = "closed"] /\ UNCHANGED plan
    BY <1>6, ZenonT(60) DEF Meddle
  <2> QED
    BY <1>1, <1>2, <2>1
<1>7. CASE SupersedeIncremental \/ Run \/ Prepare \/ Own \/ Identify \/ Verify \/ Complete
           \/ Recover \/ Crash \/ UNCHANGED vars
  BY <1>1, <1>7, ZenonT(60) DEF SupersedeIncremental, Run, Prepare, Own, Identify, Verify, Complete,
                    Recover, Crash, vars
<1>8. CASE \E i \in Objs : \/ \E r \in Runs, q \in Requests : Begin("save", i, r, q)
                           \/ \E c \in {"recover", "abandon"} : Begin(c, i, NoRun, NoReq)
  BY <1>1, <1>8 DEF Begin
<1> QED
  BY <1>3, <1>4, <1>5, <1>6, <1>7, <1>8 DEF Next, Work

\* A stacked objective is superseded last: when the stamp appears, and nobody else
\* has interfered, the successor is whole, owns every plan it carries under the
\* train's lineage, and no published plan was dropped.
THEOREM Superseding ==
    ASSUME Bounds
    PROVE  Spec => [][SupersededLast]_vars
<1>1. Inv /\ [Next]_vars => SupersededLast
  <2> SUFFICES ASSUME Inv, [Next]_vars, NEW i \in Objs, obj[i].by = 0, obj'[i].by # 0,
                      obj[i].stacked, edits = 0
               PROVE  LET s == obj'[i].by
                      IN  /\ obj[s].st = "open" /\ obj[s].sup = i /\ obj[s].full
                          /\ \A n \in DOMAIN obj[s].proj : obj[s].proj[n] # 0 =>
                               /\ plan[obj[s].proj[n]].owner = s
                               /\ plan[obj[s].proj[n]].lin = obj[s].lin
                          /\ \A p \in 1..claimed : plan[p].owner = s
    BY DEF SupersededLast
  <2>1. Stamp
    BY OnlyStamp
  <2>2. me.pc = "stamp" /\ obj' = [obj EXCEPT ![me.obj].by = me.succ]
    BY <2>1 DEF Stamp
  <2>3. obj \in [Objs -> ObjSet] /\ me.obj \in Objs
    BY <2>2, Midway DEF Having
  <2>4. i = me.obj /\ obj'[i].by = me.succ
    <3>1. i = me.obj
      BY <2>2, <2>3
    <3>2. obj[i] \in ObjSet
      BY <2>3
    <3> QED
      BY <2>2, <2>3, <3>1, <3>2 DEF ObjSet
  <2>5. PICK s \in Objs : s = me.succ
    BY <2>2, <2>4, StampedLast
  <2>6. obj[s].st = "open" /\ obj[s].sup = i /\ obj[s].full /\ Carries(s)
    BY <2>2, <2>4, <2>5, StampedLast
  <2>7. obj'[i].by = s
    BY <2>4, <2>5
  <2> QED
    BY <2>6, <2>7, SMTT(60) DEF Carries
<1> QED
  BY <1>1, Invariance, PTL DEF Spec

=============================================================================
