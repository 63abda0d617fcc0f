------------------------- MODULE ContinuationProofs -------------------------
(***************************************************************************)
(* Theorems about Continuation: what is journaled after any number of      *)
(* conflicts, resolutions, failed writes, crashes and interferences is a   *)
(* linear suffix, a concluded operation is never prepared again, and a     *)
(* retained conflict stays whole - for every number of layers, operations, *)
(* edits and faults.                                                       *)
(***************************************************************************)
EXTENDS Continuation, TLAPS

\* What the theorems assume of the constants.
Bounds == N \in Nat \ {0} /\ MaxOps \in Nat

Commits == Names \X Names
Edges   == Names \cup {NoEdge}
Heads   == [Layers -> Commits \cup {None}]
Jobs    == [op : 0..MaxOps, base : Edges, before : Heads, newp : [Layers -> Edges],
            cand : Heads]
Steps   == {"idle", "start", "calculate", "record", "approve", "reobserve", "prepare",
            "retire", "push", "complete", "clear", "sweep"}

Fields ==
    /\ ref \in [Layers -> Commits] /\ cp \in [Layers -> Commits] /\ base \in Names
    /\ op \in [Ops -> [st : {"none", "prepared", "completed", "abandoned"},
                       before : Heads, after : Heads, base : Edges]]
    /\ man \in [st : {"none", "ok", "junk"}, job : Jobs]
    /\ wt \in [Ops -> [st : {"gone", "clean", "dirty", "rebasing"},
                       head : Edges \X Edges, layer : 0..N, onto : Edges]]
    /\ tref \in [Ops -> Heads]
    /\ nops \in 0..MaxOps
    /\ me \in [pc : Steps,
               cmd : {"none", "sync", "continue", "abort", "recover", "resume"},
               job : Jobs, at : 0..(N + 1)]
    /\ edits \in Nat /\ faults \in Nat

-----------------------------------------------------------------------------
(* The inductive invariant. *)

\* Every head is a commit that was made for its layer.
Own(h) == \A l \in Layers : h[l] \in Commits /\ h[l][1][2] = l

\* The candidates of a job stand on one another, the lowest on the captured base.
JobOK(j) ==
    /\ j \in Jobs /\ j.op \in Ops /\ j.base \in Names /\ Own(j.before)
    /\ \A l \in Layers : /\ j.newp[l] \in {NoEdge, Edge(j, l)}
                         /\ j.cand[l] # None => j.cand[l][1][2] = l /\ j.cand[l][2] = Edge(j, l)

\* The candidates calculated are those of the layers up to k.
Upto(j, k) == \A l \in Layers : j.cand[l] # None <=> l <= k

\* The job of a command that has k candidates, at their temp refs.
Working(j, k) ==
    /\ JobOK(j) /\ Upto(j, k)
    /\ \A l \in Layers : IF l <= k THEN tref[j.op][l] = j.cand[l] ELSE j.newp[l] = NoEdge

\* A job that stopped with k candidates: when the next layer has its edge, the
\* worktree is that layer's.
Stopped(j, k) ==
    /\ JobOK(j) /\ Upto(j, k)
    /\ \A l \in Layers : l > k + 1 => j.newp[l] = NoEdge
    /\ k < N /\ j.newp[k + 1] # NoEdge /\ wt[j.op].st # "gone" =>
         /\ wt[j.op].head[1][2] = k + 1
         /\ wt[j.op].st = "rebasing" => wt[j.op].layer = k + 1

\* What the running command holds; a fresh cascade runs only without a manifest.
Running ==
    /\ me.pc = "calculate" =>
         /\ me.at \in Layers /\ Working(me.job, me.at - 1)
         /\ me.cmd = "continue" /\ man.st = "ok" => man.job = me.job
    /\ me.pc = "record" =>
         /\ me.at \in Layers /\ Working(me.job, me.at) /\ me.cmd = "continue"
         /\ wt[me.job.op].st # "gone"
    /\ me.pc \in {"approve", "reobserve", "prepare"} => Working(me.job, N)
    /\ me.pc \in {"calculate", "approve", "reobserve", "prepare"} =>
         me.cmd = "continue" \/ (me.cmd = "sync" /\ man.st = "none")
    /\ me.pc \in {"retire", "push", "complete"} =>
         me.job.op \in Ops /\ op[me.job.op].st = "prepared"

Manifest == man.st = "ok" => \E k \in 0..N : Stopped(man.job, k)

Journaled == \A o \in Ops : op[o].st # "none" =>
    \A l \in Layers :
        /\ op[o].after[l] \in Commits /\ op[o].after[l][1][2] = l
        /\ op[o].after[l][2] = IF l = 1 THEN op[o].base ELSE op[o].after[l - 1][1]

Inv == Fields /\ Own(ref) /\ Running /\ Manifest /\ Journaled /\ RetainedIsWhole

-----------------------------------------------------------------------------
(* Jobs. *)

LEMMA Constants ==
    ASSUME Bounds
    PROVE  /\ NoEdge \notin Names /\ None \notin Commits
           /\ Nothing \in Heads /\ NoJob \in Jobs
           /\ Idle \in [pc : Steps,
                        cmd : {"none", "sync", "continue", "abort", "recover", "resume"},
                        job : Jobs, at : 0..(N + 1)]
           /\ Gone \in [st : {"gone", "clean", "dirty", "rebasing"},
                        head : Edges \X Edges, layer : 0..N, onto : Edges]
           /\ NoMan \in [st : {"none", "ok", "junk"}, job : Jobs]
<1>1. NoEdge \notin Names
  BY DEF NoEdge, Names
<1>2. None \notin Commits
  BY <1>1 DEF None, Commits
<1>3. Nothing \in Heads
  BY DEF Nothing, Heads
<1>4. NoJob \in Jobs
  BY <1>3 DEF NoJob, Jobs, Edges, Bounds
<1>5. 0 \in 0..N /\ 0 \in 0..(N + 1)
  BY DEF Bounds
<1> QED
  BY <1>1, <1>2, <1>3, <1>4, <1>5 DEF Idle, Gone, NoMan, Steps, Edges, None

LEMMA CleanWorktree ==
    ASSUME Bounds, NEW h \in Edges \X Edges
    PROVE  /\ [Gone EXCEPT !.st = "clean", !.head = h].st = "clean"
           /\ [Gone EXCEPT !.st = "clean", !.head = h].head = h
           /\ [Gone EXCEPT !.st = "clean", !.head = h]
                \in [st : {"gone", "clean", "dirty", "rebasing"},
                     head : Edges \X Edges, layer : 0..N, onto : Edges]
BY Constants DEF Gone

\* The pending layer is the one above the candidates.
LEMMA Pending ==
    ASSUME Bounds, NEW j, NEW k \in 0..N, Upto(j, k)
    PROVE  /\ Missing(j) = {l \in Layers : l > k}
           /\ k = N <=> Missing(j) = {}
           /\ k < N => Lowest(Missing(j)) = k + 1
<1>1. Missing(j) = {l \in Layers : l > k}
  BY DEF Missing, Upto, Layers, Bounds
<1>2. k = N <=> Missing(j) = {}
  BY <1>1 DEF Layers, Bounds
<1>3. ASSUME k < N PROVE Lowest(Missing(j)) = k + 1
  <2>1. k + 1 \in Missing(j) /\ \A y \in Missing(j) : k + 1 <= y
    BY <1>1, <1>3 DEF Layers, Bounds
  <2>2. \A x \in Missing(j) : (\A y \in Missing(j) : x <= y) => x = k + 1
    BY <1>1, <2>1 DEF Layers, Bounds
  <2> QED
    BY <2>1, <2>2 DEF Lowest
<1> QED
  BY <1>1, <1>2, <1>3

LEMMA EdgeType ==
    ASSUME Bounds, NEW j, NEW p \in Layers, JobOK(j), Upto(j, p - 1)
    PROVE  Edge(j, p) \in Names
<1>1. CASE p = 1
  BY <1>1 DEF Edge, JobOK
<1>2. CASE p # 1
  <2>1. p - 1 \in Layers
    BY <1>2 DEF Layers, Bounds
  <2>2. j.cand[p - 1] \in Commits
    BY <2>1 DEF Upto, JobOK, Jobs, Heads, Layers, Bounds
  <2> QED
    BY <1>2, <2>2 DEF Edge, Commits
<1> QED
  BY <1>1, <1>2

\* The next candidate, on its edge, keeps a job chained.
LEMMA NextCandidate ==
    ASSUME Bounds, NEW j, NEW p \in Layers, JobOK(j), Upto(j, p - 1),
           \A l \in Layers : l > p => j.newp[l] = NoEdge,
           NEW c \in Commits, c[1][2] = p, c[2] = Edge(j, p),
           NEW d \in Jobs, d.op = j.op, d.base = j.base, d.before = j.before,
           d.cand = [j.cand EXCEPT ![p] = c],
           \A l \in Layers : d.newp[l] = j.newp[l] \/ (l = p /\ d.newp[l] = Edge(j, p))
    PROVE  JobOK(d) /\ Upto(d, p)
<1>1. j.cand \in Heads
  BY DEF JobOK, Jobs
<1>2. \A l \in Layers : l # p => d.cand[l] = j.cand[l]
  BY <1>1 DEF Heads
<1>3. d.cand[p] = c /\ c # None
  BY <1>1, Constants DEF Heads
<1>4. \A l \in Layers : l <= p => Edge(d, l) = Edge(j, l)
  BY <1>2 DEF Edge, Layers, Bounds
<1>5. \A l \in Layers : /\ d.newp[l] \in {NoEdge, Edge(d, l)}
                        /\ d.cand[l] # None => d.cand[l][1][2] = l /\ d.cand[l][2] = Edge(d, l)
  <2> TAKE l \in Layers
  <2>1. CASE l < p
    BY <1>2, <1>4, <2>1 DEF JobOK, Layers, Bounds
  <2>2. CASE l = p
    BY <1>3, <1>4, <2>2 DEF JobOK, Layers, Bounds
  <2>3. CASE l > p
    <3>1. d.cand[l] = None
      BY <1>2, <2>3 DEF Upto, Layers, Bounds
    <3>2. d.newp[l] = NoEdge
      BY <2>3 DEF Layers, Bounds
    <3> QED
      BY <3>1, <3>2
  <2> QED
    BY <2>1, <2>2, <2>3 DEF Layers, Bounds
<1>6. Upto(d, p)
  BY <1>2, <1>3 DEF Upto, Layers, Bounds
<1> QED
  BY <1>5, <1>6 DEF JobOK

\* So does the edge of the layer that conflicts.
LEMMA NextEdge ==
    ASSUME Bounds, NEW j, NEW p \in Layers, JobOK(j), Upto(j, p - 1),
           NEW d \in Jobs, d.op = j.op, d.base = j.base, d.before = j.before,
           d.cand = j.cand,
           \A l \in Layers : d.newp[l] = j.newp[l] \/ (l = p /\ d.newp[l] = Edge(j, p))
    PROVE  JobOK(d) /\ Upto(d, p - 1)
<1>1. \A l \in Layers : Edge(d, l) = Edge(j, l)
  BY DEF Edge
<1> QED
  BY <1>1 DEF JobOK, Upto

-----------------------------------------------------------------------------
(* What a step leaves of a job. *)

LEMMA WorkingStays ==
    ASSUME NEW j, NEW k, Working(j, k), tref'[j.op] = tref[j.op]
    PROVE  Working(j, k)'
BY DEF Working

LEMMA StoppedStays ==
    ASSUME NEW j, NEW k, Stopped(j, k), wt'[j.op] = wt[j.op] \/ wt'[j.op].st = "gone"
    PROVE  Stopped(j, k)'
BY DEF Stopped

\* A step that leaves the manifest, and the worktrees unless it removes them.
LEMMA ManifestStays ==
    ASSUME Fields, Manifest, UNCHANGED man,
           man.st = "ok" => \/ wt'[man.job.op] = wt[man.job.op]
                            \/ wt'[man.job.op].st = "gone"
    PROVE  Manifest'
<1> SUFFICES ASSUME man.st = "ok" PROVE \E k \in 0..N : Stopped(man.job, k)'
  BY DEF Manifest
<1>1. PICK k \in 0..N : Stopped(man.job, k)
  BY DEF Manifest
<1>2. PICK j : j = man.job
  OBVIOUS
<1>3. Stopped(j, k)'
  BY <1>1, <1>2, StoppedStays
<1>4. man'.job = j
  BY <1>2
<1> QED
  BY <1>3, <1>4 DEF Stopped

LEMMA WholeStays ==
    ASSUME RetainedIsWhole, UNCHANGED man, faults' = 0 => faults = 0,
           /\ faults' = 0 /\ man.st = "ok" /\ me'.pc # "clear"
           /\ op'[man.job.op].st = "none"
           => /\ me.pc # "clear" /\ op[man.job.op].st = "none"
              /\ wt[man.job.op].st # "gone" => wt'[man.job.op].st # "gone"
              /\ \A l \in Layers : man.job.cand[l] # None =>
                   tref'[man.job.op][l] = tref[man.job.op][l]
    PROVE  RetainedIsWhole'
BY DEF RetainedIsWhole

\* A record keeps what it says; only its state goes on.
LEMMA JournaledStays ==
    ASSUME Journaled,
           \A o \in Ops : op'[o].st # "none" =>
             op[o].st # "none" /\ op'[o].after = op[o].after /\ op'[o].base = op[o].base
    PROVE  Journaled'
BY DEF Journaled

\* A command that is not in the middle of a job holds nothing.
LEMMA QuietRuns ==
    ASSUME me'.pc \in {"idle", "start", "clear", "sweep"}
    PROVE  Running'
BY DEF Running

LEMMA QuitFields ==
    ASSUME Bounds, Fields, Quit
    PROVE  /\ me'.pc = "idle"
           /\ me' \in [pc : Steps,
                       cmd : {"none", "sync", "continue", "abort", "recover", "resume"},
                       job : Jobs, at : 0..(N + 1)]
BY Constants DEF Quit, Idle

LEMMA GotoFields ==
    ASSUME Fields, NEW pc \in Steps, Goto(pc)
    PROVE  /\ me'.pc = pc /\ me'.job = me.job /\ me'.at = me.at /\ me'.cmd = me.cmd
           /\ me' \in [pc : Steps,
                       cmd : {"none", "sync", "continue", "abort", "recover", "resume"},
                       job : Jobs, at : 0..(N + 1)]
BY DEF Goto, Fields

LEMMA FaultFields ==
    ASSUME Fields, Fault
    PROVE  faults' \in Nat /\ faults' # 0
BY DEF Fields, Fault

LEMMA CleanedFields ==
    ASSUME Bounds, Fields, NEW o \in Ops, Cleaned(o)
    PROVE  /\ wt' \in [Ops -> [st : {"gone", "clean", "dirty", "rebasing"},
                               head : Edges \X Edges, layer : 0..N, onto : Edges]]
           /\ tref' \in [Ops -> Heads]
           /\ wt'[o].st = "gone"
           /\ \A x \in Ops : x # o => wt'[x] = wt[x] /\ tref'[x] = tref[x]
BY Constants DEF Fields, Cleaned, Gone

\* The operation of a manifest is one of the operations.
LEMMA ManifestOp ==
    ASSUME Manifest, man.st = "ok"
    PROVE  man.job.op \in Ops
BY DEF Manifest, Stopped, JobOK

-----------------------------------------------------------------------------
(* The steps that neither calculate nor write a manifest. *)

LEMMA BeginInv ==
    ASSUME Bounds, Inv, NEW c \in {"sync", "continue", "abort", "recover"}, Begin(c)
    PROVE  Inv'
<1>1. /\ me' = [Idle EXCEPT !.pc = "start", !.cmd = c] /\ me.pc = "idle"
      /\ UNCHANGED <<ref, base, cp, op, man, wt, tref, nops, failed, edits, faults>>
  BY DEF Begin, world
<1>2. me'.pc = "start"
  BY <1>1 DEF Idle
<1>3. Fields'
  BY <1>1, Constants DEF Inv, Fields, Idle, Steps
<1>4. Own(ref)' /\ Running'
  BY <1>1, <1>2, QuietRuns DEF Inv, Own
<1>5. Manifest'
  BY <1>1, ManifestStays DEF Inv
<1>6. Journaled'
  BY <1>1, JournaledStays DEF Inv
<1>7. RetainedIsWhole'
  BY <1>1, WholeStays DEF Inv
<1> QED
  BY <1>3, <1>4, <1>5, <1>6, <1>7 DEF Inv

LEMMA CrashInv ==
    ASSUME Bounds, Inv, Crash
    PROVE  Inv'
<1>1. Fault /\ Quit /\ UNCHANGED <<ref, base, cp, op, man, wt, tref, nops, failed, edits>>
  BY DEF Crash, world
<1>2. me'.pc = "idle" /\ faults' # 0
  BY <1>1, QuitFields, FaultFields DEF Inv
<1>3. Fields'
  BY <1>1, QuitFields, FaultFields DEF Inv, Fields
<1>4. Own(ref)' /\ Running'
  BY <1>1, <1>2, QuietRuns DEF Inv, Own
<1>5. Manifest'
  BY <1>1, ManifestStays DEF Inv
<1>6. Journaled'
  BY <1>1, JournaledStays DEF Inv
<1>7. RetainedIsWhole'
  BY <1>2 DEF RetainedIsWhole
<1> QED
  BY <1>3, <1>4, <1>5, <1>6, <1>7 DEF Inv

\* What others do to the refs and to the manifest.
LEMMA MeddleInv ==
    ASSUME Bounds, Inv, Meddle
    PROVE  Inv'
<1>1. UNCHANGED <<cp, op, wt, tref, nops, me, failed, faults>> /\ edits' = edits + 1
  BY DEF Meddle
<1>2. /\ UNCHANGED man \/ (man' = [st |-> "junk", job |-> NoJob] /\ man.st = "ok")
      /\ base' = base \/ base' = <<base[1] + 1, 0>>
      /\ UNCHANGED ref \/ \E l \in Layers : ref' = [ref EXCEPT ![l] = << <<MaxOps + 1 + edits, l>>, ref[l][2] >>]
  BY DEF Meddle
<1>3. base' \in Names
  BY <1>2 DEF Inv, Fields, Names, Bounds
<1>4. ref' \in [Layers -> Commits] /\ Own(ref)'
  <2>1. CASE UNCHANGED ref
    BY <2>1 DEF Inv, Fields, Own
  <2>2. ASSUME NEW l \in Layers,
               ref' = [ref EXCEPT ![l] = << <<MaxOps + 1 + edits, l>>, ref[l][2] >>]
        PROVE  ref' \in [Layers -> Commits] /\ Own(ref)'
    <3>1. ref[l][2] \in Names
      BY DEF Inv, Fields, Commits
    <3>2. MaxOps + 1 + edits \in Nat /\ l \in 0..N
      BY DEF Inv, Fields, Bounds, Layers
    <3>3. <<MaxOps + 1 + edits, l>> \in Names
      BY <3>2 DEF Names
    <3> QED
      BY <2>2, <3>1, <3>3 DEF Inv, Fields, Own, Commits
  <2> QED
    BY <1>2, <2>1, <2>2
<1>5. man' \in [st : {"none", "ok", "junk"}, job : Jobs]
  BY <1>2, Constants DEF Inv, Fields
<1>6. Fields'
  BY <1>1, <1>3, <1>4, <1>5 DEF Inv, Fields
<1>7. man'.st = "ok" => UNCHANGED man
  BY <1>2
<1>8. man.st = "none" => UNCHANGED man
  BY <1>2
<1>9. Running'
  BY <1>1, <1>7, <1>8 DEF Inv, Running, Working
<1>10. Manifest'
  <2>1. CASE UNCHANGED man
    BY <1>1, <2>1, ManifestStays DEF Inv
  <2>2. CASE man'.st # "ok"
    BY <2>2 DEF Manifest
  <2> QED
    BY <1>7, <2>1, <2>2
<1>11. Journaled'
  BY <1>1, JournaledStays DEF Inv
<1>12. RetainedIsWhole'
  BY <1>1, <1>7 DEF Inv, RetainedIsWhole
<1> QED
  BY <1>4, <1>6, <1>9, <1>10, <1>11, <1>12 DEF Inv

\* The human works on a retained rebase.
LEMMA ResolveInv ==
    ASSUME Bounds, Inv, Resolve
    PROVE  Inv'
<1>1. PICK o \in Ops :
        /\ wt[o].st = "rebasing"
        /\ \/ wt' = [wt EXCEPT ![o] = [Gone EXCEPT !.st = "clean",
                       !.head = << <<o, wt[o].layer>>, wt[o].onto >>]]
           \/ wt' = [wt EXCEPT ![o] = [Gone EXCEPT !.st = "clean", !.head = wt[o].head]]
           \/ wt' = [wt EXCEPT ![o].st = "dirty"]
  BY DEF Resolve
<1>2. UNCHANGED <<ref, base, cp, op, man, tref, nops, me, failed, edits, faults>>
  BY DEF Resolve, world
<1>3. wt[o].onto \in Edges /\ wt[o].layer \in 0..N /\ wt[o].head \in Edges \X Edges
  BY DEF Inv, Fields
<1>4. << <<o, wt[o].layer>>, wt[o].onto >> \in Edges \X Edges
  BY <1>3 DEF Ops, Names, Edges, Bounds
<1>5. /\ wt' \in [Ops -> [st : {"gone", "clean", "dirty", "rebasing"},
                          head : Edges \X Edges, layer : 0..N, onto : Edges]]
      /\ \A x \in Ops : x # o => wt'[x] = wt[x]
      /\ wt'[o].st \in {"clean", "dirty"}
      /\ wt'[o].head[1] \in {wt[o].head[1], <<o, wt[o].layer>>}
  <2>1. PICK w \in [st : {"gone", "clean", "dirty", "rebasing"},
                    head : Edges \X Edges, layer : 0..N, onto : Edges] :
          /\ wt' = [wt EXCEPT ![o] = w] /\ w.st \in {"clean", "dirty"}
          /\ w.head[1] \in {wt[o].head[1], <<o, wt[o].layer>>}
    <3> DEFINE Fits(w) ==
          /\ w \in [st : {"gone", "clean", "dirty", "rebasing"},
                    head : Edges \X Edges, layer : 0..N, onto : Edges]
          /\ wt' = [wt EXCEPT ![o] = w] /\ w.st \in {"clean", "dirty"}
          /\ w.head[1] \in {wt[o].head[1], <<o, wt[o].layer>>}
    <3>1. CASE wt' = [wt EXCEPT ![o] = [Gone EXCEPT !.st = "clean",
                                          !.head = << <<o, wt[o].layer>>, wt[o].onto >>]]
      <4>1. Fits([Gone EXCEPT !.st = "clean", !.head = << <<o, wt[o].layer>>, wt[o].onto >>])
        BY <1>4, <3>1, CleanWorktree
      <4> QED
        BY <4>1
    <3>2. CASE wt' = [wt EXCEPT ![o] = [Gone EXCEPT !.st = "clean", !.head = wt[o].head]]
      <4>1. Fits([Gone EXCEPT !.st = "clean", !.head = wt[o].head])
        BY <1>3, <3>2, CleanWorktree
      <4> QED
        BY <4>1
    <3>3. CASE wt' = [wt EXCEPT ![o].st = "dirty"]
      <4>1. wt \in [Ops -> [st : {"gone", "clean", "dirty", "rebasing"},
                            head : Edges \X Edges, layer : 0..N, onto : Edges]]
        BY DEF Inv, Fields
      <4>2. /\ [wt[o] EXCEPT !.st = "dirty"] \in
                  [st : {"gone", "clean", "dirty", "rebasing"},
                   head : Edges \X Edges, layer : 0..N, onto : Edges]
            /\ [wt[o] EXCEPT !.st = "dirty"].head = wt[o].head
            /\ [wt[o] EXCEPT !.st = "dirty"].st = "dirty"
        BY <4>1
      <4>3. wt' = [wt EXCEPT ![o] = [wt[o] EXCEPT !.st = "dirty"]]
        BY <3>3, Zenon
      <4>4. Fits([wt[o] EXCEPT !.st = "dirty"])
        BY <4>2, <4>3
      <4> QED
        BY <4>4
    <3> QED
      BY <1>1, <3>1, <3>2, <3>3
  <2> QED
    BY <2>1 DEF Inv, Fields
<1>6. Fields'
  BY <1>2, <1>5 DEF Inv, Fields
<1>7. Own(ref)'
  BY <1>2, SMTT(60) DEF Inv, Own
<1>8. Running'
  BY <1>1, <1>2, <1>5 DEF Inv, Running, Working, JobOK
<1>9. Manifest'
  <2> SUFFICES ASSUME man.st = "ok" PROVE \E k \in 0..N : Stopped(man.job, k)'
    BY <1>2 DEF Manifest
  <2>1. PICK k \in 0..N : Stopped(man.job, k)
    BY DEF Inv, Manifest
  <2>2. CASE man.job.op # o
    BY <1>2, <1>5, <2>1, <2>2 DEF Stopped, JobOK
  <2>3. CASE man.job.op = o
    BY <1>1, <1>2, <1>5, <2>1, <2>3 DEF Stopped
  <2> QED
    BY <2>2, <2>3
<1>10. Journaled'
  BY <1>2, JournaledStays DEF Inv
<1>11. RetainedIsWhole'
  BY <1>2, <1>5, ManifestOp, WholeStays DEF Inv
<1> QED
  BY <1>6, <1>7, <1>8, <1>9, <1>10, <1>11, ZenonT(60) DEF Inv

LEMMA ApproveInv ==
    ASSUME Bounds, Inv, Approve
    PROVE  Inv'
<1>1. /\ me.pc = "approve" /\ Working(me.job, N)
      /\ UNCHANGED <<ref, base, cp, op, man, nops, failed, edits, faults>>
  BY DEF Approve, world, Inv, Running
<1>2. me.job.op \in Ops
  BY <1>1 DEF Working, JobOK
<1>3. CASE Goto("reobserve") /\ UNCHANGED <<wt, tref>>
  <2>1. /\ me'.pc = "reobserve" /\ me'.job = me.job /\ me'.cmd = me.cmd
        /\ Fields'
    BY <1>1, <1>3, GotoFields DEF Inv, Fields, Steps
  <2>2. Own(ref)' /\ Manifest' /\ Journaled' /\ RetainedIsWhole'
    BY <1>1, <1>3, ManifestStays, JournaledStays, WholeStays DEF Inv, Own
  <2>3. Running'
    BY <1>1, <1>3, <2>1 DEF Inv, Running, Working
  <2> QED
    BY <2>1, <2>2, <2>3 DEF Inv
<1>4. CASE /\ Quit
           /\ IF me.cmd = "continue" THEN UNCHANGED <<wt, tref>> ELSE Cleaned(me.job.op)
  <2>1. /\ me'.pc = "idle" /\ Fields'
    BY <1>1, <1>2, <1>4, QuitFields, CleanedFields DEF Inv, Fields
  <2>2. UNCHANGED <<wt, tref>> \/ (man.st = "none" /\ Cleaned(me.job.op))
    BY <1>1, <1>4 DEF Inv, Running
  <2>3. Own(ref)' /\ Running' /\ Journaled'
    BY <1>1, <2>1, QuietRuns, JournaledStays DEF Inv, Own
  <2>4. Manifest' /\ RetainedIsWhole'
    BY <1>1, <2>2, ManifestStays, WholeStays DEF Inv
  <2> QED
    BY <2>1, <2>3, <2>4 DEF Inv
<1> QED
  BY <1>3, <1>4 DEF Approve

LEMMA ReobserveInv ==
    ASSUME Bounds, Inv, Reobserve
    PROVE  Inv'
<1>1. /\ me.pc = "reobserve" /\ Working(me.job, N)
      /\ UNCHANGED <<ref, base, cp, op, man, nops, failed, edits, faults>>
  BY DEF Reobserve, world, Inv, Running
<1>2. me.job.op \in Ops
  BY <1>1 DEF Working, JobOK
<1>3. CASE Goto("prepare") /\ UNCHANGED <<wt, tref>>
  <2>1. /\ me'.pc = "prepare" /\ me'.job = me.job /\ me'.cmd = me.cmd
        /\ Fields'
    BY <1>1, <1>3, GotoFields DEF Inv, Fields, Steps
  <2>2. Own(ref)' /\ Manifest' /\ Journaled' /\ RetainedIsWhole'
    BY <1>1, <1>3, ManifestStays, JournaledStays, WholeStays DEF Inv, Own
  <2>3. Running'
    BY <1>1, <1>3, <2>1 DEF Inv, Running, Working
  <2> QED
    BY <2>1, <2>2, <2>3 DEF Inv
<1>4. CASE /\ Quit
           /\ IF me.cmd = "continue" THEN UNCHANGED <<wt, tref>> ELSE Cleaned(me.job.op)
  <2>1. /\ me'.pc = "idle" /\ Fields'
    BY <1>1, <1>2, <1>4, QuitFields, CleanedFields DEF Inv, Fields
  <2>2. UNCHANGED <<wt, tref>> \/ (man.st = "none" /\ Cleaned(me.job.op))
    BY <1>1, <1>4 DEF Inv, Running
  <2>3. Own(ref)' /\ Running' /\ Journaled'
    BY <1>1, <2>1, QuietRuns, JournaledStays DEF Inv, Own
  <2>4. Manifest' /\ RetainedIsWhole'
    BY <1>1, <2>2, ManifestStays, WholeStays DEF Inv
  <2> QED
    BY <2>1, <2>3, <2>4 DEF Inv
<1> QED
  BY <1>3, <1>4 DEF Reobserve

\* The record that is appended is the linear suffix of the job.
LEMMA PrepareInv ==
    ASSUME Bounds, Inv, Prepare
    PROVE  Inv'
<1> DEFINE o == me.job.op
<1>1. /\ me.pc = "prepare" /\ Working(me.job, N) /\ o \in Ops
      /\ UNCHANGED <<ref, base, cp, man, nops, failed, edits, faults>>
  BY DEF Prepare, world, Inv, Running, Working, JobOK
<1>2. me.job \in Jobs
  BY <1>1 DEF Working, JobOK
<1>3. CASE Admits(o)
  <2>1. /\ op' = [op EXCEPT ![o] = [st |-> "prepared", before |-> me.job.before,
                                    after |-> me.job.cand, base |-> me.job.base]]
        /\ Goto(IF me.cmd = "continue" THEN "retire" ELSE "push")
        /\ UNCHANGED <<wt, tref>>
    BY <1>3 DEF Prepare
  <2>2. /\ me'.pc \in {"retire", "push"} /\ me'.job = me.job
        /\ me' \in [pc : Steps,
                    cmd : {"none", "sync", "continue", "abort", "recover", "resume"},
                    job : Jobs, at : 0..(N + 1)]
    BY <2>1, GotoFields DEF Inv, Steps
  <2>3. [st |-> "prepared", before |-> me.job.before,
         after |-> me.job.cand, base |-> me.job.base]
          \in [st : {"none", "prepared", "completed", "abandoned"},
               before : Heads, after : Heads, base : Edges]
    BY <1>2 DEF Jobs
  <2>4. /\ Fields' /\ op'[o].st = "prepared" /\ op'[o].after = me.job.cand
        /\ op'[o].base = me.job.base
        /\ \A x \in Ops : x # o => op'[x] = op[x]
    BY <1>1, <2>1, <2>2, <2>3 DEF Inv, Fields
  <2>5. Own(ref)' /\ Running'
    BY <1>1, <2>2, <2>4 DEF Inv, Own, Running
  <2>6. Manifest' /\ RetainedIsWhole'
    BY <1>1, <2>1, <2>2, <2>4, ManifestOp, ManifestStays, WholeStays DEF Inv
  <2>7. \A l \in Layers :
          /\ me.job.cand[l] \in Commits /\ me.job.cand[l][1][2] = l
          /\ me.job.cand[l][2] = IF l = 1 THEN me.job.base ELSE me.job.cand[l - 1][1]
    BY <1>1, <1>2, SMTT(60) DEF Working, Upto, JobOK, Edge, Jobs, Heads, Layers, Bounds
  <2>8. Journaled'
    BY <2>4, <2>7 DEF Inv, Journaled
  <2> QED
    BY <2>4, <2>5, <2>6, <2>8 DEF Inv
<1>4. CASE ~ Admits(o)
  <2>1. /\ Quit /\ UNCHANGED op
        /\ IF me.cmd = "continue" THEN UNCHANGED <<wt, tref>> ELSE Cleaned(o)
    BY <1>4 DEF Prepare
  <2>2. /\ me'.pc = "idle" /\ Fields'
    BY <1>1, <2>1, QuitFields, CleanedFields DEF Inv, Fields
  <2>3. UNCHANGED <<wt, tref>> \/ (man.st = "none" /\ Cleaned(o))
    BY <1>1, <2>1 DEF Inv, Running
  <2>4. Own(ref)' /\ Running' /\ Journaled'
    BY <1>1, <2>1, <2>2, QuietRuns, JournaledStays DEF Inv, Own
  <2>5. Manifest' /\ RetainedIsWhole'
    BY <1>1, <2>1, <2>3, ManifestStays, WholeStays DEF Inv
  <2> QED
    BY <2>2, <2>4, <2>5 DEF Inv
<1> QED
  BY <1>3, <1>4

LEMMA RetireInv ==
    ASSUME Bounds, Inv, Retire
    PROVE  Inv'
<1>1. /\ me.pc = "retire" /\ Goto("push")
      /\ UNCHANGED <<ref, base, cp, op, wt, tref, nops, failed, edits>>
      /\ (man' = NoMan /\ UNCHANGED faults) \/ (Fault /\ UNCHANGED man)
  BY DEF Retire, world
<1>2. me'.pc = "push" /\ me'.job = me.job /\ Fields'
  BY <1>1, GotoFields, FaultFields, Constants DEF Inv, Fields, Steps
<1>3. Own(ref)' /\ Running' /\ Journaled'
  BY <1>1, <1>2, JournaledStays DEF Inv, Own, Running
<1>4. CASE man' = NoMan
  <2>1. man'.st = "none"
    BY <1>4 DEF NoMan
  <2>2. Manifest' /\ RetainedIsWhole'
    BY <2>1 DEF Manifest, RetainedIsWhole
  <2> QED
    BY <1>2, <1>3, <2>2 DEF Inv
<1>5. CASE Fault /\ UNCHANGED man
  <2>1. Manifest' /\ RetainedIsWhole'
    BY <1>1, <1>5, FaultFields, ManifestStays, WholeStays DEF Inv
  <2> QED
    BY <1>2, <1>3, <2>1 DEF Inv
<1> QED
  BY <1>1, <1>4, <1>5

\* Concluding an operation changes its state only.
LEMMA OpEnds ==
    ASSUME NEW o \in Ops, NEW st \in {"completed", "abandoned"},
           op \in [Ops -> [st : {"none", "prepared", "completed", "abandoned"},
                           before : Heads, after : Heads, base : Edges]],
           op' = [op EXCEPT ![o].st = st]
    PROVE  /\ op' \in [Ops -> [st : {"none", "prepared", "completed", "abandoned"},
                                before : Heads, after : Heads, base : Edges]]
           /\ op'[o].st = st
           /\ \A x \in Ops : /\ op'[x].after = op[x].after /\ op'[x].base = op[x].base
                             /\ x # o => op'[x] = op[x]
<1> DEFINE R == [st : {"none", "prepared", "completed", "abandoned"},
                 before : Heads, after : Heads, base : Edges]
           new == [op[o] EXCEPT !.st = st]
<1>1. new \in R /\ new.st = st /\ new.after = op[o].after /\ new.base = op[o].base
  BY SMTT(60)
<1>2. op' = [op EXCEPT ![o] = new]
  BY Zenon
<1> HIDE DEF new, R
<1>3. op \in [Ops -> R]
  BY Zenon DEF R
<1>4. op' \in [Ops -> R] /\ op'[o] = new /\ \A x \in Ops : x # o => op'[x] = op[x]
  BY <1>1, <1>2, <1>3
<1> QED
  BY <1>1, <1>4, Zenon DEF R

\* What a journaled operation leaves behind is a commit of every layer's own.
LEMMA JournaledHeads ==
    ASSUME Inv, NEW o \in Ops, op[o].st # "none"
    PROVE  op[o].after \in [Layers -> Commits] /\ Own(op[o].after)
<1>1. op[o].after \in Heads
  BY DEF Inv, Fields
<1>2. \A l \in Layers : op[o].after[l] \in Commits /\ op[o].after[l][1][2] = l
  BY DEF Inv, Journaled
<1>3. op[o].after \in [Layers -> Commits]
  BY <1>1, <1>2 DEF Heads
<1> QED
  BY <1>2, <1>3 DEF Own

\* What is pushed has the heads of its record.
LEMMA PushInv ==
    ASSUME Bounds, Inv, Push
    PROVE  Inv'
<1> DEFINE o == me.job.op
<1>1. /\ me.pc = "push" /\ o \in Ops /\ op[o].st = "prepared"
      /\ UNCHANGED <<base, cp, op, man, nops, failed, edits, faults>>
  BY DEF Push, Inv, Running
<1>2. Journaled'
  BY <1>1, JournaledStays DEF Inv
<1>3. CASE ref = op[o].before
  <2>1. ref' = op[o].after /\ Goto("complete") /\ UNCHANGED <<wt, tref>>
    BY <1>3 DEF Push
  <2>2. ref' \in [Layers -> Commits] /\ Own(ref)'
    <3>1. op[o].st # "none"
      BY <1>1
    <3> QED
      BY <1>1, <2>1, <3>1, JournaledHeads DEF Own
  <2>3. me'.pc = "complete" /\ me'.job = me.job /\ Fields'
    BY <1>1, <2>1, <2>2, GotoFields DEF Inv, Fields, Steps
  <2>4. Running'
    BY <1>1, <2>3 DEF Inv, Running
  <2>5. Manifest' /\ RetainedIsWhole'
    BY <1>1, <2>1, ManifestStays, WholeStays DEF Inv
  <2> QED
    BY <1>2, <2>2, <2>3, <2>4, <2>5 DEF Inv
<1>4. CASE ref # op[o].before
  <2>1. Quit /\ Cleaned(o) /\ UNCHANGED ref
    BY <1>4 DEF Push
  <2>2. /\ me'.pc = "idle" /\ Fields' /\ wt'[o].st = "gone"
        /\ \A x \in Ops : x # o => wt'[x] = wt[x] /\ tref'[x] = tref[x]
    BY <1>1, <2>1, QuitFields, CleanedFields DEF Inv, Fields
  <2>3. Own(ref)' /\ Running'
    BY <2>1, <2>2, QuietRuns DEF Inv, Own
  <2>4. Manifest' /\ RetainedIsWhole'
    BY <1>1, <2>2, ManifestOp, ManifestStays, WholeStays DEF Inv
  <2> QED
    BY <1>2, <2>2, <2>3, <2>4 DEF Inv
<1> QED
  BY <1>3, <1>4

LEMMA CompleteInv ==
    ASSUME Bounds, Inv, Complete
    PROVE  Inv'
<1> DEFINE o == me.job.op
<1>1. /\ me.pc = "complete" /\ o \in Ops /\ op[o].st = "prepared"
      /\ UNCHANGED <<ref, base, man, nops, failed, edits, faults>>
      /\ IF AllAfter(o) THEN cp' = op[o].after /\ op' = [op EXCEPT ![o].st = "completed"]
         ELSE UNCHANGED <<cp, op>>
      /\ UNCHANGED <<wt, tref>> \/ Cleaned(o)
      /\ Goto("sweep") \/ Quit
  BY DEF Complete, Inv, Running
<1>2. /\ me'.pc \in {"sweep", "idle"}
      /\ me' \in [pc : Steps,
                  cmd : {"none", "sync", "continue", "abort", "recover", "resume"},
                  job : Jobs, at : 0..(N + 1)]
  BY <1>1, QuitFields, GotoFields DEF Inv, Steps
<1>3. /\ \A x \in Ops : /\ op'[x].after = op[x].after /\ op'[x].base = op[x].base
                        /\ x # o => op'[x] = op[x]
      /\ op'[o].st \in {"prepared", "completed"}
      /\ op' \in [Ops -> [st : {"none", "prepared", "completed", "abandoned"},
                          before : Heads, after : Heads, base : Edges]]
  <2>1. CASE op' = op
    BY <1>1, <2>1 DEF Inv, Fields
  <2>2. CASE op' = [op EXCEPT ![o].st = "completed"]
    BY <1>1, <2>2, OpEnds DEF Inv, Fields
  <2> QED
    BY <1>1, <2>1, <2>2
<1>4. cp' \in [Layers -> Commits]
  <2>1. op[o].st # "none"
    BY <1>1
  <2>2. op[o].after \in [Layers -> Commits]
    BY <1>1, <2>1, JournaledHeads
  <2>3. cp \in [Layers -> Commits]
    BY DEF Inv, Fields
  <2> QED
    BY <1>1, <2>2, <2>3
<1>5. Fields' /\ (UNCHANGED <<wt, tref>> \/ (wt'[o].st = "gone"
        /\ \A x \in Ops : x # o => wt'[x] = wt[x] /\ tref'[x] = tref[x]))
  BY <1>1, <1>2, <1>3, <1>4, CleanedFields DEF Inv, Fields
<1>6. Own(ref)' /\ Running'
  BY <1>1, <1>2, QuietRuns DEF Inv, Own
<1>7. Journaled'
  BY <1>1, <1>3, JournaledStays DEF Inv
<1>8. Manifest' /\ RetainedIsWhole'
  BY <1>1, <1>3, <1>5, ManifestOp, ManifestStays, WholeStays DEF Inv
<1> QED
  BY <1>5, <1>6, <1>7, <1>8 DEF Inv

LEMMA AbortInv ==
    ASSUME Bounds, Inv, Abort
    PROVE  Inv'
<1>1. /\ Goto("clear") /\ UNCHANGED <<ref, base, cp, op, man, nops, failed, edits, faults>>
      /\ IF man.st = "ok" THEN Cleaned(man.job.op) ELSE UNCHANGED <<wt, tref>>
  BY DEF Abort, world
<1>2. man.st = "ok" => man.job.op \in Ops
  BY ManifestOp DEF Inv
<1>3. me'.pc = "clear" /\ Fields'
  BY <1>1, <1>2, GotoFields, CleanedFields DEF Inv, Fields, Steps
<1>4. Own(ref)' /\ Running' /\ Journaled'
  BY <1>1, <1>3, QuietRuns, JournaledStays DEF Inv, Own
<1>5. Manifest' /\ RetainedIsWhole'
  BY <1>1, <1>2, <1>3, CleanedFields, ManifestStays DEF Inv, RetainedIsWhole
<1> QED
  BY <1>3, <1>4, <1>5 DEF Inv

LEMMA ClearInv ==
    ASSUME Bounds, Inv, Clear
    PROVE  Inv'
<1>1. /\ Quit /\ UNCHANGED <<ref, base, cp, op, wt, tref, nops, edits>>
      /\ (man' = NoMan /\ UNCHANGED faults) \/ (Fault /\ UNCHANGED man)
  BY DEF Clear, world
<1>2. me'.pc = "idle" /\ Fields'
  BY <1>1, QuitFields, FaultFields, Constants DEF Inv, Fields
<1>3. Own(ref)' /\ Running' /\ Journaled'
  BY <1>1, <1>2, QuietRuns, JournaledStays DEF Inv, Own
<1>4. CASE man' = NoMan
  BY <1>2, <1>3, <1>4 DEF Inv, Manifest, RetainedIsWhole, NoMan
<1>5. CASE Fault /\ UNCHANGED man
  <2>1. Manifest' /\ RetainedIsWhole'
    BY <1>1, <1>5, FaultFields, ManifestStays, WholeStays DEF Inv
  <2> QED
    BY <1>2, <1>3, <2>1 DEF Inv
<1> QED
  BY <1>1, <1>4, <1>5

\* The sweep spares what the manifest names.
LEMMA SweepInv ==
    ASSUME Bounds, Inv, Sweep
    PROVE  Inv'
<1>1. /\ me.pc = "sweep" /\ Quit
      /\ UNCHANGED <<ref, base, cp, op, man, nops, failed, edits, faults>>
      /\ wt' = [o \in Ops |-> IF o \in Swept THEN Gone ELSE wt[o]]
      /\ tref' = [o \in Ops |-> IF o \in Swept THEN Nothing ELSE tref[o]]
  BY DEF Sweep, world
<1>2. me'.pc = "idle" /\ Fields'
  BY <1>1, QuitFields, Constants DEF Inv, Fields
<1>3. Own(ref)' /\ Running' /\ Journaled'
  BY <1>1, <1>2, QuietRuns, JournaledStays DEF Inv, Own
<1>4. man.st = "ok" => /\ wt'[man.job.op] = wt[man.job.op]
                       /\ tref'[man.job.op] = tref[man.job.op]
  BY <1>1, ManifestOp DEF Inv, Swept
<1>5. Manifest' /\ RetainedIsWhole'
  BY <1>1, <1>4, ManifestStays, WholeStays DEF Inv
<1> QED
  BY <1>2, <1>3, <1>5 DEF Inv

\* Sync and recover conclude an unresolved operation alike.
LEMMA ConcludeInv ==
    ASSUME Bounds, Inv, NEW o \in Unresolved, me.pc = "start",
           UNCHANGED <<ref, base, cp, man, wt, tref, nops, failed, edits, faults>>,
           me' \in [pc : Steps,
                    cmd : {"none", "sync", "continue", "abort", "recover", "resume"},
                    job : Jobs, at : 0..(N + 1)],
           \/ me'.pc = "complete" /\ me'.job.op = o /\ UNCHANGED op
           \/ me'.pc \in {"start", "sweep"} /\ op' = [op EXCEPT ![o].st = "abandoned"]
           \/ me'.pc = "idle" /\ UNCHANGED op
    PROVE  Inv'
<1>1. o \in Ops /\ op[o].st = "prepared"
  BY DEF Unresolved
<1>2. /\ op' \in [Ops -> [st : {"none", "prepared", "completed", "abandoned"},
                          before : Heads, after : Heads, base : Edges]]
      /\ \A x \in Ops : /\ op'[x].after = op[x].after /\ op'[x].base = op[x].base
                        /\ op'[x].st # "none" <=> op[x].st # "none"
      /\ UNCHANGED op \/ me'.pc # "complete"
  <2>1. CASE op' = op
    BY <2>1 DEF Inv, Fields
  <2>2. CASE op' = [op EXCEPT ![o].st = "abandoned"] /\ me'.pc # "complete"
    BY <1>1, <2>2, OpEnds, ZenonT(60) DEF Inv, Fields
  <2> QED
    BY <2>1, <2>2
<1>3. Fields' /\ Own(ref)'
  BY <1>2 DEF Inv, Fields, Own
<1>4. Running'
  BY <1>1 DEF Running
<1>5. Journaled'
  BY <1>2, JournaledStays DEF Inv
<1>6. Manifest' /\ RetainedIsWhole'
  BY <1>2, ManifestOp, ManifestStays, WholeStays DEF Inv
<1> QED
  BY <1>3, <1>4, <1>5, <1>6 DEF Inv

LEMMA RecoverInv ==
    ASSUME Bounds, Inv, Recover
    PROVE  Inv'
<1>1. /\ me.pc = "start"
      /\ UNCHANGED <<ref, base, cp, man, wt, tref, nops, failed, edits, faults>>
  BY DEF Recover, world
<1>2. ASSUME NEW o \in Unresolved,
             me' = [me EXCEPT !.pc = "complete", !.job.op = o], UNCHANGED op
      PROVE  Inv'
  <2>1. o \in 0..MaxOps
    BY DEF Unresolved, Ops, Bounds
  <2>2. /\ me'.pc = "complete" /\ me'.job.op = o
        /\ me' \in [pc : Steps,
                    cmd : {"none", "sync", "continue", "abort", "recover", "resume"},
                    job : Jobs, at : 0..(N + 1)]
    BY <1>2, <2>1 DEF Inv, Fields, Jobs, Steps
  <2> QED
    BY <1>1, <1>2, <2>2, ConcludeInv
<1>3. ASSUME NEW o \in Unresolved, op' = [op EXCEPT ![o].st = "abandoned"], Goto("sweep")
      PROVE  Inv'
  BY <1>1, <1>3, GotoFields, ConcludeInv DEF Inv, Steps
<1>4. CASE Quit /\ UNCHANGED op /\ Unresolved # {}
  BY <1>1, <1>4, QuitFields, ConcludeInv DEF Inv
<1>5. CASE Goto("sweep") /\ UNCHANGED op
  <2>1. me'.pc = "sweep" /\ Fields'
    BY <1>1, <1>5, GotoFields DEF Inv, Fields, Steps
  <2>2. Own(ref)' /\ Running' /\ Journaled'
    BY <1>1, <1>5, <2>1, QuietRuns, JournaledStays DEF Inv, Own
  <2>3. Manifest' /\ RetainedIsWhole'
    BY <1>1, <1>5, <2>1, ManifestStays, WholeStays DEF Inv
  <2> QED
    BY <2>1, <2>2, <2>3 DEF Inv
<1> QED
  BY <1>2, <1>3, <1>4, <1>5 DEF Recover

-----------------------------------------------------------------------------
(* A new cascade, and the layers one by one. *)

LEMMA SynchronizeInv ==
    ASSUME Bounds, Inv, Synchronize
    PROVE  Inv'
<1>1. /\ me.pc = "start" /\ me.cmd = "sync"
      /\ UNCHANGED <<ref, base, cp, man, tref, failed, edits, faults>>
  BY DEF Synchronize, world
<1>2. CASE Quit /\ UNCHANGED <<op, nops, wt>>
  <2>1. me'.pc = "idle" /\ Fields'
    BY <1>1, <1>2, QuitFields DEF Inv, Fields
  <2>2. Own(ref)' /\ Running' /\ Journaled'
    BY <1>1, <1>2, <2>1, QuietRuns, JournaledStays DEF Inv, Own
  <2>3. Manifest' /\ RetainedIsWhole'
    BY <1>1, <1>2, <2>1, ManifestStays, WholeStays DEF Inv
  <2> QED
    BY <2>1, <2>2, <2>3 DEF Inv
<1>3. ASSUME NEW o \in Unresolved, UNCHANGED <<op, nops, wt>>,
             me' = [me EXCEPT !.pc = "complete", !.cmd = "resume", !.job.op = o]
      PROVE  Inv'
  <2>1. o \in 0..MaxOps
    BY DEF Unresolved, Ops, Bounds
  <2>2. /\ me'.pc = "complete" /\ me'.job.op = o
        /\ me' \in [pc : Steps,
                    cmd : {"none", "sync", "continue", "abort", "recover", "resume"},
                    job : Jobs, at : 0..(N + 1)]
    BY <1>3, <2>1 DEF Inv, Fields, Jobs, Steps
  <2> QED
    BY <1>1, <1>3, <2>2, ConcludeInv
<1>4. ASSUME NEW o \in Unresolved, op' = [op EXCEPT ![o].st = "abandoned"],
             UNCHANGED <<me, nops, wt>>
      PROVE  Inv'
  BY <1>1, <1>4, ConcludeInv DEF Inv, Fields
<1>5. CASE /\ man.st = "none" /\ nops < MaxOps /\ nops' = nops + 1 /\ UNCHANGED op
           /\ me' = [me EXCEPT !.pc = "calculate", !.at = 1,
                       !.job = [NoJob EXCEPT !.op = nops + 1, !.base = base,
                                             !.before = ref]]
           /\ wt' = [wt EXCEPT ![nops + 1] = [Gone EXCEPT !.st = "clean", !.head = ref[1]]]
  <2>1. nops + 1 \in Ops /\ nops + 1 \in 0..MaxOps /\ 1 \in Layers
    BY <1>5 DEF Inv, Fields, Ops, Layers, Bounds
  <2>2. ref[1] \in Edges \X Edges
    BY <2>1 DEF Inv, Fields, Commits, Edges
  <2> DEFINE d == [NoJob EXCEPT !.op = nops + 1, !.base = base, !.before = ref]
  <2>3. PICK j \in Jobs : /\ j = d /\ j.op = nops + 1 /\ j.base = base /\ j.before = ref
                          /\ \A l \in Layers : j.newp[l] = NoEdge /\ j.cand[l] = None
    <3>1. NoJob.newp = [l \in Layers |-> NoEdge] /\ NoJob.cand = [l \in Layers |-> None]
      BY DEF NoJob, Nothing
    <3>2. d.op = nops + 1 /\ d.base = base /\ d.before = ref /\ d.newp = NoJob.newp
          /\ d.cand = NoJob.cand
      BY Constants DEF Jobs
    <3>3. d \in Jobs
      BY <2>1, Constants, ZenonT(60) DEF Inv, Fields, Jobs, Edges, Heads
    <3> QED
      BY <3>1, <3>2, <3>3, ZenonT(60)
  <2>4. /\ me'.pc = "calculate" /\ me'.at = 1 /\ me'.cmd = "sync" /\ me'.job = j
        /\ Fields'
    <3>1. /\ me'.pc = "calculate" /\ me'.at = 1 /\ me'.cmd = "sync" /\ me'.job = j
          /\ me' \in [pc : Steps,
                      cmd : {"none", "sync", "continue", "abort", "recover", "resume"},
                      job : Jobs, at : 0..(N + 1)]
      <4>1. me' = [me EXCEPT !.pc = "calculate", !.at = 1, !.job = j]
        BY <1>5, <2>3, Zenon
      <4>2. 1 \in 0..(N + 1) /\ j \in Jobs
        BY <2>3 DEF Bounds
      <4> QED
        BY <1>1, <4>1, <4>2 DEF Inv, Fields, Steps
    <3> QED
      BY <1>1, <1>5, <2>1, <2>2, <3>1, CleanWorktree DEF Inv, Fields
  <2>5. Working(j, 0)'
    <3>1. JobOK(j)
      BY <2>1, <2>3 DEF JobOK, Inv, Own, Fields
    <3>2. \A l \in Layers : ~ (l <= 0)
      BY DEF Layers, Bounds
    <3> QED
      BY <2>3, <3>1, <3>2 DEF Working, Upto
  <2>6. Own(ref)' /\ Running'
    BY <1>1, <1>5, <2>1, <2>4, <2>5 DEF Inv, Own, Running
  <2>7. Manifest' /\ RetainedIsWhole'
    BY <1>1, <1>5 DEF Manifest, RetainedIsWhole
  <2>8. Journaled'
    BY <1>5, JournaledStays DEF Inv
  <2> QED
    BY <2>4, <2>6, <2>7, <2>8 DEF Inv
<1> QED
  BY <1>2, <1>3, <1>4, <1>5 DEF Synchronize

\* --continue goes on from the manifest: the finished rebase becomes the
\* candidate of the pending layer.
LEMMA ContinueInv ==
    ASSUME Bounds, Inv, Continue
    PROVE  Inv'
<1>1. /\ me.pc = "start" /\ me.cmd = "continue"
      /\ UNCHANGED <<ref, base, cp, op, man, wt, nops, failed, edits, faults>>
  BY DEF Continue, world
<1>2. CASE Quit /\ UNCHANGED tref
  <2>1. me'.pc = "idle" /\ Fields'
    BY <1>1, <1>2, QuitFields DEF Inv, Fields
  <2>2. Own(ref)' /\ Running' /\ Journaled'
    BY <1>1, <1>2, <2>1, QuietRuns, JournaledStays DEF Inv, Own
  <2>3. Manifest' /\ RetainedIsWhole'
    BY <1>1, <1>2, <2>1, ManifestStays, WholeStays DEF Inv
  <2> QED
    BY <2>1, <2>2, <2>3 DEF Inv
<1>3. CASE man.st = "ok" /\ Resumable(man.job) /\ Unmoved(man.job)
  <2>1. PICK j : j = man.job
    OBVIOUS
  <2>2. PICK k \in 0..N : Stopped(j, k)
    BY <1>3, <2>1 DEF Inv, Manifest
  <2>3. JobOK(j) /\ Upto(j, k) /\ j \in Jobs /\ j.op \in Ops
    BY <2>2 DEF Stopped, JobOK
  <2>4. \A l \in Layers : j.cand[l] # None => tref[j.op][l] = j.cand[l]
    BY <1>3, <2>1 DEF Resumable
  <2>5. CASE k = N
    <3>1. me' = [me EXCEPT !.pc = "approve", !.job = j] /\ UNCHANGED tref
      BY <1>1, <1>3, <2>1, <2>3, <2>5, Pending DEF Continue
    <3>2. /\ me'.pc = "approve" /\ me'.job = j /\ me'.cmd = "continue" /\ Fields'
      BY <1>1, <2>3, <3>1 DEF Inv, Fields, Steps
    <3>3. Working(j, N)'
      BY <2>3, <2>4, <2>5, <3>1 DEF Working, Upto, Layers, Bounds
    <3>4. Own(ref)' /\ Running' /\ Journaled'
      BY <1>1, <3>2, <3>3, JournaledStays DEF Inv, Own, Running
    <3>5. Manifest' /\ RetainedIsWhole'
      BY <1>1, <3>1, ManifestStays, WholeStays DEF Inv
    <3> QED
      BY <3>2, <3>4, <3>5 DEF Inv
  <2>6. CASE k < N
    <3>1. PICK p \in Layers : p = k + 1 /\ p = Lowest(Missing(j)) /\ Missing(j) # {}
      BY <2>3, <2>6, Pending DEF Layers, Bounds
    <3>2. PICK c : c = wt[j.op].head
      OBVIOUS
    <3>3. /\ wt[j.op].st = "clean" /\ j.newp[p] # NoEdge /\ c[2] = j.newp[p]
      BY <1>3, <2>1, <3>1, <3>2 DEF Resumable
    <3>4. c[1][2] = p /\ c[2] = Edge(j, p)
      BY <2>2, <2>3, <2>6, <3>1, <3>2, <3>3 DEF Stopped, JobOK
    <3>5. c \in Commits
      <4>1. c \in Edges \X Edges /\ j.newp[p] \in Edges
        BY <2>3, <3>2 DEF Inv, Fields, Jobs
      <4>2. c[1] # NoEdge /\ c[2] # NoEdge
        BY <3>3, <3>4 DEF NoEdge, Layers, Bounds
      <4> QED
        BY <4>1, <4>2 DEF Edges, Commits
    <3>6. PICK e \in Jobs : /\ e = [j EXCEPT !.cand[p] = c]
                            /\ e.op = j.op /\ e.base = j.base /\ e.before = j.before
                            /\ e.newp = j.newp /\ e.cand = [j.cand EXCEPT ![p] = c]
      <4>1. [j EXCEPT !.cand[p] = c] \in Jobs
        BY <2>3, <3>5 DEF Jobs, Heads
      <4> QED
        BY <2>3, <4>1 DEF Jobs
    <3>7. /\ JobOK(e) /\ Upto(e, p)
          /\ \A l \in Layers : l > p => e.newp[l] = NoEdge
      <4>1. Upto(j, p - 1) /\ \A l \in Layers : l > p => j.newp[l] = NoEdge
        BY <2>2, <3>1 DEF Stopped, Layers, Bounds
      <4>2. /\ e.op = j.op /\ e.base = j.base /\ e.before = j.before
            /\ e.cand = [j.cand EXCEPT ![p] = c]
            /\ \A l \in Layers : e.newp[l] = j.newp[l] \/ (l = p /\ e.newp[l] = Edge(j, p))
        BY <3>6
      <4>3. JobOK(e) /\ Upto(e, p)
        BY <2>3, <3>4, <3>5, <4>1, <4>2, NextCandidate
      <4> QED
        BY <3>6, <4>1, <4>3
    <3>8. /\ tref' = [tref EXCEPT ![j.op][p] = c]
          /\ me' = [me EXCEPT !.pc = "record", !.at = p, !.job = e]
      <4>1. /\ tref' = [tref EXCEPT ![j.op][p] = c]
            /\ me' = [me EXCEPT !.pc = "record", !.at = p, !.job = [j EXCEPT !.cand[p] = c]]
        BY <1>1, <1>3, <2>1, <3>1, <3>2 DEF Continue
      <4> QED
        BY <3>6, <4>1
    <3>9. /\ me'.pc = "record" /\ me'.job = e /\ me'.at = p /\ me'.cmd = "continue"
          /\ Fields'
      <4>1. p \in 0..(N + 1) /\ e \in Jobs
        BY <3>6 DEF Layers, Bounds
      <4>2. tref' \in [Ops -> Heads]
        BY <2>3, <3>5, <3>8 DEF Inv, Fields, Heads
      <4> QED
        BY <1>1, <3>8, <4>1, <4>2 DEF Inv, Fields, Steps
    <3>10. Working(e, p)'
      <4>1. \A l \in Layers : l <= p => tref'[j.op][l] = e.cand[l]
        BY <2>3, <2>4, <3>1, <3>6, <3>8, SMTT(60) DEF Upto, Inv, Fields, Heads, Jobs, Layers, Bounds
      <4> QED
        BY <3>6, <3>7, <4>1 DEF Working, Layers, Bounds
    <3>11. Own(ref)' /\ Running' /\ Journaled'
      BY <1>1, <3>3, <3>6, <3>9, <3>10, JournaledStays DEF Inv, Own, Running
    <3>12. Manifest'
      BY <1>1, ManifestStays DEF Inv
    <3>13. RetainedIsWhole'
      <4>1. \A l \in Layers : j.cand[l] # None => tref'[j.op][l] = tref[j.op][l]
        BY <2>3, <3>1, <3>8, SMTT(60) DEF Upto, Inv, Fields, Layers, Bounds, Heads
      <4> QED
        BY <1>1, <2>1, <4>1, WholeStays DEF Inv
    <3> QED
      BY <3>9, <3>11, <3>12, <3>13 DEF Inv
  <2> QED
    BY <2>5, <2>6 DEF Bounds
<1> QED
  BY <1>2, <1>3 DEF Continue

\* The resolved candidate is written down.
LEMMA RecordInv ==
    ASSUME Bounds, Inv, Record
    PROVE  Inv'
<1>1. /\ me.pc = "record" /\ me.cmd = "continue"
      /\ UNCHANGED <<ref, base, cp, op, wt, tref, nops, edits>>
  BY DEF Record, world, Inv, Running
<1>2. PICK j \in Jobs, k \in Layers : j = me.job /\ k = me.at /\ Working(j, k)
  BY <1>1 DEF Inv, Running, Working, JobOK
<1>3. Working(j, k)' /\ wt'[j.op].st # "gone"
  BY <1>1, <1>2 DEF Working, Inv, Running
<1>4. Own(ref)' /\ Journaled'
  BY <1>1, JournaledStays DEF Inv, Own
<1>5. CASE /\ man' = [st |-> "ok", job |-> me.job] /\ UNCHANGED faults
           /\ me' = [me EXCEPT !.at = me.at + 1,
                       !.pc = IF me.at = N THEN "approve" ELSE "calculate"]
  <2>1. /\ me'.pc = IF k = N THEN "approve" ELSE "calculate"
        /\ me'.job = j /\ me'.at = k + 1 /\ me'.cmd = "continue"
        /\ me' \in [pc : Steps,
                    cmd : {"none", "sync", "continue", "abort", "recover", "resume"},
                    job : Jobs, at : 0..(N + 1)]
    <3>1. k + 1 \in 0..(N + 1)
      BY DEF Layers, Bounds
    <3>2. me' = [me EXCEPT !.at = k + 1, !.pc = IF k = N THEN "approve" ELSE "calculate"]
      BY <1>2, <1>5
    <3> QED
      BY <1>1, <1>2, <3>1, <3>2 DEF Inv, Fields, Steps
  <2>2. man'.st = "ok" /\ man'.job = j /\ Fields'
    BY <1>1, <1>2, <1>5, <2>1 DEF Inv, Fields
  <2>3. Running'
    <3>1. CASE k = N
      BY <1>3, <2>1, <3>1 DEF Running
    <3>2. CASE k # N
      <4>1. k + 1 \in Layers /\ (k + 1) - 1 = k
        BY <3>2 DEF Layers, Bounds
      <4> QED
        BY <1>3, <2>1, <2>2, <3>2, <4>1 DEF Running
    <3> QED
      BY <3>1, <3>2
  <2>4. Stopped(j, k)'
    BY <1>3 DEF Working, Stopped, Layers, Bounds
  <2>5. Manifest'
    BY <2>2, <2>4 DEF Manifest, Stopped, Layers
  <2>6. RetainedIsWhole'
    BY <1>3, <2>2 DEF RetainedIsWhole, Working, Upto
  <2> QED
    BY <1>4, <2>2, <2>3, <2>5, <2>6 DEF Inv
<1>6. CASE Fault /\ Quit /\ UNCHANGED man
  <2>1. me'.pc = "idle" /\ Fields'
    BY <1>1, <1>6, QuitFields, FaultFields DEF Inv, Fields
  <2>2. Running' /\ Manifest' /\ RetainedIsWhole'
    BY <1>1, <1>6, <2>1, QuietRuns, FaultFields, ManifestStays, WholeStays DEF Inv
  <2> QED
    BY <1>4, <2>1, <2>2 DEF Inv
<1> QED
  BY <1>5, <1>6 DEF Record

\* One layer: its candidate, its conflict, or a failed write.
LEMMA CalculateInv ==
    ASSUME Bounds, Inv, Calculate
    PROVE  Inv'
<1>1. me.pc = "calculate" /\ UNCHANGED <<ref, base, cp, op, nops, edits>>
  BY DEF Calculate, world
<1>2. PICK j \in Jobs, l \in Layers :
        /\ j = me.job /\ l = me.at /\ Working(j, l - 1)
        /\ me.cmd = "continue" /\ man.st = "ok" => man.job = j
  BY <1>1 DEF Inv, Running, Working, JobOK
<1>3. me.cmd = "continue" \/ (me.cmd = "sync" /\ man.st = "none")
  BY <1>1 DEF Inv, Running
<1>4. PICK e : e = Edge(j, l)
  OBVIOUS
<1>5. /\ JobOK(j) /\ Upto(j, l - 1) /\ j.op \in Ops /\ j.newp[l] = NoEdge
      /\ \A x \in Layers : x > l => j.newp[x] = NoEdge
      /\ \A x \in Layers : x < l => tref[j.op][x] = j.cand[x]
  BY <1>2 DEF Working, JobOK, Layers, Bounds
<1>6. e \in Names /\ j.op \in 0..MaxOps
  BY <1>2, <1>4, <1>5, EdgeType DEF Jobs
<1>7. PICK c \in Commits : c = << <<j.op, l>>, e >>
  <2>1. <<j.op, l>> \in Names
    BY <1>5 DEF Names, Ops, Layers, Bounds
  <2> QED
    BY <1>6, <2>1 DEF Commits
<1>8. c[1][2] = l /\ c[2] = e
  BY <1>7
<1>9. j.newp \in [Layers -> Edges] /\ j.cand \in Heads /\ e \in Edges
  BY <1>2, <1>6 DEF Jobs, Edges
<1>10. PICK d \in Jobs :
         /\ d = [j EXCEPT !.newp[l] = e, !.cand[l] = c]
         /\ d.op = j.op /\ d.base = j.base /\ d.before = j.before
         /\ d.newp = [j.newp EXCEPT ![l] = e] /\ d.cand = [j.cand EXCEPT ![l] = c]
  <2>1. [j.newp EXCEPT ![l] = e] \in [Layers -> Edges] /\ [j.cand EXCEPT ![l] = c] \in Heads
    BY <1>9 DEF Heads
  <2>2. [j EXCEPT !.newp[l] = e, !.cand[l] = c] \in Jobs
    BY <1>2, <2>1 DEF Jobs
  <2> QED
    BY <1>2, <2>2 DEF Jobs
<1>11. PICK s \in Jobs :
         /\ s = [j EXCEPT !.newp[l] = e]
         /\ s.op = j.op /\ s.base = j.base /\ s.before = j.before
         /\ s.newp = [j.newp EXCEPT ![l] = e] /\ s.cand = j.cand
  <2>1. [j.newp EXCEPT ![l] = e] \in [Layers -> Edges]
    BY <1>9
  <2>2. [j EXCEPT !.newp[l] = e] \in Jobs
    BY <1>2, <2>1 DEF Jobs
  <2> QED
    BY <1>2, <2>2 DEF Jobs
<1>12. JobOK(d) /\ Upto(d, l) /\ \A x \in Layers : x > l => d.newp[x] = NoEdge
  <2>1. /\ d.op = j.op /\ d.base = j.base /\ d.before = j.before
        /\ d.cand = [j.cand EXCEPT ![l] = c]
        /\ \A x \in Layers : d.newp[x] = j.newp[x] \/ (x = l /\ d.newp[x] = Edge(j, l))
    BY <1>4, <1>9, <1>10
  <2>2. JobOK(d) /\ Upto(d, l)
    BY <1>4, <1>5, <1>8, <2>1, NextCandidate
  <2> QED
    BY <1>5, <2>1, <2>2 DEF Layers, Bounds
<1>13. JobOK(s) /\ Upto(s, l - 1) /\ \A x \in Layers : x > l => s.newp[x] = NoEdge
  <2>1. /\ s.op = j.op /\ s.base = j.base /\ s.before = j.before /\ s.cand = j.cand
        /\ \A x \in Layers : s.newp[x] = j.newp[x] \/ (x = l /\ s.newp[x] = Edge(j, l))
    BY <1>4, <1>9, <1>11
  <2>2. JobOK(s) /\ Upto(s, l - 1)
    BY <1>5, <2>1, NextEdge
  <2> QED
    BY <1>5, <2>1, <2>2 DEF Layers, Bounds
<1>14. Own(ref)' /\ Journaled'
  BY <1>1, JournaledStays DEF Inv, Own
<1> DEFINE Retained == [st |-> "rebasing", head |-> j.before[l], layer |-> l, onto |-> e]
           CleanAt  == [Gone EXCEPT !.st = "clean", !.head = c]
<1>15. /\ CleanAt \in [st : {"gone", "clean", "dirty", "rebasing"},
                       head : Edges \X Edges, layer : 0..N, onto : Edges]
       /\ CleanAt.st = "clean"
  <2>1. c \in Edges \X Edges
    BY <1>7 DEF Commits, Edges
  <2> QED
    BY <2>1, CleanWorktree
<1>16. /\ Retained \in [st : {"gone", "clean", "dirty", "rebasing"},
                        head : Edges \X Edges, layer : 0..N, onto : Edges]
       /\ j.before[l] \in Commits /\ j.before[l][1][2] = l
  <2>1. j.before[l] \in Commits /\ j.before[l][1][2] = l
    BY <1>5 DEF JobOK, Own
  <2> QED
    BY <1>9, <2>1 DEF Commits, Edges, Layers, Bounds
\* A failed write of a continued job leaves the manifest of that job.
<1>17. ASSUME UNCHANGED man, me.cmd = "continue", man.st = "ok" PROVE Manifest'
  <2>1. man'.st = "ok" /\ man'.job = j /\ l - 1 \in 0..N /\ (l - 1) + 1 = l
    BY <1>2, <1>17 DEF Layers, Bounds
  <2>2. Stopped(j, l - 1)'
    BY <1>5, <2>1 DEF Stopped
  <2> QED
    BY <2>1, <2>2 DEF Manifest, Stopped
<1>18. CASE /\ tref' = [tref EXCEPT ![j.op][l] = c] /\ wt' = [wt EXCEPT ![j.op] = CleanAt]
            /\ me' = [me EXCEPT !.job = d, !.at = l + 1,
                        !.pc = IF l = N THEN "approve" ELSE "calculate"]
            /\ man' = IF me.cmd = "continue" THEN [st |-> "ok", job |-> d] ELSE man
            /\ UNCHANGED faults
  <2>1. l + 1 \in 0..(N + 1)
    BY DEF Layers, Bounds
  <2>2. /\ me'.pc = IF l = N THEN "approve" ELSE "calculate"
        /\ me'.job = d /\ me'.at = l + 1 /\ me'.cmd = me.cmd
        /\ me' \in [pc : Steps,
                    cmd : {"none", "sync", "continue", "abort", "recover", "resume"},
                    job : Jobs, at : 0..(N + 1)]
    BY <1>10, <1>18, <2>1 DEF Inv, Fields, Steps
  <2>3. tref' \in [Ops -> Heads] /\ \A x \in Layers : x <= l => tref'[j.op][x] = d.cand[x]
    <3>1. tref' \in [Ops -> Heads] /\ tref'[j.op] = [tref[j.op] EXCEPT ![l] = c]
      BY <1>5, <1>9, <1>18, ZenonT(60) DEF Inv, Fields, Heads
    <3>2. tref[j.op] \in [Layers -> Commits \cup {None}]
      BY <1>5 DEF Inv, Fields, Heads
    <3>3. \A x \in Layers : x < l => d.cand[x] = tref'[j.op][x]
      BY <1>5, <1>9, <1>10, <3>1, <3>2 DEF Heads, Layers, Bounds
    <3>4. d.cand[l] = tref'[j.op][l]
      BY <1>9, <1>10, <3>1, <3>2 DEF Heads
    <3> QED
      BY <3>1, <3>3, <3>4 DEF Layers, Bounds
  <2>4. wt' \in [Ops -> [st : {"gone", "clean", "dirty", "rebasing"},
                         head : Edges \X Edges, layer : 0..N, onto : Edges]]
        /\ wt'[j.op].st = "clean"
    BY <1>5, <1>15, <1>18 DEF Inv, Fields
  <2>5. \/ me.cmd = "continue" /\ man' = [st |-> "ok", job |-> d]
        \/ me.cmd = "sync" /\ UNCHANGED man /\ man.st = "none"
    BY <1>3, <1>18
  <2>6. Fields'
    BY <1>1, <1>10, <1>18, <2>2, <2>3, <2>4, <2>5 DEF Inv, Fields
  <2>7. Working(d, l)'
    BY <1>10, <1>12, <2>3 DEF Working, Layers, Bounds
  <2>8. Running'
    <3>1. CASE l = N
      BY <2>2, <2>5, <2>7, <3>1 DEF Running
    <3>2. CASE l # N
      <4>1. l + 1 \in Layers /\ (l + 1) - 1 = l
        BY <3>2 DEF Layers, Bounds
      <4> QED
        BY <2>2, <2>5, <2>7, <3>2, <4>1 DEF Running
    <3> QED
      BY <3>1, <3>2
  <2>9. Stopped(d, l)' /\ l \in 0..N
    BY <1>12 DEF Stopped, Layers, Bounds
  <2>10. Manifest'
    BY <2>5, <2>9 DEF Manifest, Stopped
  <2>11. RetainedIsWhole'
    <3>1. wt'[d.op].st # "gone" /\ \A x \in Layers : d.cand[x] # None => tref'[d.op][x] = d.cand[x]
      BY <1>10, <1>12, <2>3, <2>4 DEF Upto
    <3>2. man'.st = "ok" => man'.job = d
      BY <2>5
    <3> QED
      BY <3>1, <3>2 DEF RetainedIsWhole
  <2> QED
    BY <1>14, <2>6, <2>8, <2>10, <2>11 DEF Inv
<1>19. CASE /\ tref' = [tref EXCEPT ![j.op][l] = c] /\ wt' = [wt EXCEPT ![j.op] = CleanAt]
            /\ me.cmd = "continue" /\ Fault /\ Quit /\ UNCHANGED man
  <2>1. me'.pc = "idle" /\ faults' # 0 /\ Fields'
    <3>1. tref' \in [Ops -> Heads]
      BY <1>5, <1>9, <1>19 DEF Inv, Fields, Heads
    <3> QED
      BY <1>1, <1>15, <1>19, <3>1, QuitFields, FaultFields DEF Inv, Fields
  <2>2. Running' /\ RetainedIsWhole'
    BY <2>1, QuietRuns DEF RetainedIsWhole
  <2>3. Manifest'
    BY <1>17, <1>19 DEF Manifest
  <2> QED
    BY <1>14, <2>1, <2>2, <2>3 DEF Inv
<1>20. CASE /\ wt' = [wt EXCEPT ![j.op] = Retained] /\ man' = [st |-> "ok", job |-> s]
            /\ Quit /\ UNCHANGED <<tref, faults>>
  <2>1. me'.pc = "idle" /\ Fields'
    BY <1>1, <1>11, <1>16, <1>20, QuitFields DEF Inv, Fields
  <2>2. wt'[j.op] = Retained
    BY <1>5, <1>20 DEF Inv, Fields
  <2>3. Stopped(s, l - 1)' /\ l - 1 \in 0..N
    <3>1. (l - 1) + 1 = l /\ l - 1 \in 0..N
      BY DEF Layers, Bounds
    <3> QED
      BY <1>11, <1>13, <1>16, <2>2, <3>1 DEF Stopped
  <2>4. Running' /\ Manifest'
    BY <1>20, <2>1, <2>3, QuietRuns DEF Manifest, Stopped
  <2>5. RetainedIsWhole'
    <3>1. \A x \in Layers : s.cand[x] # None => tref[s.op][x] = s.cand[x]
      BY <1>5, <1>11 DEF Upto, Layers, Bounds
    <3>2. man'.job = s /\ wt'[s.op].st # "gone" /\ tref' = tref
      BY <1>11, <1>20, <2>2
    <3> QED
      BY <3>1, <3>2 DEF RetainedIsWhole
  <2> QED
    BY <1>14, <2>1, <2>4, <2>5 DEF Inv
<1>21. CASE /\ Fault /\ Quit /\ UNCHANGED man
            /\ \/ /\ me.cmd = "continue" /\ UNCHANGED tref
                  /\ wt' = [wt EXCEPT ![j.op] = Retained]
               \/ me.cmd # "continue" /\ Cleaned(j.op)
  <2>1. me'.pc = "idle" /\ faults' # 0 /\ Fields'
    <3>1. /\ wt' \in [Ops -> [st : {"gone", "clean", "dirty", "rebasing"},
                              head : Edges \X Edges, layer : 0..N, onto : Edges]]
          /\ tref' \in [Ops -> Heads]
      BY <1>5, <1>16, <1>21, CleanedFields, SMTT(60) DEF Inv, Fields
    <3> QED
      BY <1>1, <1>21, <3>1, QuitFields, FaultFields DEF Inv, Fields
  <2>2. Running' /\ RetainedIsWhole'
    BY <2>1, QuietRuns DEF RetainedIsWhole
  <2>3. Manifest'
    BY <1>3, <1>17, <1>21 DEF Manifest
  <2> QED
    BY <1>14, <2>1, <2>2, <2>3 DEF Inv
<1> QED
  <2>1. /\ Edge(me.job, me.at) = e /\ << <<j.op, l>>, e >> = c
        /\ [j EXCEPT !.newp[l] = e, !.cand[l] = c] = d /\ [j EXCEPT !.newp[l] = e] = s
        /\ me.job = j /\ me.at = l
    BY <1>2, <1>4, <1>7, <1>10, <1>11
  <2>2. \/ /\ tref' = [tref EXCEPT ![j.op][l] = c] /\ wt' = [wt EXCEPT ![j.op] = CleanAt]
           /\ \/ /\ me' = [me EXCEPT !.job = d, !.at = l + 1,
                             !.pc = IF l = N THEN "approve" ELSE "calculate"]
                 /\ man' = IF me.cmd = "continue" THEN [st |-> "ok", job |-> d] ELSE man
                 /\ UNCHANGED <<failed, faults>>
              \/ me.cmd = "continue" /\ Fault /\ failed' = TRUE /\ Quit /\ UNCHANGED man
        \/ /\ wt' = [wt EXCEPT ![j.op] = Retained] /\ man' = [st |-> "ok", job |-> s]
           /\ Quit /\ UNCHANGED <<tref, failed, faults>>
        \/ /\ Fault /\ Quit /\ UNCHANGED man
           /\ IF me.cmd = "continue"
              THEN wt' = [wt EXCEPT ![j.op] = Retained] /\ failed' = TRUE /\ UNCHANGED tref
              ELSE Cleaned(j.op) /\ UNCHANGED failed
    BY <2>1, Zenon DEF Calculate
  <2> QED
    BY <1>18, <1>19, <1>20, <1>21, <2>2

-----------------------------------------------------------------------------
(* The theorems. *)

LEMMA InitInv == Bounds /\ Init => Inv
<1> SUFFICES ASSUME Bounds, Init PROVE Inv
  OBVIOUS
<1>1. \A l \in Layers : <<0, l>> \in Names /\ <<0, l - 1>> \in Names
  BY DEF Names, Layers, Bounds
<1>2. ref \in [Layers -> Commits] /\ Own(ref)
  BY <1>1 DEF Init, Commits, Own
<1>3. <<1, 0>> \in Names /\ 0 \in 0..MaxOps
  BY DEF Names, Bounds
<1>4. NoOp \in [st : {"none", "prepared", "completed", "abandoned"},
               before : Heads, after : Heads, base : Edges]
  BY Constants DEF NoOp, Edges
<1>5. Fields
  BY <1>2, <1>3, <1>4, Constants DEF Init, Fields
<1>6. Running /\ Manifest /\ Journaled /\ RetainedIsWhole
  BY DEF Init, Running, Manifest, Journaled, RetainedIsWhole, Idle, NoMan, NoOp
<1> QED
  BY <1>2, <1>5, <1>6 DEF Inv

LEMMA NextInv == Bounds /\ Inv /\ [Next]_vars => Inv'
<1> SUFFICES ASSUME Bounds, Inv, [Next]_vars PROVE Inv'
  OBVIOUS
<1>1. CASE UNCHANGED vars
  <2>1. UNCHANGED <<ref, base, cp, op, man, wt, tref, nops, me, failed, edits, faults>>
    BY <1>1 DEF vars
  <2>2. Fields' /\ Own(ref)' /\ Running' /\ Journaled'
    BY <2>1 DEF Inv, Fields, Own, Running, Working, Journaled
  <2>3. Manifest' /\ RetainedIsWhole'
    BY <2>1, ManifestStays, WholeStays DEF Inv
  <2> QED
    BY <2>2, <2>3 DEF Inv
<1>2. CASE Work
  BY <1>2, SynchronizeInv, CalculateInv, ContinueInv, RecordInv, ApproveInv, ReobserveInv,
     PrepareInv, RetireInv, PushInv, CompleteInv, AbortInv, ClearInv, RecoverInv, SweepInv
     DEF Work
<1>3. CASE Resolve \/ Meddle \/ Crash \/ \E c \in {"sync", "continue", "abort", "recover"} : Begin(c)
  BY <1>3, ResolveInv, MeddleInv, CrashInv, BeginInv
<1> QED
  BY <1>1, <1>2, <1>3 DEF Next

LEMMA SpecInv == ASSUME Bounds PROVE Spec => []Inv
BY InitInv, NextInv, PTL DEF Spec

\* Every head, checkpoint and record keeps its type.
THEOREM ContinuationTyped ==
    ASSUME Bounds
    PROVE  Spec => []TypeOK
<1>1. Inv => TypeOK
  BY DEF Inv, Fields, TypeOK, Commits
<1> QED
  BY <1>1, SpecInv, PTL

(***************************************************************************)
(* What `delivery sync` and `--continue` journal (sync.py, _continue): the *)
(* candidates of an operation stand on one another from the captured base  *)
(* up and each is its own layer's, although some were calculated before a  *)
(* conflict, some by hand, and some after a restart.                       *)
(***************************************************************************)
THEOREM SuffixIsLinear ==
    ASSUME Bounds
    PROVE  Spec => []JournaledSuffixIsLinear
<1>1. Inv => JournaledSuffixIsLinear
  <2> SUFFICES ASSUME Inv, NEW o \in Ops, op[o].st # "none"
               PROVE  /\ op[o].after[1][2] = op[o].base
                      /\ \A l \in Layers : /\ op[o].after[l][1][2] = l
                                           /\ l > 1 => op[o].after[l][2] = op[o].after[l - 1][1]
    BY DEF JournaledSuffixIsLinear
  <2>1. 1 \in Layers
    BY DEF Layers, Bounds
  <2> QED
    BY <2>1 DEF Inv, Journaled, Layers
<1> QED
  BY <1>1, SpecInv, PTL

(***************************************************************************)
(* A retained conflict (recover.py, observe_orphans): as long as no write  *)
(* failed and no command died, the worktree and the candidate refs that    *)
(* the manifest names are there until it is aborted or journaled, whatever *)
(* is recovered, swept, resolved or pushed meanwhile.                      *)
(***************************************************************************)
THEOREM RetainedStaysWhole ==
    ASSUME Bounds
    PROVE  Spec => []RetainedIsWhole
<1>1. Inv => RetainedIsWhole
  BY DEF Inv
<1> QED
  BY <1>1, SpecInv, PTL

(***************************************************************************)
(* The append gate (persist.py, append_prepared): a concluded operation    *)
(* stays concluded, also when its manifest outlived it.                    *)
(***************************************************************************)
THEOREM ConcludesOnce ==
    ASSUME Bounds
    PROVE  Spec => [][ConcludedOnce]_vars
<1>1. Inv /\ [Next]_vars => [ConcludedOnce]_vars
  <2> SUFFICES ASSUME Inv, Next, NEW o \in Ops, op[o].st \in {"completed", "abandoned"}
               PROVE  op'[o].st = op[o].st
    BY DEF ConcludedOnce
  <2>1. CASE UNCHANGED op
    BY <2>1
  <2>2. ASSUME NEW x \in Unresolved, op' = [op EXCEPT ![x].st = "abandoned"]
        PROVE  op'[o].st = op[o].st
    BY <2>2 DEF Unresolved, Inv, Fields
  <2>3. CASE Prepare
    <3>1. UNCHANGED op \/ (Admits(me.job.op) /\ op' = [op EXCEPT ![me.job.op] =
             [st |-> "prepared", before |-> me.job.before,
              after |-> me.job.cand, base |-> me.job.base]])
      BY <2>3 DEF Prepare
    <3> QED
      BY <3>1 DEF Admits, Inv, Fields
  <2>4. CASE Complete
    <3>1. /\ me.job.op \in Ops /\ op[me.job.op].st = "prepared"
          /\ UNCHANGED op \/ op' = [op EXCEPT ![me.job.op].st = "completed"]
      BY <2>4 DEF Complete, Inv, Running
    <3> QED
      BY <3>1 DEF Inv, Fields
  <2>5. CASE Synchronize \/ Recover
    <3>1. UNCHANGED op \/ \E x \in Unresolved : op' = [op EXCEPT ![x].st = "abandoned"]
      BY <2>5 DEF Synchronize, Recover
    <3> QED
      BY <2>1, <2>2, <3>1, ZenonT(60)
  <2>6. CASE Calculate \/ Continue \/ Record \/ Approve \/ Reobserve \/ Retire \/ Push
             \/ Abort \/ Clear \/ Sweep
    BY <2>1, <2>6, ZenonT(60) DEF Calculate, Continue, Record, Approve, Reobserve, Retire, Push, Abort,
       Clear, Sweep
  <2>7. CASE Resolve \/ Meddle \/ Crash \/ \E c \in {"sync", "continue", "abort", "recover"} : Begin(c)
    BY <2>1, <2>7 DEF Resolve, Meddle, Crash, Begin
  <2> QED
    BY <2>3, <2>4, <2>5, <2>6, <2>7 DEF Next, Work
<1> QED
  BY <1>1, SpecInv, PTL DEF Spec
=============================================================================
