------------------------------- MODULE Train -------------------------------
(***************************************************************************)
(* Reconstructing the delivery train (train.py) from the roadmap, the plan *)
(* headers, the journal, the remote branches, the pull requests and the    *)
(* native stack, while layers are planned, published, accepted and landed, *)
(* nodes are canceled, skipped and appended, the doctor persists a         *)
(* cancellation, and people change the remote by hand.                     *)
(*                                                                         *)
(* Node ids are their sort keys; plan p is the one planned for node p, and *)
(* branch p its branch.  A commit is the sequence of the changes it holds, *)
(* so ancestry is the prefix order.                                        *)
(***************************************************************************)
EXTENDS Naturals, Sequences, FiniteSets, FiniteSetsExt

CONSTANTS N,          \* node ids 1..N
          MaxEdits,   \* bound: out-of-band changes
          MaxStarts   \* bound: publications started

VARIABLES nodes, deps,      \* the roadmap
          status, canceled, \* persisted status; nodes canceled in the tracker
          link,             \* link[n]: the plan node n links (0: none)
          cp, pred,         \* plan headers: checkpoint pair, predecessor plan
          hist, cov, stamp, \* journal: PUBLISH outcomes, landed heads, ready stamps
          ref, base,        \* remote branches, the objective's base branch
          pr, stack,        \* pull requests and the native stack
          job,              \* the publication in progress
          doc,              \* the doctor's repair pass
          starts, edits

roadmap == <<nodes, deps, status, canceled, link>>
headers == <<cp, pred>>
journal == <<hist, cov, stamp>>
remote  == <<ref, base, pr, stack>>
vars    == <<roadmap, headers, journal, remote, job, doc, starts, edits>>

Ids    == 1..N
Main   == N + 1                    \* the base branch, as a pull request's base
Absent == <<0>>
NoPair == [parent |-> Absent, head |-> Absent]
NoPr   == [st |-> "none", base |-> 0, head |-> Absent]
NoJob  == [st |-> "idle", n |-> 0, parent |-> 0, onto |-> Absent]
NoDoc  == [st |-> "idle", n |-> 0, was |-> "none", todo |-> {}]

Contains(c, a) == Len(a) <= Len(c) /\ SubSeq(c, 1, Len(a)) = a
Open(p)        == pr[p].st \in {"draft", "ready"}
Elems(s)       == {s[i] : i \in DOMAIN s}

\* What one reconstruction can observe: Git ancestry, the stack preview and the
\* journal, of which one may be out of reach.
Views == {v \in [anc : BOOLEAN, stk : BOOLEAN, jrn : BOOLEAN] :
            Cardinality({k \in DOMAIN v : ~ v[k]}) <= 1}

-----------------------------------------------------------------------------
(* The roadmap (objective/graph.py).                                       *)

\* _contracted_deps: edges through skipped nodes are inherited.
Contracted(D, skip) ==
    LET E[k \in 0..N] ==
          IF k = 0 THEN D
          ELSE LET e == E[k - 1]
               IN  [n \in Ids |-> (e[n] \ skip) \cup UNION {e[m] : m \in e[n] \cap skip}]
    IN  IF skip = {} THEN D ELSE [n \in Ids |-> E[N][n] \ skip]

\* delivery_order: Kahn's algorithm, the smallest ready id first.
DeliveryOrder(L, D) ==
    LET K[k \in 0..N] ==
          IF k = 0 THEN <<>>
          ELSE LET s == K[k - 1]
                   ready == {n \in L \ Elems(s) : D[n] \subseteq Elems(s)}
               IN  IF ready = {} THEN s ELSE Append(s, Min(ready))
    IN  K[N]

-----------------------------------------------------------------------------
(* reconstruct_train, for the view v.                                      *)

\* get_objective: a natively canceled node reads as skipped.
Effective(n) == IF n \in canceled THEN "skipped" ELSE status[n]

\* _scan_duplicate_backlinks, over every node of the roadmap.
Duplicated == {n \in nodes : link[n] # 0 /\ \E m \in nodes \ {n} : link[m] = link[n]}

\* Mutant of Contractible: only a completed publication is evidence.
ContractsPending(n, v) ==
    /\ status[n] # "done" /\ n \notin Duplicated
    /\ link[n] # 0 => LET p == link[n]
                      IN  /\ p = n /\ cp[p] = NoPair
                          /\ v.jrn /\ "completed" \notin hist[p]
                          /\ ref[p] = Absent /\ pr[p].st = "none"

\* _classify_cancellations and _canceled_plan_unsafe: the safe-contraction proof.
Contractible(n, v) ==
    /\ status[n] # "done" /\ n \notin Duplicated
    /\ link[n] # 0 => LET p == link[n]
                      IN  /\ p = n /\ cp[p] = NoPair
                          /\ v.jrn /\ hist[p] \cap {"open", "completed"} = {}
                          /\ ref[p] = Absent /\ pr[p].st = "none"

Projected(v) == {n \in canceled : Contractible(n, v)}
Unsafe(v)    == canceled \ Projected(v)
Skipped(v)   == {n \in nodes \ Unsafe(v) : Effective(n) = "skipped"}
Layers(v)    == DeliveryOrder(nodes \ Skipped(v), Contracted(deps, Skipped(v)))

Pair(n)    == IF link[n] = 0 THEN NoPair ELSE cp[link[n]]
Claims(n)  == Pair(n) # NoPair
Full(n)    == Pair(n).parent # Absent /\ Pair(n).head # Absent
Unresolved == {p \in Ids : "open" \in hist[p]}

\* _observe_landed: covered by a completed LAND and corroborated by the live
\* pull request, at its expected base or retargeted onto the base branch.
Landed(v, s, i) ==
    LET n == s[i]
        p == link[n]
    IN  /\ v.jrn /\ p = n /\ cov[p] # Absent /\ Pair(n).head = cov[p]
        /\ pr[p].st = "merged" /\ pr[p].head = cov[p]
        /\ pr[p].base \in {Main, IF i = 1 THEN Main ELSE link[s[i - 1]]}

\* _landed_prefix.
LandedPrefix(v, s) == Max({k \in 0..Len(s) : \A i \in 1..k : Landed(v, s, i)})

\* _classify_git: synced needs positive evidence of the parent.
Git(n, v) ==
    LET c == Pair(n)
        r == IF link[n] = 0 THEN Absent ELSE ref[link[n]]
    IN  IF r = Absent THEN "absent"
        ELSE IF c.parent # Absent /\ v.anc /\ ~ Contains(r, c.parent) THEN "wrong_parent"
        ELSE IF c.head = Absent THEN "unknown"
        ELSE IF r = c.head THEN IF c.parent # Absent /\ ~ v.anc THEN "unknown" ELSE "synced"
        ELSE "drifted"

\* _observe_prs: the first layer above the landed prefix expects the base branch.
ExpectedBase(v, s, i) == IF i = 1 \/ i = LandedPrefix(v, s) + 1 THEN Main ELSE link[s[i - 1]]
WrongBase(v, s, i) == LET p == link[s[i]]
                      IN  /\ p # 0 /\ pr[p].st # "none" /\ ~ Landed(v, s, i)
                          /\ ExpectedBase(v, s, i) # 0
                          /\ pr[p].base # ExpectedBase(v, s, i)
WrongHead(n) == LET p == link[n]
                    r == IF ref[p] # Absent THEN ref[p] ELSE Pair(n).head
                IN  p # 0 /\ Open(p) /\ r # Absent /\ pr[p].head # r

\* _classify_publication, before the membership check.
Verified(v, s, i) == LET n == s[i]
                     IN  /\ Full(n) /\ Git(n, v) = "synced"
                         /\ Open(link[n]) /\ ~ WrongBase(v, s, i) /\ ~ WrongHead(n)

\* _observe_membership: two or more published open pull requests are the stack.
Participants(s) == SelectSeq([i \in DOMAIN s |-> link[s[i]]],
                             LAMBDA p : p # 0 /\ cp[p] # NoPair /\ Open(p))
Member(v, s)    == Len(Participants(s)) < 2 \/ (v.stk /\ stack = Participants(s))

Publication(v, s, i) ==
    IF Landed(v, s, i) THEN "landed"
    ELSE IF ~ Claims(s[i]) THEN "unpublished"
    ELSE IF Verified(v, s, i) /\ (Open(link[s[i]]) => Member(v, s)) THEN "published"
    ELSE "publication_drift"
Satisfied(v, s, i) == Publication(v, s, i) \in {"published", "landed"}

\* _published_prefix, and the candidate of _build_readiness.
Prefix(v, s) == Max({k \in 0..Len(s) : \A i \in 1..k : Satisfied(v, s, i)})

(* The blocker findings, by code.                                          *)

\* _join_layers, _fold_journal, _check_predecessors, the unsafe cancellations.
JoinFindings(v, s) ==
    LET pos == {i \in DOMAIN s : link[s[i]] # 0}
    IN [ journal_corruption  |-> ~ v.jrn,
         duplicate_plan_link |-> Duplicated # {},
         node_link_mismatch  |-> \E i \in pos : link[s[i]] # s[i],
         canceled            |-> Unsafe(v) # {},
         predecessor_mismatch |->
             \E i \in pos : LET q == pred[link[s[i]]]
                            IN  q # 0 /\ (i = 1 \/ link[s[i - 1]] # q) ]

\* _check_publish_coverage and _check_checkpoint_topology.
CheckpointFindings(v, s) ==
    LET cpd == {i \in DOMAIN s : Claims(s[i])}
    IN [ checkpoint_pair_incomplete |-> \E i \in cpd : ~ Full(s[i]),
         publish_outcome     |-> v.jrn /\ \E i \in cpd : "completed" \notin hist[link[s[i]]],
         checkpoint_prefix_gap |-> \E i \in cpd : \E j \in 1..(i - 1) : ~ Full(s[j]),
         checkpoint_parent_mismatch |->
             \E i \in DOMAIN s \ {1} : /\ Full(s[i]) /\ Full(s[i - 1])
                                       /\ Pair(s[i]).parent # Pair(s[i - 1]).head ]

\* _landed_prefix and _classify_git.
BranchFindings(v, s) ==
       [ landed_prefix_gap   |-> \E i \in (LandedPrefix(v, s) + 1)..Len(s) : Landed(v, s, i),
         checkpoint_drift    |->
             \E i \in {j \in DOMAIN s : Claims(s[j])} :
                \/ Git(s[i], v) \in {"wrong_parent", "drifted"}
                \/ Git(s[i], v) = "absent" /\ ~ Landed(v, s, i) ]

\* _observe_prs.
PrFindings(v, s) ==
    LET pos == {i \in DOMAIN s : link[s[i]] # 0}
    IN [ missing_pr          |-> \E i \in pos : Claims(s[i]) /\ pr[link[s[i]]].st = "none",
         pr_wrong_base       |-> \E i \in DOMAIN s : WrongBase(v, s, i),
         pr_closed           |-> \E i \in pos : pr[link[s[i]]].st = "closed",
         pr_wrong_head       |-> \E i \in pos : WrongHead(s[i]) ]

\* _observe_membership and _published_prefix.
StackFindings(v, s) ==
       [ stack_divergent     |-> v.stk /\ ~ Member(v, s),
         prefix_gap          |-> \E i \in (Prefix(v, s) + 1)..Len(s) :
                                     Publication(v, s, i) = "published" ]

Any(f)        == \E code \in DOMAIN f : f[code]
Blocked(v, s) == \/ Any(JoinFindings(v, s)) \/ Any(CheckpointFindings(v, s))
                 \/ Any(BranchFindings(v, s)) \/ Any(PrFindings(v, s))
                 \/ Any(StackFindings(v, s))

\* _build_readiness: the node that may be built next, if any (0: none).
ReadyNode(v) == LET s == Layers(v)
                    k == Prefix(v, s)
                IN  IF k = Len(s) \/ Blocked(v, s) \/ (v.jrn /\ Unresolved # {})
                    THEN 0 ELSE s[k + 1]

\* _derive_handoff: only the latest stamp decides.
Handoff(v, s, i) ==
    LET p == link[s[i]]
    IN  IF Publication(v, s, i) # "published" \/ ~ v.jrn THEN "not_applicable"
        ELSE IF stamp[p] = Absent THEN "unstamped"
        ELSE IF stamp[p] # cp[p].head THEN "stale"
        ELSE IF pr[p].st = "draft" THEN "suspended" ELSE "ready"

\* check_handoff_gate, over the direct dependencies.
HandoffGate(n, v) ==
    LET s == Layers(v)
        raw == {m \in nodes : Effective(m) = "skipped"}
    IN  \A d \in Contracted(deps, raw)[n] :
            \/ Effective(d) \in {"done", "skipped"}
            \/ d \in Projected(v)
            \/ \E i \in DOMAIN s : /\ s[i] = d
                                   /\ \/ Publication(v, s, i) = "landed"
                                      \/ Handoff(v, s, i) = "ready"

\* derive_layer_context: the predecessor in the delivery order.
Parent(v, n) == LET s == Layers(v)
                    i == CHOOSE j \in DOMAIN s : s[j] = n
                IN  IF i = 1 THEN Main ELSE link[s[i - 1]]
Tip(b)       == IF b = Main THEN base ELSE ref[b]

-----------------------------------------------------------------------------
(* The life of a layer.                                                    *)

Init ==
    /\ \E shape \in { <<{1, 2}, {}, {1}, {}>>, <<{1, 3}, {3}, {}, {}>>, <<{1, 3}, {}, {}, {}>>,
                      <<{1, 2, 3}, {3}, {}, {}>>, <<{1, 2, 3}, {}, {1}, {1}>> } :
           nodes = shape[1] /\ deps = [n \in Ids |-> shape[n + 1]]
    /\ status = [n \in Ids |-> "pending"] /\ canceled = {} /\ link = [n \in Ids |-> 0]
    /\ cp = [p \in Ids |-> NoPair] /\ pred = [p \in Ids |-> 0]
    /\ hist = [p \in Ids |-> {}] /\ cov = [p \in Ids |-> Absent]
    /\ stamp = [p \in Ids |-> Absent]
    /\ ref = [p \in Ids |-> Absent] /\ base = <<>>
    /\ pr = [p \in Ids |-> NoPr] /\ stack = <<>>
    /\ job = NoJob /\ doc = NoDoc /\ starts = 0 /\ edits = 0

\* _classify_planning: the candidate is planned when its handoff gate passes;
\* the claim and the saved plan are one step here (module Planning splits them).
Plan(n) ==
    /\ n \in nodes /\ status[n] = "pending" /\ link[n] = 0
    /\ \E v \in Views : ReadyNode(v) = n /\ HandoffGate(n, v)
    /\ link' = [link EXCEPT ![n] = n]
    /\ status' = [status EXCEPT ![n] = "in_progress"]
    /\ UNCHANGED <<nodes, deps, canceled, headers, journal, remote, job, doc, starts, edits>>

\* validate_stacked_tail_append: the new node orders strictly last.
AppendNode(n, D) ==
    LET skip == {m \in nodes : Effective(m) = "skipped"}
        old  == DeliveryOrder(nodes \ skip, Contracted(deps, skip))
        new  == [deps EXCEPT ![n] = D]
    IN  /\ n \notin nodes /\ D \subseteq nodes
        /\ DeliveryOrder((nodes \cup {n}) \ skip, Contracted(new, skip)) = Append(old, n)
        /\ nodes' = nodes \cup {n} /\ deps' = new
        /\ UNCHANGED <<status, canceled, link, headers, journal, remote, job, doc, starts, edits>>

\* require_ready_layer and prepare_layer_start: the layer is built on the
\* latest head of its parent branch.
Start(n) ==
    /\ job.st = "idle" /\ starts < MaxStarts /\ link[n] = n
    /\ \E v \in Views :
         /\ ReadyNode(v) = n
         /\ Parent(v, n) # 0 /\ Tip(Parent(v, n)) # Absent
         /\ job' = [st |-> "built", n |-> n, parent |-> Parent(v, n), onto |-> Tip(Parent(v, n))]
    /\ starts' = starts + 1
    /\ UNCHANGED <<roadmap, headers, journal, remote, doc, edits>>

\* append_prepared: one unresolved operation; the candidate holds the fresh parent.
Prepare ==
    LET n == job.n
    IN  /\ job.st = "built"
        /\ IF Unresolved = {} /\ Tip(job.parent) = job.onto /\ ref[n] = Absent
           THEN /\ hist' = [hist EXCEPT ![n] = @ \cup {"open"}]
                /\ job' = [job EXCEPT !.st = "prepared"]
           ELSE job' = NoJob /\ UNCHANGED hist
        /\ UNCHANGED <<roadmap, headers, cov, stamp, remote, doc, starts, edits>>

\* The exact-lease push, the pull request and the native stack.
Publish ==
    LET n == job.n
        c == Append(job.onto, n)
    IN  /\ job.st = "prepared" /\ ref[n] = Absent
        /\ ref' = [ref EXCEPT ![n] = c]
        /\ pr' = [pr EXCEPT ![n] = [st |-> "draft", base |-> job.parent, head |-> c]]
        /\ stack' = IF job.parent = Main \/ ~ Open(job.parent) THEN stack
                    ELSE IF stack = <<>> THEN <<job.parent, n>> ELSE Append(stack, n)
        /\ job' = [job EXCEPT !.st = "published"]
        /\ UNCHANGED <<roadmap, headers, journal, base, doc, starts, edits>>

\* _verify_postconditions and the checkpoint pair.
Checkpoint ==
    LET n == job.n
    IN  /\ job.st = "published"
        /\ IF ref[n] = Append(job.onto, n) /\ Open(n) /\ pr[n].base = job.parent
           THEN /\ cp' = [cp EXCEPT ![n] = [parent |-> job.onto, head |-> ref[n]]]
                /\ pred' = [pred EXCEPT ![n] = IF job.parent = Main THEN 0 ELSE job.parent]
                /\ job' = [job EXCEPT !.st = "recorded"]
           ELSE job' = NoJob /\ UNCHANGED headers
        /\ UNCHANGED <<roadmap, journal, remote, doc, starts, edits>>

Complete == /\ job.st = "recorded"
            /\ hist' = [hist EXCEPT ![job.n] = (@ \ {"open"}) \cup {"completed"}]
            /\ job' = NoJob
            /\ UNCHANGED <<roadmap, headers, cov, stamp, remote, doc, starts, edits>>

\* The publication is given up, and abandoned once nothing of it is visible.
Crash == /\ job.st # "idle" /\ job' = NoJob
         /\ UNCHANGED <<roadmap, headers, journal, remote, doc, starts, edits>>
Abandon(p) == /\ job.st = "idle" /\ "open" \in hist[p] /\ cp[p] = NoPair
              /\ ref[p] = Absent /\ pr[p].st = "none"
              /\ hist' = [hist EXCEPT ![p] = (@ \ {"open"}) \cup {"abandoned"}]
              /\ UNCHANGED <<roadmap, headers, cov, stamp, remote, job, doc, starts, edits>>

\* /ready (_build_stamp_record): a verified publication is accepted and its
\* pull request marked ready.
Accept(n) ==
    /\ \E v \in Views : LET s == Layers(v)
                        IN  \E i \in DOMAIN s : /\ s[i] = n /\ Publication(v, s, i) = "published"
                                                /\ Handoff(v, s, i) # "ready"
    /\ stamp' = [stamp EXCEPT ![n] = cp[n].head]
    /\ pr' = [pr EXCEPT ![n].st = "ready"]
    /\ UNCHANGED <<roadmap, headers, hist, cov, ref, base, stack, job, doc, starts, edits>>

\* A landing merges a bottom run of an accepted train, deletes its branches and
\* retargets the next pull request (module Landing), and the nodes are done.
Land ==
    \E v \in Views : LET s == Layers(v)
    IN  /\ s # <<>> /\ job.st = "idle" /\ ~ Blocked(v, s) /\ v.jrn /\ Unresolved = {}
        /\ \A i \in DOMAIN s : Landed(v, s, i) \/ Handoff(v, s, i) = "ready"
        /\ \E k \in (LandedPrefix(v, s) + 1)..Len(s) : LET run == {s[i] : i \in 1..k}
           IN  /\ base' = ref[s[k]]
               /\ cov' = [p \in Ids |-> IF p \in run /\ cov[p] = Absent THEN cp[p].head ELSE cov[p]]
               /\ pr' = [p \in Ids |-> IF p \in run THEN [pr[p] EXCEPT !.st = "merged"]
                                       ELSE IF k < Len(s) /\ p = s[k + 1]
                                            THEN [pr[p] EXCEPT !.base = Main] ELSE pr[p]]
               /\ ref' = [p \in Ids |-> IF p \in run THEN Absent ELSE ref[p]]
               /\ stack' = SelectSeq(stack, LAMBDA p : p \notin run)
               /\ status' = [n \in Ids |-> IF n \in run THEN "done" ELSE status[n]]
    /\ UNCHANGED <<nodes, deps, canceled, link, headers, hist, stamp, job, doc, starts, edits>>

-----------------------------------------------------------------------------
(* repair_projected_cancellations (diagnostics.py).                        *)

\* The initial proof lists the candidates.
Examine == /\ doc.st = "idle"
           /\ \E v \in Views : LET c == {n \in Projected(v) : status[n] # "skipped"}
                               IN  c # {} /\ doc' = [NoDoc EXCEPT !.st = "prove", !.todo = c]
           /\ UNCHANGED <<roadmap, headers, journal, remote, job, starts, edits>>

\* A fresh proof just before the write, for one candidate at a time.
Prove == /\ doc.st = "prove"
         /\ IF doc.todo = {} THEN doc' = NoDoc
            ELSE LET n == Min(doc.todo)
                 IN  \E v \in Views :
                       doc' = IF n \in Projected(v)
                              THEN [st |-> "write", n |-> n, was |-> status[n],
                                    todo |-> doc.todo \ {n}]
                              ELSE [doc EXCEPT !.todo = doc.todo \ {n}]
         /\ UNCHANGED <<roadmap, headers, journal, remote, job, starts, edits>>

\* write_node_cancellation_status: compare and write on a fresh read.
Write == LET n == doc.n
         IN  /\ doc.st = "write"
             /\ IF /\ status[n] = doc.was /\ status[n] # "skipped" /\ n \in canceled
                   /\ cp[n] = NoPair
                THEN /\ status' = [status EXCEPT ![n] = "skipped"]
                     /\ doc' = [doc EXCEPT !.st = "verify"]
                ELSE doc' = [doc EXCEPT !.st = "prove"] /\ UNCHANGED status
             /\ UNCHANGED <<nodes, deps, canceled, link, headers, journal, remote, job, starts,
                            edits>>


\* _verify_applied: still safely projected and no longer repairable.
Verify == /\ doc.st = "verify"
          /\ \E v \in Views :
               doc' = IF doc.n \in Projected(v) THEN [doc EXCEPT !.st = "prove"]
                      ELSE [doc EXCEPT !.st = "compensate"]
          /\ UNCHANGED <<roadmap, headers, journal, remote, job, starts, edits>>

\* _compensate: write the prior status back if it still reads skipped.
Compensate == /\ doc.st = "compensate"
              /\ status' = IF status[doc.n] = "skipped"
                           THEN [status EXCEPT ![doc.n] = doc.was] ELSE status
              /\ doc' = NoDoc
              /\ UNCHANGED <<nodes, deps, canceled, link, headers, journal, remote, job, starts,
                             edits>>

-----------------------------------------------------------------------------
\* What people do by hand.
Edit == edits < MaxEdits /\ edits' = edits + 1

Cancel(n) == /\ n \in nodes /\ Edit
             /\ canceled' = IF n \in canceled THEN canceled \ {n} ELSE canceled \cup {n}
             /\ UNCHANGED <<nodes, deps, status, link, headers, journal, remote, job, doc, starts>>

Skip(n) == /\ n \in nodes /\ status[n] # "skipped" /\ Edit
           /\ status' = [status EXCEPT ![n] = "skipped"]
           /\ UNCHANGED <<nodes, deps, canceled, link, headers, journal, remote, job, doc, starts>>

Relink(n, p) == /\ n \in nodes /\ p # link[n] /\ link[p] = p /\ Edit
                /\ link' = [link EXCEPT ![n] = p]
                /\ UNCHANGED <<nodes, deps, status, canceled, headers, journal, remote, job, doc,
                               starts>>

\* Push to a branch or rewrite it, close or retarget a pull request, dissolve
\* the stack, lose half of a checkpoint pair.
Meddle(p) ==
    /\ ref[p] # Absent /\ Edit
    /\ \/ \E c \in {Append(ref[p], N + 2), <<N + 2>>} :
            /\ ref' = [ref EXCEPT ![p] = c] /\ pr' = [pr EXCEPT ![p].head = c]
            /\ UNCHANGED <<stack, cp>>
       \/ /\ Open(p) /\ UNCHANGED <<ref, stack, cp>>
          /\ pr' \in { [pr EXCEPT ![p].st = "closed"],
                       [pr EXCEPT ![p].base = IF pr[p].base = Main THEN p ELSE Main] }
       \/ stack # <<>> /\ stack' = <<>> /\ UNCHANGED <<ref, pr, cp>>
       \/ cp[p] # NoPair /\ cp' = [cp EXCEPT ![p].parent = Absent] /\ UNCHANGED <<ref, pr, stack>>
    /\ UNCHANGED <<roadmap, pred, journal, base, job, doc, starts>>

Next == \/ \E n \in Ids : \/ Plan(n) \/ Start(n) \/ Abandon(n) \/ Accept(n) \/ Cancel(n)
                          \/ Skip(n) \/ Meddle(n)
                          \/ \E D \in SUBSET Ids : AppendNode(n, D)
                          \/ \E p \in Ids : Relink(n, p)
        \/ Prepare \/ Publish \/ Checkpoint \/ Complete \/ Crash \/ Land
        \/ Examine \/ Prove \/ Write \/ Verify \/ Compensate

-----------------------------------------------------------------------------
TypeOK == /\ nodes \subseteq Ids /\ canceled \subseteq nodes
          /\ \A n \in Ids : /\ status[n] \in {"pending", "in_progress", "skipped", "done"}
                            /\ link[n] \in 0..N /\ pred[n] \in 0..N
                            /\ hist[n] \subseteq {"open", "completed", "abandoned"}
                            /\ Cardinality(Unresolved) <= 1

\* Work that would be lost with its layer.
HasWork(n) == \/ ref[n] # Absent \/ pr[n].st # "none" \/ cp[n] # NoPair
              \/ hist[n] \cap {"open", "completed"} # {}

\* A node is ready to be built only on a sound prefix, whatever the observation
\* could not see: no operation is pending, every layer below is landed or stands
\* at its checkpoint with an open pull request and a completed publication, each
\* holds the one below, and every dependency of the node that was neither
\* skipped nor canceled is among them.
ReadyIsSound ==
    \A v \in Views : LET n == ReadyNode(v)
                         s == Layers(v)
                         below == {i \in DOMAIN s : \E j \in DOMAIN s : s[j] = n /\ i < j}
                         live == {i \in below : cov[s[i]] = Absent \/ pr[s[i]].st # "merged"}
        IN  n # 0 =>
            /\ \A p \in Ids : "open" \notin hist[p]
            /\ \A i \in live : /\ ref[s[i]] = cp[s[i]].head /\ Open(s[i])
                               /\ "completed" \in hist[s[i]]
                               /\ \A j \in live : j < i => Contains(ref[s[i]], ref[s[j]])
            /\ \A d \in deps[n] : \/ status[d] = "skipped" \/ d \in canceled
                                  \/ \E i \in below : s[i] = d

\* A canceled node with remote work, or with a pending or completed publication,
\* stays a layer of the train, whatever the observation could not see.
CanceledWorkStaysVisible ==
    \A v \in Views : \A n \in canceled : link[n] = n /\ HasWork(n) => n \in Elems(Layers(v))

=============================================================================
