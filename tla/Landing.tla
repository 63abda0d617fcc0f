------------------------------ MODULE Landing ------------------------------
(***************************************************************************)
(* Landing a published stack (landing.py, land.py) and concluding an       *)
(* unresolved LAND operation (recover.py, classify_land_record), run by    *)
(* the one command that holds the machine's operation lock, against the    *)
(* merge service of GitHub and people who push, merge and close pull       *)
(* requests out of band.                                                   *)
(*                                                                         *)
(* Layers 1..N lie bottom to top.  Every layer is a roadmap node, a plan   *)
(* and a pull request.  A head is a number: 0 was published first, later   *)
(* numbers are pushed by a restack or out of band.  Only the head of the   *)
(* top pull request is pinned by the merge request, so a lower layer may   *)
(* be merged at a head that nobody approved.                               *)
(*                                                                         *)
(* A merge request outlives the command that sent it.  It merges the       *)
(* layers one by one, may fail or be handed to a merge queue half way, and *)
(* is gone once its 24 hour lifetime has elapsed.                          *)
(***************************************************************************)
EXTENDS Naturals, FiniteSets

CONSTANTS N,          \* layers
          MaxOps,     \* bound: LAND operations
          MaxEdits,   \* bound: out-of-band pushes, merges, closes and restacks
          MaxFaults   \* bound: crashes, failed calls, lost replies, declined prompts

ASSUME Bounds == /\ N \in Nat \ {0} /\ MaxOps \in Nat
                 /\ MaxEdits \in Nat /\ MaxFaults \in Nat

Layers == 1..N
Ops    == 1..MaxOps
Heads  == 0..MaxEdits
Commands == {"land", "recover", "abandon", "accept"}

VARIABLES pr,      \* pr[l]: state, head and base of the pull request of layer l
          cp,      \* cp[l]: published_head_sha in the plan header
          op,      \* op[o]: the journal's record of operation o
          nops,    \* operations minted
          job,     \* job[o]: the merge request of operation o, at GitHub
          merges,  \* merges[o]: the layers that the request of o has merged
          plan,    \* plans whose issue is closed and stamped
          node,    \* roadmap nodes marked done
          objective, \* "open" or "closed"
          evidence,  \* the layer sets of the reconcile evidence reported so far
          me,      \* the running command
          edits, faults

vars == <<pr, cp, op, nops, job, merges, plan, node, objective, evidence, me,
          edits, faults>>

github  == <<pr, job, merges>>
journal == <<op, nops>>
backend == <<plan, node, objective, evidence>>
env     == <<edits, faults>>

Pr(s, h, b) == [st |-> s, head |-> h, base |-> b]
Unread == Pr("unread", 0, "main")

NoOp == [st |-> "none", layers |-> {}, heads |-> [l \in Layers |-> 0],
         accepted |-> FALSE, aged |-> FALSE, landed |-> {}]

Idle == [pc |-> "idle", cmd |-> "none", op |-> 0, try |-> 1, handle |-> "none",
         todo |-> {}, seen |-> [l \in Layers |-> Unread], landed |-> {},
         prefix |-> {}, durable |-> TRUE, concluded |-> {}, converging |-> FALSE,
         reported |-> FALSE]

Init == /\ pr = [l \in Layers |-> Pr("OPEN", 0, IF l = 1 THEN "main" ELSE "below")]
        /\ cp = [l \in Layers |-> 0]
        /\ op = [o \in Ops |-> NoOp] /\ nops = 0
        /\ job = [o \in Ops |-> [st |-> "none", reply |-> "none"]]
        /\ merges = [o \in Ops |-> {}]
        /\ plan = {} /\ node = {} /\ objective = "open" /\ evidence = {}
        /\ me = Idle
        /\ edits = 0 /\ faults = 0

-----------------------------------------------------------------------------
(* What a command reads. *)

Unresolved == {o \in Ops : op[o].st = "prepared"}

\* join_completed_land_operations: the heads that completed operations record.
Covered == {l \in Layers : \E o \in Ops : /\ op[o].st = "completed"
                                          /\ l \in op[o].landed
                                          /\ op[o].heads[l] = cp[l]}

\* _observe_landed: covered, and merged at the published head.
Landed == {l \in Covered : pr[l].st = "MERGED" /\ pr[l].head = cp[l]}

Lowest(S) == CHOOSE l \in S : \A k \in S : l <= k
Highest(S) == CHOOSE l \in S : \A k \in S : l >= k

\* _observe_prs: the bottom layer that is not landed lies on the objective base.
ExpectedBase(l, todo) == IF l = Lowest(todo) THEN "main" ELSE "below"

Approved(o, l, p)  == p.st = "OPEN" /\ p.head = op[o].heads[l]

\* Mutant of VerifiedMerge: the state is taken for the identity.
MergedAtAll(o, l, p) == p.st = "MERGED"

\* The per-layer verification: MERGED at the approved head, onto the expected
\* base or the objective base.
VerifiedMerge(o, l, p) == /\ p.st = "MERGED" /\ p.head = op[o].heads[l]
                          /\ p.base \in {ExpectedBase(l, op[o].layers), "main"}

\* merged_run: the layers up to the first one that is not verified.
MergedRun(o) == {l \in op[o].layers : \A k \in op[o].layers :
                    k <= l => VerifiedMerge(o, k, me.seen[k])}

Shape(o) ==
    LET run    == MergedRun(o)
        rest   == op[o].layers \ run
        before == \A l \in rest : Approved(o, l, me.seen[l])
    IN  CASE rest = {} -> "all-merged"
          [] rest # {} /\ before /\ run = {} -> "all-before"
          [] rest # {} /\ before /\ run # {} -> "prefix"
          [] OTHER -> "other"

Singleton(o) == Cardinality(op[o].layers) = 1

\* The handle evidence, read once per classification.
Handle(o) ==
    IF Singleton(o) THEN "none-singleton"
    ELSE IF op[o].accepted THEN (IF job[o].st = "flying" THEN "pending" ELSE job[o].st)
    ELSE IF op[o].aged THEN "none-async-aged" ELSE "none-async-young"

\* classify_land_record's table of handle evidence and observation.
Classification(o) ==
    LET h == me.handle
        s == Shape(o)
    IN  IF \/ op[o].layers # Layers \ me.landed
           \/ \E l \in op[o].layers : me.seen[l].st = "error"
        THEN "mixed"
        ELSE CASE h \in {"pending", "enqueued"} -> "in_flight"
               [] h = "merged" -> IF s = "all-merged" THEN "all_after" ELSE "in_flight"
               [] h \in {"failed", "expired", "none-async-aged", "none-singleton"} ->
                    CASE s = "all-merged" -> "all_after"
                      [] s = "all-before" -> "all_before"
                      [] s = "prefix" /\ h # "none-singleton" -> "external_prefix"
                      [] OTHER -> "mixed"
               [] OTHER -> CASE s = "all-merged" -> "all_after"
                             [] s = "other" -> "mixed"
                             [] OTHER -> "in_flight"

-----------------------------------------------------------------------------
(* Steps of the command. *)

Step(s)   == me' = s
Goto(pc)  == me' = [me EXCEPT !.pc = pc]
Quit      == me' = Idle
Turn(pc)  == [Idle EXCEPT !.pc = pc, !.cmd = me.cmd]
Observe(pc, S) == me' = [me EXCEPT !.pc = pc, !.todo = S,
                                   !.seen = [l \in Layers |-> Unread]]
Fault     == faults < MaxFaults /\ faults' = faults + 1

\* The lock is free.  A direct merge is answered or lost with its connection, so
\* none is in flight any more when the next command starts.
Begin(c) == /\ me.pc = "idle"
            /\ \A o \in Ops : ~ (Singleton(o) /\ job[o].st = "flying")
            /\ Step([Idle EXCEPT !.pc = IF c = "land" THEN "assess" ELSE "fold",
                                 !.cmd = c])
            /\ UNCHANGED <<pr, cp, journal, job, merges, backend, env>>

\* assess_land_readiness: an unresolved operation blocks, a landed remainder of
\* nothing completes the objective, and every open layer must be at its
\* checkpoint on its expected base.  What else GitHub may refuse (checks,
\* reviews, merge rules) is a block at any time.
Assess ==
    LET todo == Layers \ Landed
    IN  /\ me.pc = "assess"
        /\ \/ Quit
           \/ /\ Unresolved = {} /\ todo = {}
              /\ Landed \subseteq plan \cap node
              /\ Goto("complete")
           \/ /\ Unresolved = {} /\ todo # {} /\ nops < MaxOps
              /\ \A l \in todo, k \in Landed : k < l
              /\ \A l \in todo : /\ pr[l].st = "OPEN" /\ pr[l].head = cp[l]
                                 /\ pr[l].base = ExpectedBase(l, todo)
              /\ Step([me EXCEPT !.pc = "reobserve", !.todo = todo, !.landed = Landed])
        /\ UNCHANGED <<pr, cp, journal, job, merges, backend, env>>

\* The NOTHING_TO_LAND arm after its consent: nodes are revalidated, the close
\* is the primary effect.
Complete == /\ me.pc = "complete"
            /\ \/ /\ node = Layers /\ objective = "open"
                  /\ objective' = "closed" /\ Goto("report")
               \/ /\ ~ (node = Layers /\ objective = "open")
                  /\ Quit /\ UNCHANGED objective
            /\ UNCHANGED <<pr, cp, journal, job, merges, plan, node, evidence, env>>

\* _reobserve, one pull request at a time; any mismatch is land_drift.
Reobserve(l) ==
    LET rest == me.todo \ {l}
    IN  /\ me.pc = "reobserve" /\ l \in me.todo /\ l = Lowest(me.todo)
        /\ \/ /\ pr[l].st = "OPEN" /\ pr[l].head = cp[l]
              /\ pr[l].base = ExpectedBase(l, Layers \ me.landed)
              /\ Step([me EXCEPT !.todo = rest,
                                 !.pc = IF rest = {} THEN "prepare" ELSE "reobserve"])
           \/ /\ \/ pr[l].st # "OPEN" \/ pr[l].head # cp[l]
                 \/ pr[l].base # ExpectedBase(l, Layers \ me.landed)
              /\ Quit
        /\ UNCHANGED <<pr, cp, journal, job, merges, backend, env>>

\* append_prepared, journal first: the record holds the approved heads.
Prepare ==
    LET o == nops + 1
    IN  /\ me.pc = "prepare" /\ o \in Ops
        /\ op' = [op EXCEPT ![o] = [NoOp EXCEPT !.st = "prepared",
                                        !.layers = Layers \ me.landed, !.heads = cp]]
        /\ nops' = o
        /\ Step([me EXCEPT !.pc = "submit", !.op = o])
        /\ UNCHANGED <<pr, cp, job, merges, backend, env>>

\* submit_merge_async or merge_pr_direct, pinned to the head of the top layer.
\* An identical request joins the one that is still alive, or is turned down.
Submit == /\ me.pc = "submit"
          /\ \/ /\ job[me.op].st \in {"none", "refused", "failed"}
                /\ job' = [job EXCEPT ![me.op] = [st |-> "flying", reply |-> "none"]]
             \/ job[me.op].st = "flying" /\ UNCHANGED job
             \/ /\ job[me.op].st \in {"pending", "enqueued", "merged"}
                /\ \E r \in {IF job[me.op].st = "merged" THEN "merged" ELSE "pending",
                              "refused"} : job' = [job EXCEPT ![me.op].reply = r]
          /\ Goto("reply")
          /\ UNCHANGED <<pr, cp, journal, merges, backend, env>>

\* Mutant of Reply: a refused retry proves the first request dead as well.
RefusedIsDead ==
    LET j == job[me.op].reply
    IN  /\ me.pc = "reply"
        /\ \/ j = "pending" /\ Goto("accept") /\ UNCHANGED faults
           \/ j = "merged" /\ Observe("verify", op[me.op].layers) /\ UNCHANGED faults
           \/ j = "refused" /\ Observe("disprove", op[me.op].layers) /\ UNCHANGED faults
           \/ /\ Fault
              /\ IF me.try = 1 THEN Step([me EXCEPT !.pc = "submit", !.try = 2]) ELSE Quit
        /\ UNCHANGED <<pr, cp, journal, job, merges, backend, edits>>

\* The answer, or none that can be trusted.  One retry: after an ambiguous first
\* attempt only a live matching handle or a merged reply settles anything.
Reply ==
    LET j == job[me.op].reply
    IN  /\ me.pc = "reply"
        /\ \/ j = "pending" /\ Goto("accept") /\ UNCHANGED faults
           \/ j = "merged" /\ Observe("verify", op[me.op].layers) /\ UNCHANGED faults
           \/ /\ j = "refused" /\ UNCHANGED faults
              /\ IF me.try = 1 THEN Observe("disprove", op[me.op].layers) ELSE Quit
           \/ /\ Fault
              /\ IF me.try = 1 THEN Step([me EXCEPT !.pc = "submit", !.try = 2]) ELSE Quit
        /\ UNCHANGED <<pr, cp, journal, job, merges, backend, edits>>

\* The handle is journaled before the poll; a failed append propagates (Crash).
\* The options of the existing request may not match: merge_request_conflict.
Accept == /\ me.pc = "accept"
          /\ \/ /\ op' = [op EXCEPT ![me.op].accepted = TRUE]
                /\ Goto("poll")
             \/ Quit /\ UNCHANGED op
          /\ UNCHANGED <<pr, cp, nops, job, merges, backend, env>>

\* _poll: pending, expired and unreadable probes use up the budget.
Poll == /\ me.pc = "poll"
        /\ \/ job[me.op].st = "merged" /\ Observe("verify", op[me.op].layers)
           \/ job[me.op].st = "failed" /\ Observe("disprove", op[me.op].layers)
           \/ job[me.op].st \in {"pending", "enqueued", "expired"} /\ Quit
        /\ UNCHANGED <<pr, cp, journal, job, merges, backend, env>>

\* merged_evidence of one pull request, bottom to top.
Read(l) ==
    LET rest == me.todo \ {l}
        next == CASE me.pc = "verify" -> "complete_op"
                  [] me.pc = "disprove" -> "abandon_op"
                  [] me.pc = "classify" -> "conclude"
                  [] OTHER -> "reconclude"
    IN  /\ me.pc \in {"verify", "disprove", "classify", "reclassify"}
        /\ l \in me.todo /\ l = Lowest(me.todo)
        /\ \E p \in {pr[l]} \cup (IF faults < MaxFaults THEN {Pr("error", 0, "main")} ELSE {}) :
             /\ faults' = IF p.st = "error" THEN faults + 1 ELSE faults
             /\ Step([me EXCEPT !.todo = rest, !.seen[l] = p,
                                !.pc = IF rest = {} THEN next ELSE me.pc])
        /\ UNCHANGED <<pr, cp, journal, job, merges, backend, edits>>

\* _terminal_non_application: abandoned only when every pull request is still
\* open at its approved head.
AbandonOp ==
    /\ me.pc = "abandon_op"
    /\ IF \A l \in op[me.op].layers : Approved(me.op, l, me.seen[l])
       THEN op' = [op EXCEPT ![me.op].st = "abandoned"]
       ELSE UNCHANGED op
    /\ Quit
    /\ UNCHANGED <<pr, cp, nops, job, merges, backend, env>>

\* The completed outcome of a verified merge.  A failed append is a note: the
\* layers are finalized all the same and the close is deferred.
Journal(landed) ==
    \/ /\ op' = [op EXCEPT ![me.op].st = "completed", ![me.op].landed = landed]
       /\ Step([Turn("finalize") EXCEPT !.todo = landed])
       /\ UNCHANGED faults
    \/ /\ Fault
       /\ Step([Turn("finalize") EXCEPT !.todo = landed, !.durable = FALSE])
       /\ UNCHANGED op

\* _verify_and_finalize, once every layer has been read.
CompleteOp ==
    /\ me.pc = "complete_op"
    /\ IF \A l \in op[me.op].layers : VerifiedMerge(me.op, l, me.seen[l])
       THEN Journal(op[me.op].layers)
       ELSE Quit /\ UNCHANGED <<op, faults>>
    /\ UNCHANGED <<pr, cp, nops, job, merges, backend, edits>>

\* finalize_landed_plan of the next layer: the plan and its node, each fail-open.
Finalize(l) ==
    /\ me.pc = "finalize" /\ l \in me.todo /\ l = Lowest(me.todo)
    /\ \/ plan' = plan \cup {l} /\ node' = node \cup {l} /\ UNCHANGED faults
       \/ Fault /\ node' = node \cup {l} /\ UNCHANGED plan
       \/ Fault /\ plan' = plan \cup {l} /\ UNCHANGED node
       \/ Fault /\ UNCHANGED <<plan, node>>
    /\ Step([me EXCEPT !.todo = @ \ {l}, !.concluded = @ \cup {l}])
    /\ UNCHANGED <<pr, cp, journal, job, merges, objective, evidence, edits>>

\* A land command ends where a recover command goes on to converge.
Onward == IF me.cmd = "land" \/ me.converging THEN Quit ELSE Goto("converge")

\* Mutant of Finalized: the objective is closed before its completion is durable.
EagerlyFinalized == /\ me.pc = "finalize" /\ me.todo = {}
                    /\ Goto("close")
                    /\ UNCHANGED <<pr, cp, journal, job, merges, backend, env>>

\* The close waits for a durable completion.
Finalized == /\ me.pc = "finalize" /\ me.todo = {}
             /\ IF me.durable THEN Goto("close") ELSE Onward
             /\ UNCHANGED <<pr, cp, journal, job, merges, backend, env>>

\* Mutant of Close: an objective that is found closed is not reported again.
CloseOnce ==
    /\ me.pc = "close"
    /\ \/ /\ node = Layers /\ objective = "open"
          /\ objective' = "closed" /\ Goto("report") /\ UNCHANGED faults
       \/ Fault /\ Onward /\ UNCHANGED objective
       \/ /\ ~ (node = Layers /\ objective = "open")
          /\ Onward /\ UNCHANGED <<objective, faults>>
    /\ UNCHANGED <<pr, cp, journal, job, merges, plan, node, evidence, edits>>

\* state_aware_close: only an open objective whose nodes are all terminal.  The
\* convergence pass also reports for an objective that it finds closed.
Close ==
    /\ me.pc = "close"
    /\ \/ /\ node = Layers /\ objective = "open"
          /\ objective' = "closed" /\ Goto("report") /\ UNCHANGED faults
       \/ Fault /\ Onward /\ UNCHANGED objective
       \/ /\ ~ (node = Layers /\ objective = "open")
          /\ IF me.converging /\ ~ me.reported /\ node = Layers
             THEN Goto("report") ELSE Onward
          /\ UNCHANGED <<objective, faults>>
    /\ UNCHANGED <<pr, cp, journal, job, merges, plan, node, evidence, edits>>

\* The fresh fold's reconcile evidence on a close transition.
Report == /\ me.pc = "report"
          /\ evidence' = evidence \cup {Covered}
          /\ IF me.cmd = "land" \/ me.converging THEN Quit
             ELSE Step([me EXCEPT !.pc = "converge", !.reported = TRUE])
          /\ UNCHANGED <<pr, cp, journal, job, merges, plan, node, objective, env>>

-----------------------------------------------------------------------------
(* recover: classify the sole unresolved operation, conclude it, converge.   *)

\* _recover: acting without an unresolved operation is refused.
Fold == /\ me.pc = "fold"
        /\ \/ \E o \in Unresolved :
                Step([me EXCEPT !.pc = "probe", !.op = o, !.landed = Landed])
           \/ /\ Unresolved = {}
              /\ IF me.cmd = "recover" THEN Goto("converge") ELSE Quit
        /\ UNCHANGED <<pr, cp, journal, job, merges, backend, env>>

\* The handle is probed before the pull requests are read.
Probe == /\ me.pc \in {"probe", "reprobe"}
         /\ \E h \in {Handle(me.op)} \cup (IF op[me.op].accepted /\ faults < MaxFaults
                                           THEN {"unreadable"} ELSE {}) :
              /\ faults' = IF h = "unreadable" THEN faults + 1 ELSE faults
              /\ Step([me EXCEPT !.pc = IF me.pc = "probe" THEN "classify" ELSE "reclassify",
                                 !.handle = h, !.todo = op[me.op].layers,
                                 !.seen = [l \in Layers |-> Unread]])
         /\ UNCHANGED <<pr, cp, journal, job, merges, backend, edits>>

\* _conclude: only an all_after record is rolled forward without a flag; an
\* abandonment or an accepted prefix waits for consent and is classified anew.
Conclude ==
    LET c == Classification(me.op)
    IN  /\ me.pc = "conclude"
        /\ \/ me.cmd = "recover" /\ c = "all_after" /\ Journal(op[me.op].layers)
           \/ /\ me.cmd = "recover" /\ c # "all_after" /\ Step(Turn("converge"))
              /\ UNCHANGED <<op, faults>>
           \/ /\ \/ me.cmd = "abandon" /\ c = "all_before"
                 \/ me.cmd = "accept" /\ c = "external_prefix"
              /\ \/ /\ Step([me EXCEPT !.pc = "reprobe", !.prefix = MergedRun(me.op)])
                    /\ UNCHANGED faults
                 \/ Fault /\ Step(Turn("converge"))
              /\ UNCHANGED op
           \/ /\ \/ me.cmd = "abandon" /\ c # "all_before"
                 \/ me.cmd = "accept" /\ c # "external_prefix"
              /\ Quit /\ UNCHANGED <<op, faults>>
        /\ UNCHANGED <<pr, cp, nops, job, merges, backend, edits>>

\* _abandon and _accept_prefix after consent: the world must not have moved, and
\* the merged prefix must have the confirmed members.
Reconclude ==
    LET c == Classification(me.op)
    IN  /\ me.pc = "reconclude"
        /\ \/ /\ me.cmd = "abandon" /\ c = "all_before"
              /\ op' = [op EXCEPT ![me.op].st = "abandoned"] /\ Step(Turn("converge"))
           \/ /\ me.cmd = "accept" /\ c = "external_prefix" /\ MergedRun(me.op) = me.prefix
              /\ op' = [op EXCEPT ![me.op].st = "completed", ![me.op].landed = me.prefix]
              /\ Step([Turn("finalize") EXCEPT !.todo = me.prefix])
           \/ /\ ~ (me.cmd = "abandon" /\ c = "all_before")
              /\ ~ (/\ me.cmd = "accept" /\ c = "external_prefix"
                    /\ MergedRun(me.op) = me.prefix)
              /\ Quit /\ UNCHANGED op
        /\ UNCHANGED <<pr, cp, nops, job, merges, backend, env>>

\* _corroborate_covered_layer.
Corroborated(l) == /\ pr[l].st = "MERGED" /\ pr[l].head = cp[l]
                   /\ pr[l].base \in {"below", "main"}

\* _converge_finalization: covered layers that this run did not conclude are
\* finalized again; the close waits while a LAND operation is unresolved.
Converge ==
    /\ me.pc = "converge"
    /\ Step([me EXCEPT !.pc = "finalize", !.durable = Unresolved = {}, !.converging = TRUE,
                       !.todo = {l \in Covered : Corroborated(l)} \ me.concluded])
    /\ UNCHANGED <<pr, cp, journal, job, merges, backend, env>>

-----------------------------------------------------------------------------
(* GitHub, its users and the clock. *)

Live(o) == job[o].st \in {"flying", "pending", "enqueued"}

SetJob(o, s, r) == job' = [job EXCEPT ![o] = [st |-> s, reply |-> r]]

Merge(o, S) == /\ pr' = [l \in Layers |-> IF l \in S THEN [pr[l] EXCEPT !.st = "MERGED"]
                                          ELSE pr[l]]
               /\ merges' = [merges EXCEPT ![o] = @ \cup S]

Pinned(o) == LET top == Highest(op[o].layers)
             IN  pr[top].st = "OPEN" /\ pr[top].head = op[o].heads[top]

\* The request reaches GitHub: it is taken up, found done already, or refused.
Process(o) ==
    /\ job[o].st = "flying"
    /\ \/ /\ Pinned(o) /\ ~ Singleton(o)
          /\ SetJob(o, "pending", "pending") /\ UNCHANGED <<pr, merges>>
       \/ Pinned(o) /\ Singleton(o) /\ SetJob(o, "merged", "merged") /\ Merge(o, op[o].layers)
       \/ /\ \A l \in op[o].layers : pr[l].st = "MERGED"
          /\ SetJob(o, "merged", "merged") /\ UNCHANGED <<pr, merges>>
       \/ SetJob(o, "refused", "refused") /\ UNCHANGED <<pr, merges>>
    /\ UNCHANGED <<cp, journal, backend, me, env>>

\* The request, or the queue that took it over, merges the lowest open layer.
JobMerge(o) ==
    LET open == {l \in op[o].layers : pr[l].st # "MERGED"}
    IN  /\ job[o].st \in {"pending", "enqueued"} /\ open # {} /\ Pinned(o)
        /\ pr[Lowest(open)].st = "OPEN"
        /\ Merge(o, {Lowest(open)})
        /\ UNCHANGED <<cp, journal, job, backend, me, env>>

JobEnd(o) ==
    /\ job[o].st = "pending"
    /\ \/ /\ \A l \in op[o].layers : pr[l].st = "MERGED"
          /\ SetJob(o, "merged", job[o].reply)
       \/ /\ \E l \in op[o].layers : pr[l].st # "MERGED"
          /\ \/ SetJob(o, "failed", job[o].reply)
             \/ SetJob(o, "enqueued", job[o].reply)
    /\ UNCHANGED <<pr, merges, cp, journal, backend, me, env>>

\* 24 hours pass.  No command stays in its submission or poll for that long.
Elapse ==
    /\ me.pc \notin {"submit", "reply", "accept", "poll"}
    /\ \E o \in Ops : op[o].st = "prepared" /\ (Live(o) \/ ~ op[o].aged)
    /\ job' = [o \in Ops |-> IF Live(o) THEN [job[o] EXCEPT !.st = "expired"] ELSE job[o]]
    /\ op' = [o \in Ops |-> IF op[o].st = "prepared" THEN [op[o] EXCEPT !.aged = TRUE]
                            ELSE op[o]]
    /\ UNCHANGED <<pr, merges, cp, nops, backend, me, env>>

\* GitHub retargets a pull request when the branch below it is deleted.
Retarget(l) == /\ l > 1 /\ pr[l - 1].st = "MERGED"
               /\ pr[l].st = "OPEN" /\ pr[l].base = "below"
               /\ pr' = [pr EXCEPT ![l].base = "main"]
               /\ UNCHANGED <<job, merges, cp, journal, backend, me, env>>

\* Somebody pushes, merges, retargets or closes a pull request.
Meddle(l) ==
    /\ edits < MaxEdits /\ edits' = edits + 1
    /\ pr[l].st = "OPEN"
    /\ \/ pr' = [pr EXCEPT ![l].head = edits + 1]
       \/ pr' = [pr EXCEPT ![l].st = "MERGED"]
       \/ pr' = [pr EXCEPT ![l].base = "odd"]
       \/ pr' = [pr EXCEPT ![l].st = "CLOSED"]
    /\ UNCHANGED <<job, merges, cp, journal, backend, me, faults>>

\* After a prefix has landed, sync --base cascades the other layers and moves
\* their checkpoints (module StackSync).
Restack ==
    LET rest == Layers \ Landed
    IN  /\ me.pc = "idle" /\ Unresolved = {} /\ rest # {} /\ Landed # {}
        /\ edits < MaxEdits /\ edits' = edits + 1
        /\ \A l \in rest : pr[l].st = "OPEN"
        /\ pr' = [l \in Layers |-> IF l \in rest THEN [pr[l] EXCEPT !.head = edits + 1]
                                  ELSE pr[l]]
        /\ cp' = [l \in Layers |-> IF l \in rest THEN edits + 1 ELSE cp[l]]
        /\ UNCHANGED <<job, merges, journal, backend, me, faults>>

\* The process dies, or a call fails and its error propagates.
Crash == /\ me.pc # "idle" /\ Fault /\ Quit
         /\ UNCHANGED <<pr, cp, journal, job, merges, backend, edits>>

Work == \/ Assess \/ Complete \/ Prepare \/ Submit \/ Reply \/ Accept \/ Poll
        \/ AbandonOp \/ CompleteOp \/ Finalized \/ Close \/ Report
        \/ Fold \/ Probe \/ Conclude \/ Reconclude \/ Converge
        \/ \E l \in Layers : Reobserve(l) \/ Read(l) \/ Finalize(l)

Next == \/ Work \/ Crash
        \/ \E c \in Commands : Begin(c)
        \/ \E o \in Ops : Process(o) \/ JobMerge(o) \/ JobEnd(o)
        \/ Elapse \/ Restack
        \/ \E l \in Layers : Retarget(l) \/ Meddle(l)

\* A running command runs on, requests are processed and time passes; an
\* operator who sees an unresolved operation tries each way to conclude it.
Fairness == /\ WF_vars(Work) /\ WF_vars(Elapse)
            /\ \A o \in Ops : WF_vars(Process(o))
            /\ \A c \in Commands \ {"land"} : SF_vars(Begin(c))

Spec == Init /\ [][Next]_vars /\ Fairness

-----------------------------------------------------------------------------
(* Properties. *)

PrStates  == {"OPEN", "MERGED", "CLOSED"}
PrType == [st : PrStates \cup {"unread", "error"}, head : Heads,
           base : {"main", "below", "odd"}]
Pcs == {"idle", "assess", "complete", "reobserve", "prepare", "submit", "reply", "accept",
        "poll", "verify", "disprove", "classify", "reclassify", "complete_op",
        "abandon_op", "conclude", "reconclude", "finalize", "close", "report",
        "fold", "probe", "reprobe", "converge"}
JobStates == {"none", "flying", "pending", "enqueued", "merged", "failed", "refused",
              "expired"}
Handles == JobStates \cup {"unreadable", "none-singleton", "none-async-aged",
                           "none-async-young"}

TypeOK ==
    /\ pr \in [Layers -> [st : PrStates, head : Heads, base : {"main", "below", "odd"}]]
    /\ cp \in [Layers -> Heads]
    /\ op \in [Ops -> [st : {"none", "prepared", "completed", "abandoned"},
                       layers : SUBSET Layers, heads : [Layers -> Heads],
                       accepted : BOOLEAN, aged : BOOLEAN, landed : SUBSET Layers]]
    /\ nops \in 0..MaxOps
    /\ job \in [Ops -> [st : JobStates, reply : {"none", "pending", "merged", "refused"}]]
    /\ merges \in [Ops -> SUBSET Layers]
    /\ plan \subseteq Layers /\ node \subseteq Layers
    /\ objective \in {"open", "closed"} /\ evidence \subseteq SUBSET Layers
    /\ me \in [pc : Pcs, cmd : Commands \cup {"none"}, op : 0..MaxOps, try : {1, 2},
               handle : Handles, todo : SUBSET Layers, seen : [Layers -> PrType],
               landed : SUBSET Layers, prefix : SUBSET Layers, durable : BOOLEAN,
               concluded : SUBSET Layers, converging : BOOLEAN, reported : BOOLEAN]
    /\ edits \in 0..MaxEdits /\ faults \in 0..MaxFaults

MergedAsApproved(o, l) == /\ pr[l].st = "MERGED" /\ pr[l].base # "odd"
                          /\ pr[l].head = op[o].heads[l]

\* What a completed LAND operation says is landed was merged at the head that was
\* approved and onto a base of the train, although only the top head is pinned
\* and people push, merge and retarget while the command runs; and the landed
\* layers are always a bottom prefix of the stack, also when an externally
\* merged prefix was accepted.
LandedIsPrefix == \A l \in Landed, k \in Layers : k < l => k \in Landed
LandedAsApproved ==
    /\ LandedIsPrefix
    /\ \A o \in Ops : op[o].st = "completed" =>
        \A l \in op[o].landed : MergedAsApproved(o, l)

\* A merge request whose operation was abandoned never merges anything, before or
\* after: neither a lost handle nor an exhausted poll lets an operator abandon a
\* request that is still alive.
AbandonedNeverMerges ==
    \A o \in Ops : op[o].st = "abandoned" => merges[o] = {}

\* Plans and nodes are finalized only for layers that a LAND operation verified.
FinalizedWasVerified ==
    \A l \in plan \cup node : \E o \in Ops : /\ l \in op[o].layers
                                           /\ op[o].st \in {"prepared", "completed"}
                                           /\ MergedAsApproved(o, l)

\* An objective is closed only when completed records cover all its layers, and
\* all evidence ever reported for it is whole: a close before the completion is
\* durable would report nothing and be final.
ClosedWithEvidence == /\ objective = "closed" => Covered = Layers
                      /\ \A e \in evidence : e = Layers

\* Without interference from outside every LAND operation is concluded in the
\* end, and a stack that is merged is closed and reported, whatever crashed.
Quiet     == Unresolved = {}
AllMerged == \A l \in Layers : pr[l].st = "MERGED"
Reported  == objective = "closed" /\ evidence # {}
Settles == [](edits = 0) => []<>Quiet /\ (AllMerged ~> Reported)
=============================================================================
