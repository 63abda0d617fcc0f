---------------------------- MODULE LinearStore ----------------------------
(***************************************************************************)
(* The objective store over Linear projects (backends/linear): an          *)
(* objective is a project with a metadata sentinel (header and manifest    *)
(* attachments), one issue per roadmap node, a milestone per phase and a   *)
(* blocking relation per dependency.  Every operation is a sequence of     *)
(* separate remote writes that a crash may cut; what repairs the rest is   *)
(* the convergent re-run of a deferred supersession and                    *)
(* `objective doctor --fix`.                                               *)
(*                                                                         *)
(* Project 1 is the objective and project 2 the one that supersedes it;    *)
(* node k of a roadmap depends on node k - 1 and is alone in phase k.      *)
(* Node 1 of the successor is the old node 2, carried over with its issue. *)
(* Commands run one at a time.                                             *)
(***************************************************************************)
EXTENDS Naturals, Sequences, FiniteSets, FiniteSetsExt

CONSTANTS MaxEdits,    \* bound: node operations, and changes made in Linear by hand
          MaxFaults    \* bound: crashes

VARIABLES proj,    \* proj[p]: sentinel header, manifest, milestones, state, superseded_by
          iss,     \* the issues: project, text, node attachment, workflow state
          rel,     \* blocking relations between issues
          carry,   \* the issue that node 1 of the successor carries, 0 before the replan
          policy,  \* how the objective is superseded: "defer" (stacked) or "replan"
          me, edits, faults

vars == <<proj, iss, rel, carry, policy, me, edits, faults>>

Absent   == {0}       \* no manifest attachment
NoProj   == [header |-> FALSE, manifest |-> Absent, phases |-> {}, st |-> "open", next |-> 0,
             mended |-> FALSE]
Roadmap  == 1..2
Idle     == [cmd |-> "none", pc |-> "idle", p |-> 0, k |-> 0, cur |-> 0, nodes |-> {}, todo |-> {}]

Carried(p, k)  == p = 2 /\ k = 1
Issues(p)      == {i \in DOMAIN iss : iss[i].p = p}
\* _find_node_issue: the issues whose attachment carries the node id.
Hits(p, k)     == {i \in Issues(p) : iss[i].node = k}
Observed(p)    == {iss[i].node : i \in {j \in Issues(p) : iss[j].node # 0}}
Edges(p)       == {k \in Observed(p) : \E e \in rel : e[1] \in Hits(p, k - 1) /\ e[2] \in Hits(p, k)}

Init == /\ proj = [p \in 1..2 |-> NoProj] /\ iss = <<>> /\ rel = {} /\ carry = 0
        /\ policy \in {"defer", "replan"} /\ me = Idle /\ edits = 0 /\ faults = 0

Stop    == me' = Idle
Go(pc)  == me' = [me EXCEPT !.pc = pc]
NextNode == me' = [me EXCEPT !.pc = IF me.k = 2 THEN "edges" ELSE "node", !.k = me.k + 1, !.cur = 0]

-----------------------------------------------------------------------------
(* Creating, and superseding with the close deferred or not.               *)

\* find_objective by run id sees the header attachment: creation returns what it
\* finds, a deferred supersession converges it.
Begin(c, p) ==
    /\ me = Idle
    /\ \/ c = "create" /\ p = 1 /\ UNCHANGED carry
       \/ /\ c = policy /\ p = 2 /\ proj[1].header /\ proj[1].st # "completed"
          /\ \/ carry # 0 /\ UNCHANGED carry
             \/ carry = 0 /\ carry' \in Hits(1, 2)
    /\ ~ (c # "defer" /\ proj[p].header)
    /\ me' = [Idle EXCEPT !.cmd = c, !.p = p, !.pc = IF proj[p].header THEN "manifest" ELSE "project"]
    /\ UNCHANGED <<proj, iss, rel, policy, edits, faults>>

\* create_project; a crash before the sentinel orphans the project, and nothing
\* finds it again.
Project == /\ me.pc = "project" /\ Go("header")
           /\ UNCHANGED <<proj, iss, rel, carry, policy, edits, faults>>

\* _create_metadata_sentinel: the issue with its header attachment ...
Header == /\ me.pc = "header" /\ Go("manifest")
          /\ proj' = [proj EXCEPT ![me.p].header = TRUE]
          /\ UNCHANGED <<iss, rel, carry, policy, edits, faults>>

\* ... and the manifest attachment; the convergent arm adds it when it is absent.
Manifest == /\ me.pc = "manifest" /\ me' = [me EXCEPT !.pc = "phases", !.k = 1]
            /\ proj' = [proj EXCEPT ![me.p].manifest = IF @ = Absent THEN Roadmap ELSE @]
            /\ UNCHANGED <<iss, rel, carry, policy, edits, faults>>

\* _resolve_phase_milestones: one milestone per phase, keyed by name.
Milestone == /\ me.pc = "phases"
             /\ proj' = [proj EXCEPT ![me.p].phases = @ \cup {me.k}]
             /\ me' = [me EXCEPT !.k = IF me.k = 2 THEN 1 ELSE 2,
                                 !.pc = IF me.k = 2 THEN "node" ELSE "phases"]
             /\ UNCHANGED <<iss, rel, carry, policy, edits, faults>>

\* _create_issue_raw: a new issue, without its node attachment.
Mint == /\ iss' = Append(iss, [p |-> me.p, text |-> me.k, node |-> 0, st |-> "open"])
        /\ me' = [me EXCEPT !.pc = "stamp", !.cur = Len(iss) + 1]

\* _recover_fresh_node_issue: the rows with the fingerprint of node k.
Interrupted(p, k) == {i \in Issues(p) : iss[i].text = k /\ iss[i].node = 0}

\* The issue of node k: a carried one is moved, a finished one kept, an
\* interrupted one recovered, and only then a fresh one created.
NodeIssue ==
    /\ me.pc = "node"
    /\ \/ /\ Carried(me.p, me.k)
          /\ iss' = [iss EXCEPT ![carry].p = 2]
          /\ me' = [me EXCEPT !.pc = "stamp", !.cur = carry]
       \/ /\ ~ Carried(me.p, me.k) /\ me.cmd = "defer" /\ Hits(me.p, me.k) # {}
          /\ NextNode /\ UNCHANGED iss
       \/ /\ ~ Carried(me.p, me.k) /\ me.cmd = "defer" /\ Hits(me.p, me.k) = {}
          /\ LET rows == Interrupted(me.p, me.k)
             IN  \/ (\E i, j \in rows : i # j) /\ Stop /\ UNCHANGED iss   \* ambiguous
                 \/ \E row \in rows : /\ rows = {row} /\ UNCHANGED iss
                                      /\ me' = [me EXCEPT !.pc = "stamp", !.cur = row]
                 \/ rows = {} /\ Mint
       \/ ~ Carried(me.p, me.k) /\ me.cmd # "defer" /\ Mint
    /\ UNCHANGED <<proj, rel, carry, policy, edits, faults>>

\* upsert_perk_attachment: the node attachment, last write of a node's issue.
Stamp ==
    /\ me.pc = "stamp"
    /\ iss' = [iss EXCEPT ![me.cur].node = me.k]
    /\ CASE me.cmd = "doctor" -> Go("repair")
         [] me.cmd = "add"    -> Go("edge")
         [] OTHER             -> NextNode
    /\ UNCHANGED <<proj, rel, carry, policy, edits, faults>>

\* The relation that makes node k - 1 block node k, between the issues found now.
Relate(p, k) == rel \cup {<<i, j>> : i \in Hits(p, k - 1), j \in Hits(p, k)}

\* _create_dependency_relations, or the missing ones.
Relations == /\ me.pc = "edges"
             /\ rel' = Relate(me.p, 2)
             /\ IF me.cmd = "replan" THEN Go("super") ELSE Stop
             /\ UNCHANGED <<proj, iss, carry, policy, edits, faults>>

-----------------------------------------------------------------------------
(* finalize_supersession, after the transfer was verified.                 *)

\* Mutant of Verified: the successor need only be found.
Findable == proj[2].header

\* The successor that a transfer verifies before it closes the old objective.
Verified == proj[2].header /\ Roadmap \subseteq Observed(2) /\ carry \in Hits(2, 1)

BeginFinalize == /\ me = Idle /\ policy = "defer" /\ Verified /\ proj[1].st # "completed"
                 /\ me' = [Idle EXCEPT !.cmd = "finalize", !.pc = "super", !.p = 2]
                 /\ UNCHANGED <<proj, iss, rel, carry, policy, edits, faults>>

Supersede == /\ me.pc = "super" /\ Go("cancel")
             /\ proj' = [proj EXCEPT ![1].next = 2]
             /\ UNCHANGED <<iss, rel, carry, policy, edits, faults>>

\* _cancel_dropped_open_node_issues, one issue at a time.
CancelDropped ==
    LET open == {i \in Issues(1) : iss[i].node # 0 /\ iss[i].st = "open"}
    IN  /\ me.pc = "cancel"
        /\ IF open = {} THEN Go("complete") /\ UNCHANGED iss
           ELSE iss' = [iss EXCEPT ![Min(open)].st = "canceled"] /\ UNCHANGED me
        /\ UNCHANGED <<proj, rel, carry, policy, edits, faults>>

CompleteOld == /\ me.pc = "complete" /\ Stop
               /\ proj' = [proj EXCEPT ![1].st = "completed"]
               /\ UNCHANGED <<iss, rel, carry, policy, edits, faults>>

-----------------------------------------------------------------------------
(* objective doctor --fix: detect_drift on a snapshot, then the repairs.   *)

\* resolve_active_objective redirects a superseded objective to its successor.
Doctor(p) ==
    /\ me = Idle /\ proj[p].header /\ proj[p].next = 0
    /\ me' = [Idle EXCEPT !.cmd = "doctor", !.p = p, !.nodes = Observed(p),
                 !.pc = IF proj[p].manifest = Absent THEN "backfill" ELSE "repair",
                 !.todo = (proj[p].manifest \ {0}) \ Observed(p)]
    /\ UNCHANGED <<proj, iss, rel, carry, policy, edits, faults>>

\* An absent manifest is filled from the nodes that exist now.
Backfill == /\ me.pc = "backfill" /\ Stop
            /\ proj' = [proj EXCEPT ![me.p].manifest = Observed(me.p)]
            /\ UNCHANGED <<iss, rel, carry, policy, edits, faults>>

\* The conditions that --fix repairs: pinned phases without a milestone, ...
DeletedPhases(p) == proj[p].manifest \ proj[p].phases
\* ... manifest nodes that had no issue in the snapshot and have none yet, ...
MissingNodes(p)  == me.todo \ Observed(p)
\* ... manifest edges between observed nodes, ...
MissingEdges(p)  == {k \in proj[p].manifest \cap me.nodes : k - 1 \in me.nodes /\ k \notin Edges(p)}
\* ... and the edges that touch a recreated node, in both directions.
RecreatedEdges(p) ==
    {k \in proj[p].manifest \ {1} : {k, k - 1} \cap me.todo # {} /\ k \notin Edges(p)}

\* repair_objective_drift: milestones, then node issues, then relations.
Repair ==
    LET p     == me.p
        lost  == DeletedPhases(p)
        left  == MissingNodes(p)
        edges == MissingEdges(p) \cup RecreatedEdges(p)
    IN  /\ me.pc = "repair"
        /\ \/ /\ lost # {}
              /\ proj' = [proj EXCEPT ![p].phases = @ \cup {Min(lost)}]
              /\ UNCHANGED <<iss, rel, me>>
           \/ /\ lost = {} /\ left # {}
              /\ iss' = Append(iss, [p |-> p, text |-> Min(left), node |-> 0, st |-> "open"])
              /\ me' = [me EXCEPT !.pc = "stamp", !.cur = Len(iss) + 1, !.k = Min(left)]
              /\ proj' = [proj EXCEPT ![p].mended = @ \/ (p = 2 /\ ~ Verified)]
              /\ UNCHANGED rel
           \/ /\ lost = {} /\ left = {} /\ edges # {}
              /\ LET k == Min(edges)
                 IN  IF {k, k - 1} \subseteq Observed(p) THEN rel' = Relate(p, k) /\ UNCHANGED me
                     ELSE Stop /\ UNCHANGED rel          \* an issue is gone: aborted
              /\ UNCHANGED <<proj, iss>>
           \/ /\ lost = {} /\ left = {} /\ edges = {} /\ Stop
              /\ UNCHANGED <<proj, iss, rel>>
        /\ UNCHANGED <<carry, policy, edits, faults>>

-----------------------------------------------------------------------------
(* Operations on one node.                                                 *)

\* A node operation or a change by hand.
Edit == edits < MaxEdits /\ edits' = edits + 1

\* add_objective_node: the next id of the live roadmap, its milestone and issue ...
AddNode(p) ==
    LET k == Max(Observed(p)) + 1
    IN  /\ me = Idle /\ proj[p].header /\ Observed(p) # {} /\ Edit
        /\ proj' = [proj EXCEPT ![p].phases = @ \cup {k}]
        /\ iss' = Append(iss, [p |-> p, text |-> k, node |-> 0, st |-> "open"])
        /\ me' = [Idle EXCEPT !.cmd = "add", !.p = p, !.k = k, !.cur = Len(iss) + 1, !.pc = "stamp"]
        /\ UNCHANGED <<rel, carry, policy, faults>>

\* ... its relation, and the manifest entry when there is a manifest.
AddEdge == /\ me.pc = "edge" /\ rel' = Relate(me.p, me.k) /\ Go("sync")
           /\ UNCHANGED <<proj, iss, carry, policy, edits, faults>>
AddSync == /\ me.pc = "sync" /\ Stop
           /\ proj' = [proj EXCEPT ![me.p].manifest = IF @ = Absent THEN @ ELSE @ \cup {me.k}]
           /\ UNCHANGED <<iss, rel, carry, policy, edits, faults>>

\* update_objective_node on the first hit: a node that starts moves the project to
\* started, whatever its state was; a landed one is done.
UpdateNode(p, k) == /\ me = Idle /\ Hits(p, k) # {} /\ Edit
                    /\ \/ /\ proj' = [proj EXCEPT ![p].st = "open"] /\ UNCHANGED iss
                       \/ /\ iss' = [iss EXCEPT ![Min(Hits(p, k))].st = "done"]
                          /\ UNCHANGED proj
                    /\ UNCHANGED <<rel, carry, policy, me, faults>>

\* close_objective and reopen_objective.
Retire(p) == /\ me = Idle /\ proj[p].header /\ Edit
             /\ proj' = [proj EXCEPT ![p].st = IF @ = "completed" THEN "open" ELSE "completed"]
             /\ UNCHANGED <<iss, rel, carry, policy, me, faults>>

\* Someone deletes an open issue, a milestone or a relation.
Meddle == /\ Edit
          /\ \/ /\ \E i \in DOMAIN iss : i # carry /\ iss' = [iss EXCEPT ![i].p = 0]
                /\ UNCHANGED <<proj, rel>>
             \/ /\ \E p \in 1..2, k \in Roadmap :
                     k \in proj[p].phases /\ proj' = [proj EXCEPT ![p].phases = @ \ {k}]
                /\ UNCHANGED <<iss, rel>>
             \/ (\E e \in rel : rel' = rel \ {e}) /\ UNCHANGED <<proj, iss>>
          /\ UNCHANGED <<carry, policy, me, faults>>

Crash == /\ me # Idle /\ faults < MaxFaults /\ faults' = faults + 1 /\ Stop
         /\ UNCHANGED <<proj, iss, rel, carry, policy, edits>>

Work == \/ Project \/ Header \/ Manifest \/ Milestone \/ NodeIssue \/ Stamp \/ Relations
        \/ Supersede \/ CancelDropped \/ CompleteOld \/ Backfill \/ Repair \/ AddEdge \/ AddSync
Next == \/ Work \/ BeginFinalize \/ Meddle \/ Crash
        \/ \E c \in {"create", "defer", "replan"}, p \in 1..2 : Begin(c, p)
        \/ \E p \in 1..2 : Doctor(p) \/ AddNode(p) \/ Retire(p)
                       \/ \E k \in Roadmap : UpdateNode(p, k)

Spec == Init /\ [][Next]_vars

-----------------------------------------------------------------------------
TypeOK == /\ \A p \in 1..2 : proj[p].manifest \subseteq 0..(2 + MaxEdits)
          /\ \A i \in DOMAIN iss : iss[i].p \in 0..2 /\ iss[i].node \in 0..(2 + MaxEdits)
          /\ rel \subseteq (DOMAIN iss) \X (DOMAIN iss) /\ carry \in 0..Len(iss)

\* A node id names one issue of its project, however often creation, convergence
\* and the doctor were cut and repeated -- unless the doctor recreated nodes of a
\* successor that its transfer had not finished.
NodeIdsUnique ==
    \A p \in 1..2 : ~ proj[p].mended =>
        \A i, j \in Issues(p) : iss[i].node # 0 /\ iss[i].node = iss[j].node => i = j

\* The issue a replan carries over, with its plan and its pull request, is never
\* canceled with the dropped ones.
CarriedSurvives == carry # 0 => iss[carry].st # "canceled"

\* What the manifest promises is there: every node and every dependency.
Whole == \A p \in 1..2 : proj[p].header /\ proj[p].next = 0 =>
            /\ (proj[p].manifest \ {0}) \subseteq Observed(p)
            /\ \A k \in proj[p].manifest : k > 1 /\ k - 1 \in proj[p].manifest => k \in Edges(p)
=============================================================================
