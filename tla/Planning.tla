------------------------------ MODULE Planning ------------------------------
(***************************************************************************)
(* Planning and landing the nodes of an incremental objective from several *)
(* sessions at once, on the GitHub store: `objective plan` selects and     *)
(* claims a node, `plan from` takes over a human's issue, `plan save`      *)
(* writes the plan issue and links it, and a landing closes the plan       *)
(* issue, marks its node done and closes a complete objective.             *)
(*                                                                         *)
(* The roadmap lives in the body of one issue, and every node update reads *)
(* the whole body and writes the whole body back.  A plan body is a        *)
(* comment that holds the version of the save; comment 0 is one somebody   *)
(* else wrote.  Issue 1 is the human's.                                    *)
(***************************************************************************)
EXTENDS Naturals, Sequences, FiniteSets, FiniteSetsExt

CONSTANTS Nodes,      \* node ids, in position order
          Deps,       \* Deps[n]: the resolved dependencies
          Runs,       \* run ids, one per session
          Page,       \* comments on the first page of the REST list
          MaxSaves,   \* bound: saves of all runs
          MaxEdits    \* bound: resets, foreign comments and failures

VARIABLES road,     \* road[n]: status and plan backlink of node n
          closed,   \* the objective is closed
          issues,   \* the plan issues: run id of the header, open, comments, last save
          me,       \* me[r]: what the session of run r is doing
          earned,   \* nodes that have been terminal
          nver, edits

vars == <<road, closed, issues, me, earned, nver, edits>>

None     == 0
Terminal == {"done", "skipped"}
Idle     == [pc |-> "idle", node |-> 0, adopt |-> FALSE, cur |-> 0, snap |-> <<>>, seen |-> <<>>,
             ver |-> 0]

-----------------------------------------------------------------------------
(* DependencyGraph (objective/_models.py).                                 *)

Unblocked(b)  == {n \in Nodes : \A d \in Deps[n] : b[d].st \in Terminal}
Pending(b)    == {n \in Unblocked(b) : b[n].st = "pending"}
Plannable(b)  == {n \in Unblocked(b) : \/ b[n].st = "pending"
                                       \/ b[n].st = "planning" /\ b[n].pr = None}
Resumable(b)  == Plannable(b) \ Pending(b)
\* Pending first, claims as fallback.
NextPlannable(b) == IF Pending(b) # {} THEN {Min(Pending(b))}
                    ELSE IF Resumable(b) # {} THEN {Min(Resumable(b))} ELSE {}

-----------------------------------------------------------------------------
\* The human's issue has no comment yet or a full page of them.
Init == /\ road = [n \in Nodes |-> [st |-> "pending", pr |-> None]]
        /\ closed = FALSE
        /\ \E k \in {0, Page} :
             issues = <<[run |-> 0, open |-> TRUE, notes |-> [i \in 1..k |-> 0], last |-> 0]>>
        /\ me = [r \in Runs |-> Idle] /\ earned = {} /\ nver = 0 /\ edits = 0

Goto(r, pc) == me' = [me EXCEPT ![r].pc = pc]
Edit        == edits < MaxEdits /\ edits' = edits + 1

\* `objective plan`: look the objective up and select a node, the next one or the
\* one of --node; the handoff binds the run to it.
Select(r) ==
    /\ me[r] = Idle
    /\ \E n \in NextPlannable(road) \cup Plannable(road) :
         me' = [me EXCEPT ![r].pc = "mark", ![r].node = n]
    /\ UNCHANGED <<road, closed, issues, earned, nver, edits>>

\* `plan from`: the handoff names the human's issue.
From(r) == /\ me[r] = Idle
           /\ me' = [me EXCEPT ![r].adopt = TRUE, ![r].cur = 1]
           /\ UNCHANGED <<road, closed, issues, earned, nver, edits>>

\* update_objective_node, first half: the body is read.
ReadBody(r) ==
    /\ me[r].pc \in {"mark", "link", "land"} /\ me[r].snap = <<>>
    /\ me' = [me EXCEPT ![r].snap = road]
    /\ UNCHANGED <<road, closed, issues, earned, nver, edits>>

\* update_objective_node, second half: the whole body is written back.  A claim and
\* a landing set the status only, a link sets the status and the backlink together.
PatchBody(r) ==
    LET n == me[r].node
        p == me[r].pc
    IN  /\ p # "reset" /\ me[r].snap # <<>>
        /\ road' = [me[r].snap EXCEPT
                      ![n] = CASE p = "mark" -> [@ EXCEPT !.st = "planning"]
                               [] p = "link" -> [st |-> "in_progress", pr |-> me[r].cur]
                               [] p = "land" -> [@ EXCEPT !.st = "done"]]
        /\ earned' = IF p = "land" THEN earned \cup {n} ELSE earned
        /\ me' = [me EXCEPT ![r].snap = <<>>, ![r].pc = IF p = "land" THEN "complete" ELSE "idle"]
        /\ UNCHANGED <<closed, issues, nver, edits>>

\* `plan save`: recover the node or the adopted issue from the handoff.
Save(r) ==
    /\ me[r].pc = "idle" /\ (me[r].node # 0 \/ me[r].adopt) /\ nver < MaxSaves
    /\ nver' = nver + 1
    /\ me' = [me EXCEPT ![r].pc = IF me[r].adopt THEN "adopt" ELSE "find", ![r].ver = nver + 1]
    /\ UNCHANGED <<road, closed, issues, earned, edits>>

\* adopt_issue_as_plan up to the header: the issue gets the label and the run id.
Adopt(r) ==
    /\ me[r].pc = "adopt"
    /\ issues' = [issues EXCEPT ![1].run = r]
    /\ Goto(r, "rewrite")
    /\ UNCHANGED <<road, closed, earned, nver, edits>>

\* Mutant of Found: the finder sees the first page of the label only.
FoundOnPage(r) == {i \in DOMAIN issues : issues[i].open /\ issues[i].run = r /\ i <= Page}

\* find_plan_issue: the open issues of the label that carry the run id, on any page.
Found(r) == {i \in DOMAIN issues : issues[i].open /\ issues[i].run = r}

\* create_plan_issue; the answer to the POST may be lost.
Create(r) ==
    /\ me[r].pc = "find"
    /\ IF Found(r) # {}
       THEN /\ me' = [me EXCEPT ![r].pc = "rewrite", ![r].cur = Min(Found(r))]
            /\ UNCHANGED <<issues, edits>>
       ELSE /\ issues' = Append(issues, [run |-> r, open |-> TRUE, notes |-> <<>>, last |-> 0])
            /\ \/ /\ me' = [me EXCEPT ![r].pc = "post", ![r].cur = Len(issues) + 1]
                  /\ UNCHANGED edits
               \/ Edit /\ Goto(r, "idle")
    /\ UNCHANGED <<road, closed, earned, nver>>

\* A plan version is put at index k of the comments of the session's issue.
Put(r, k) ==
    /\ issues' = [issues EXCEPT ![me[r].cur].last = me[r].ver,
                     ![me[r].cur].notes = IF k > Len(@) THEN Append(@, me[r].ver)
                                          ELSE [@ EXCEPT ![k] = me[r].ver]]
    /\ Goto(r, IF me[r].adopt THEN "idle" ELSE "link")
    /\ UNCHANGED <<road, closed, earned, nver, edits>>

\* add_issue_comment with the plan body of a fresh issue.
PostBody(r) == me[r].pc = "post" /\ Put(r, Len(issues[me[r].cur].notes) + 1)

Bodies(i) == {k \in DOMAIN issues[i].notes : issues[i].notes[k] > 0}

\* update_plan_issue, and the last step of an adoption: the plan-body comment is
\* sought on one page of the list; it is patched, or a fresh one posted.
Rewrite(r) ==
    LET found == {k \in Bodies(me[r].cur) : k <= Page}
    IN  /\ me[r].pc = "rewrite"
        /\ Put(r, IF found # {} THEN Min(found) ELSE Len(issues[me[r].cur].notes) + 1)

\* The link is non-fatal: a store failure leaves the plan unlinked.
LinkFails(r) == /\ me[r].pc = "link" /\ me[r].snap = <<>> /\ Edit /\ Goto(r, "idle")
                /\ UNCHANGED <<road, closed, issues, earned, nver>>

\* The plan's pull request merges into the default branch, which closes the plan
\* issue; finalize_landed_plan then runs, again on a re-land.
Land(r) ==
    /\ me[r].pc = "idle" /\ me[r].cur # 0 /\ Bodies(me[r].cur) # {}
    /\ issues' = [issues EXCEPT ![me[r].cur].open = FALSE]
    /\ Goto(r, "finalize")
    /\ UNCHANGED <<road, closed, earned, nver, edits>>

\* _reconcile_objective_on_land reads the objective and picks the linked node.
Reconcile(r) ==
    LET linked == {n \in Nodes : road[n].pr = me[r].cur}
    IN  /\ me[r].pc = "finalize"
        /\ IF me[r].adopt \/ linked = {} THEN Goto(r, "idle")
           ELSE \E n \in linked :
                  me' = [me EXCEPT ![r].node = n, ![r].seen = road,
                           ![r].pc = IF road[n].st \in Terminal THEN "complete" ELSE "land"]
        /\ UNCHANGED <<road, closed, issues, earned, nver, edits>>

\* Mutant of Completes: a node in flight counts as settled.
CompletesEarly(r) ==
    \A n \in Nodes : n = me[r].node \/ me[r].seen[n].st \in Terminal \cup {"in_progress"}

\* Completeness over the list that was fetched before the marks.
Completes(r) == \A n \in Nodes : n = me[r].node \/ me[r].seen[n].st \in Terminal

Close(r) ==
    /\ me[r].pc = "complete"
    /\ closed' = (closed \/ Completes(r))
    /\ me' = [me EXCEPT ![r].pc = "idle", ![r].seen = <<>>]
    /\ UNCHANGED <<road, issues, earned, nver, edits>>

\* `objective node`, run between the steps of a session: the same two halves ...
Node(r) == /\ me[r].pc = "idle" /\ Edit
           /\ me' = [me EXCEPT ![r].pc = "reset", ![r].snap = road]
           /\ UNCHANGED <<road, closed, issues, earned, nver>>

\* ... that reset a node and clear its plan, or skip it.
Reset(r, n) == /\ me[r].pc = "reset" /\ me[r].snap # <<>>
               /\ \/ /\ road' = [me[r].snap EXCEPT ![n] = [st |-> "pending", pr |-> None]]
                     /\ UNCHANGED earned
                  \/ /\ road' = [me[r].snap EXCEPT ![n].st = "skipped"]
                     /\ earned' = earned \cup {n}
               /\ me' = [me EXCEPT ![r].snap = <<>>, ![r].pc = "idle"]
               /\ UNCHANGED <<closed, issues, nver, edits>>

\* A session dies; its run id, handoff and plan reference stay on disk.
Crash(r) == /\ me[r].pc # "idle" /\ Edit
            /\ me' = [me EXCEPT ![r].pc = "idle", ![r].snap = <<>>, ![r].seen = <<>>]
            /\ UNCHANGED <<road, closed, issues, earned, nver>>

Next == \/ \E r \in Runs : \/ Select(r) \/ From(r) \/ ReadBody(r) \/ PatchBody(r) \/ Save(r)
                           \/ Adopt(r) \/ Create(r) \/ PostBody(r) \/ Rewrite(r) \/ LinkFails(r)
                           \/ Land(r) \/ Reconcile(r) \/ Close(r) \/ Node(r) \/ Crash(r)
                           \/ \E n \in Nodes : Reset(r, n)

Spec == Init /\ [][Next]_vars

-----------------------------------------------------------------------------
TypeOK == /\ \A n \in Nodes : /\ road[n].st \in {"pending", "planning", "in_progress"} \cup Terminal
                              /\ road[n].pr \in DOMAIN issues \cup {None}
          /\ \A r \in Runs : me[r].node \in Nodes \cup {0} /\ me[r].cur \in 0..Len(issues)

\* A run never has two open plan issues, whatever answer was lost and however
\* often it is saved.
OnePlanPerRun ==
    \A i, j \in DOMAIN issues :
        issues[i].open /\ issues[j].open /\ issues[i].run = issues[j].run => i = j

\* The objective is closed only when every node has been done or skipped, also
\* when completeness was computed on a list that is stale by then.
ClosedWasEarned == closed => earned = Nodes

\* github/plans.py, adopt_issue_as_plan: the plan-body comment is upserted,
\* "Idempotent on re-save"; get_plan_body reads the first plan body of the issue, so
\* that one is the last save.
ReadPlanIsSaved ==
    \A i \in DOMAIN issues : Bodies(i) # {} => issues[i].notes[Min(Bodies(i))] = issues[i].last

\* save_cmd.py, _plan_save_impl: "The anti-duplicate guarantee is preserved -- never a
\* second issue per run_id."
NeverASecondIssue == \A i, j \in DOMAIN issues : issues[i].run = issues[j].run => i = j
=============================================================================
