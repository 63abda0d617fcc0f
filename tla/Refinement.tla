------------------------------ MODULE Refinement ------------------------------
(***************************************************************************)
(* Node refinements: an advisory document kept as one marked comment on    *)
(* the carrier of a node (on GitHub the objective issue, which all nodes   *)
(* share).  A session prepares a context file from what it reads, an       *)
(* author writes a draft against it, and a save goes through the guarded   *)
(* upsert of marked comments, which has no compare-and-swap behind it:     *)
(* scan, one write that may fail, land late or land although it failed,    *)
(* scan again.  People comment, edit, copy and delete on the same issue.   *)
(***************************************************************************)
EXTENDS Integers, Sequences

CONSTANTS Sessions,          \* refine sessions, positive integers
          Nodes,             \* nodes of the objective, positive integers
          MaxContexts, MaxComments, MaxEvents   \* bounds; events are edits and faults

VARIABLES node,              \* source version of each node, whether it may be refined, its carriers
          comments,          \* comments of the carrier, oldest first
          late,              \* writes that outlived their caller
          context, draft,    \* the two files of each session
          work,              \* what each session is doing
          told,              \* ghost: nodes a save was told to be ambiguous, or could not read back
          standing,          \* ghost: nodes with a save reported and no comment edited since
          surprised,         \* ghost: a write landed after its caller was told it had not
          used               \* contexts, edits and faults so far

vars == <<node, comments, late, context, draft, work, told, standing, surprised, used>>
files == <<context, draft>>

(* A comment: the node whose marker its first line is, a defect, and the document.  "quoted"
   carries the marker elsewhere, "repeated" also elsewhere, "damaged" has an envelope that does
   not decode, "stray" a marker of the family with a broken key. *)
Defects == {"none", "quoted", "repeated", "damaged", "stray", "gone"}
NoDoc == [node |-> 0, src |-> 0, by |-> 0, no |-> 0]
NoComment == [id |-> 0, doc |-> NoDoc]
NoContext == [no |-> 0, node |-> 0, src |-> 0, expected |-> NoComment]
Idle == [at |-> "idle", no |-> 0, doc |-> NoDoc, expected |-> NoComment, seen |-> NoComment,
         raised |-> FALSE, snap |-> <<>>]

Init ==
  /\ node = [n \in Nodes |-> [src |-> 1, open |-> TRUE, carriers |-> 1]]
  /\ comments = <<>> /\ late = {}
  /\ context = [s \in Sessions |-> NoContext]
  /\ draft = [s \in Sessions |-> NoContext]
  /\ work = [s \in Sessions |-> Idle] /\ told = {} /\ standing = {} /\ surprised = FALSE
  /\ used = [contexts |-> 0, events |-> 0]

----------------------------------------------------------------------------
(* scan_marked_comments: the first line alone decides who owns the marker *)
Of(cs, n) == {i \in 1..Len(cs) : cs[i].doc.node = n}
Owned(cs, n) == {i \in Of(cs, n) : cs[i].defect \in {"none", "repeated", "damaged"}}
Malformed(cs, n) == {i \in Of(cs, n) : cs[i].defect \in {"quoted", "repeated"}}

(* _refuse_unowned: duplicates before defects *)
Several(S) == \E i, j \in S : i # j
Unowned(cs, n) == Several(Owned(cs, n)) \/ Malformed(cs, n) # {}
Refusal(cs, n) == IF Several(Owned(cs, n)) THEN "ambiguous" ELSE "malformed"

Entry(cs, i) == [id |-> i, doc |-> cs[i].doc, whole |-> cs[i].defect = "none"]
Observed(cs, n) ==
  IF Owned(cs, n) = {} THEN [id |-> 0, doc |-> NoDoc, whole |-> TRUE]
  ELSE Entry(cs, CHOOSE i \in Owned(cs, n) : TRUE)

(* find_target_refinement, parse_refinement_comment: a broken marker anywhere on the carrier
   makes it unreadable for every node *)
Strays(cs) == {i \in 1..Len(cs) : cs[i].defect = "stray"}
Decodes(cs, n) == \A i \in Owned(cs, n) : cs[i].defect = "none"
Readable(cs, n) == ~Unowned(cs, n) /\ Strays(cs) = {} /\ Decodes(cs, n)
Found(cs, n) == [id |-> Observed(cs, n).id, doc |-> Observed(cs, n).doc]

----------------------------------------------------------------------------
Event == used.events < MaxEvents /\ used' = [used EXCEPT !.events = @ + 1]
Go(s, w) == work' = [work EXCEPT ![s] = w]
To(s, at) == Go(s, [work[s] EXCEPT !.at = at])
Remote == UNCHANGED <<node, comments, late>>
End(s, how) ==
  /\ Go(s, Idle)
  /\ told' = IF how \in {"ambiguous", "unverified"} THEN told \cup {work[s].doc.node} ELSE told
  /\ standing' = IF how = "saved" THEN standing \cup {work[s].doc.node} ELSE standing
Proceed == UNCHANGED <<told, standing>>
Ghosts == UNCHANGED <<told, standing, surprised>>

(* prepare_refinement_context: the targets, then the comments, then the file; an explicit node
   may be refined again, else the first eligible one without a record *)
Eligible(n) == n.open
(* One node on two issues, or twice in the roadmap, makes the whole objective unreadable *)
OneCarrier(n) == node[n].carriers = 1
TargetsReadable == \A n \in Nodes : OneCarrier(n)
Snapshot(s) ==
  /\ work[s].at = "idle" /\ used.contexts < MaxContexts
  /\ used' = [used EXCEPT !.contexts = @ + 1]
  /\ TargetsReadable /\ Go(s, [Idle EXCEPT !.at = "select", !.snap = node])
  /\ Remote /\ UNCHANGED files /\ Ghosts

FirstUnrefined(snap, cs, n) ==
  /\ Found(cs, n).id = 0
  /\ \A m \in Nodes : m < n /\ Eligible(snap[m]) => Readable(cs, m) /\ Found(cs, m).id # 0
Selectable(snap, cs, n, explicit) ==
  Eligible(snap[n]) /\ Readable(cs, n) /\ (explicit \/ FirstUnrefined(snap, cs, n))

Prepare(s) ==
  /\ work[s].at = "select" /\ Go(s, Idle)
  /\ \/ \E n \in Nodes, explicit \in BOOLEAN :
          /\ Selectable(work[s].snap, comments, n, explicit)
          /\ context' = [context EXCEPT ![s] =
               [no |-> @.no + 1, node |-> n, src |-> work[s].snap[n].src,
                expected |-> Found(comments, n)]]
     \/ (\E n \in Nodes : ~Selectable(work[s].snap, comments, n, TRUE)) /\ UNCHANGED context
  /\ UNCHANGED draft /\ Remote /\ Ghosts /\ UNCHANGED used

(* The author writes against the context file of that moment *)
HasContext(s) == context[s].no # 0
WriteDraft(s) ==
  /\ work[s].at = "idle" /\ HasContext(s) /\ draft[s] # context[s]
  /\ draft' = [draft EXCEPT ![s] = context[s]]
  /\ UNCHANGED <<context, work, used>> /\ Remote /\ Ghosts

(* save_refinement_draft, compose_save_request *)
AnyDraft(s) == TRUE
BoundDraft(s) == draft[s].no = context[s].no
Save(s) ==
  /\ work[s].at = "idle" /\ draft[s].no # 0 /\ BoundDraft(s)
  /\ Go(s, [Idle EXCEPT !.at = "target", !.expected = context[s].expected, !.no = draft[s].no,
                        !.doc = [node |-> context[s].node, src |-> context[s].src,
                                 by |-> s, no |-> draft[s].no]])
  /\ Remote /\ UNCHANGED files /\ Ghosts /\ UNCHANGED used

(* save_node_refinement: a fresh snapshot, then the records on the carrier *)
Fenced(d) == TargetsReadable /\ Eligible(node[d.node]) /\ node[d.node].src = d.src
Target(s) ==
  /\ work[s].at = "target"
  /\ IF Fenced(work[s].doc) THEN To(s, "discover") /\ Proceed ELSE End(s, "refused")
  /\ Remote /\ UNCHANGED <<files, surprised, used>>
Discover(s) ==
  /\ work[s].at = "discover"
  /\ IF Readable(comments, work[s].doc.node) THEN To(s, "scan") /\ Proceed
     ELSE End(s, Refusal(comments, work[s].doc.node))
  /\ Remote /\ UNCHANGED <<files, surprised, used>>

(* guarded_upsert_marked_comment up to the write *)
Fresh(s, o) == o.id = work[s].expected.id /\ o.doc = work[s].expected.doc /\ o.whole

Scan(s) ==
  /\ work[s].at = "scan"
  /\ LET n == work[s].doc.node
         o == Observed(comments, n) IN
     \/ Unowned(comments, n) /\ End(s, Refusal(comments, n)) /\ UNCHANGED used
     \/ /\ ~Unowned(comments, n) /\ o.whole /\ o.doc = work[s].doc
        /\ End(s, "saved") /\ UNCHANGED used
     \/ /\ ~Unowned(comments, n) /\ o.doc # work[s].doc /\ UNCHANGED used
        /\ IF Fresh(s, o)
           THEN /\ Go(s, [work[s] EXCEPT !.at = "write", !.seen = [id |-> o.id, doc |-> o.doc]])
                /\ Proceed
           ELSE End(s, "stale")
     \/ Event /\ End(s, "unread")
  /\ Remote /\ UNCHANGED <<files, surprised>>

(* One create or update; what it replaces is whatever is there when it lands *)
Body(d) == [defect |-> "none", doc |-> d]
Lands(r) ==
  IF r.id = 0 THEN Len(comments) < MaxComments /\ comments' = Append(comments, Body(r.doc))
  ELSE comments[r.id].defect # "gone" /\ comments' = [comments EXCEPT ![r.id] = Body(r.doc)]
Request(s) == [id |-> work[s].seen.id, doc |-> work[s].doc, seen |-> work[s].seen.doc, by |-> s]
Write(s) ==
  /\ work[s].at = "write"
  /\ \/ Lands(Request(s)) /\ To(s, "verify") /\ UNCHANGED <<late, used>>
     \/ /\ Lands(Request(s)) /\ Event /\ UNCHANGED late
        /\ Go(s, [work[s] EXCEPT !.at = "verify", !.raised = TRUE])
     \/ /\ Event /\ Go(s, [work[s] EXCEPT !.at = "verify", !.raised = TRUE])
        /\ late' \in {late, late \cup {Request(s)}} /\ UNCHANGED comments
     \/ /\ work[s].seen.id # 0 /\ comments[work[s].seen.id].defect = "gone"
        /\ Go(s, [work[s] EXCEPT !.at = "verify", !.raised = TRUE])
        /\ UNCHANGED <<late, comments, used>>
  /\ UNCHANGED <<node, files>> /\ Ghosts

(* The read-back decides the outcome, not what the write returned *)
Verdict(s, o) ==
  LET w == work[s]
      unchanged == o.id = w.seen.id /\ o.doc = w.seen.doc /\ o.whole IN
  IF o.doc = w.doc /\ o.whole THEN "saved"
  ELSE IF w.raised /\ unchanged THEN "backend"
  ELSE IF o.id # 0 /\ ~unchanged THEN "stale" ELSE "unverified"
RecheckFirst(s, n) == Verdict(s, Observed(comments, n))
Recheck(s, n) == IF Unowned(comments, n) THEN Refusal(comments, n)
                 ELSE Verdict(s, Observed(comments, n))
Verify(s) ==
  /\ work[s].at = "verify"
  /\ \/ End(s, Recheck(s, work[s].doc.node)) /\ UNCHANGED used
     \/ Event /\ End(s, "unverified")
  /\ Remote /\ UNCHANGED <<files, surprised>>

Awaited(r) == work[r.by].at = "verify" /\ work[r.by].doc = r.doc
LandsLate ==
  \E r \in late :
    /\ late' = late \ {r}
    /\ Lands(r) \/ UNCHANGED comments
    /\ surprised' = (surprised \/ (comments' # comments /\ ~Awaited(r)))
    /\ UNCHANGED <<node, files, work, told, standing, used>>

----------------------------------------------------------------------------
(* People and other commands: the node is edited or planned, comments are damaged, quoted,
   copied, deleted *)
EditNode ==
  /\ Event /\ UNCHANGED <<comments, late, files, work>> /\ Ghosts
  /\ \E n \in Nodes : node' \in {[node EXCEPT ![n].src = @ + 1], [node EXCEPT ![n].open = FALSE],
                                [node EXCEPT ![n].carriers = 2]}
EditComment ==
  /\ Event /\ standing' = {} /\ UNCHANGED <<node, late, files, work, told, surprised>>
  /\ \E i \in 1..Len(comments) :
       \/ /\ comments[i].defect = "none"
          /\ \E d \in {"repeated", "damaged", "stray", "gone"} :
               comments' = [comments EXCEPT ![i] =
                 [defect |-> d, doc |-> IF d \in {"stray", "gone"} THEN NoDoc ELSE @.doc]]
       \/ /\ comments[i].defect \in {"none", "damaged"} /\ Len(comments) < MaxComments
          /\ \E d \in {"quoted", "damaged"} : \* a copy is no longer what a session wrote
               comments' = Append(comments, [defect |-> d, doc |-> comments[i].doc])

Step(s) ==
  \/ Snapshot(s) \/ Prepare(s) \/ WriteDraft(s) \/ Save(s) \/ Target(s) \/ Discover(s)
  \/ Scan(s) \/ Write(s) \/ Verify(s)
Next == EditNode \/ EditComment \/ LandsLate \/ \E s \in Sessions : Step(s)
Spec == Init /\ [][Next]_vars

(* assemble_node_context: what a planning session is told about the refinement *)
Delivered(n) ==
  IF ~Readable(comments, n) THEN "unavailable"
  ELSE IF Found(comments, n).id = 0 THEN "absent" ELSE "present"

----------------------------------------------------------------------------
TypeOK ==
  /\ \A i \in 1..Len(comments) : comments[i].defect \in Defects
  /\ \A s \in Sessions : work[s].doc.node \in Nodes \cup {0}

(* A save replaces only the record its author had in front of them, or one that was written
   after the save's own scan: a context prepared anew does not license an older draft
   (authoring.py, compose_save_request; issue_backend.py, guarded_upsert_marked_comment).
   The draft remembers its context. *)
Wrote(i) == comments'[i].defect = "none" /\ comments'[i].doc # comments[i].doc
AuthorSawIt ==
  \A s \in Sessions : \A i \in 1..Len(comments) :
    work[s].at = "write" /\ Wrote(i) /\ comments'[i].doc = work[s].doc =>
      comments[i].doc = draft[s].expected.doc \/ comments[i].doc # work[s].seen.doc

(* Two records of one node that sessions wrote are never left without a session that was told:
   whoever wrote second finds both (issue_backend.py, _refuse_unowned after the write), unless
   its read-back failed or a write landed that was reported as not landed. *)
Twice(n) == Several({i \in Of(comments, n) : comments[i].defect = "none"})
AtRest == late = {} /\ \A s \in Sessions : work[s].at = "idle"
AmbiguityIsTold ==
  AtRest /\ ~surprised =>
    \A n \in Nodes : Twice(n) => n \in told

(* What was reported as saved reaches the planning session, unless a second record or a broken
   marker made the carrier unreadable after the save looked (codec.py, find_target_refinement;
   node_context.py, assemble_node_context). *)
SavedIsDelivered ==
  \A n \in standing :
    Delivered(n) = "present" \/ Strays(comments) # {} \/ \E m \in Nodes : Twice(m)

RefinementHolds == AmbiguityIsTold /\ SavedIsDelivered
=============================================================================
