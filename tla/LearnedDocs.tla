------------------------------ MODULE LearnedDocs ------------------------------
(***************************************************************************)
(* The learned docs of a repository and what is generated from them: a     *)
(* routing block in the system prompt of every session and a catalog, each *)
(* between two markers in a file that people edit too.  docs-sync reads    *)
(* the cluster registry and the front matter and rewrites the two files    *)
(* one after the other; docs-check compares and lints.  Nothing is locked. *)
(***************************************************************************)
EXTENDS Integers, Sequences, FiniteSets, SequencesExt

CONSTANTS Docs,              \* documents, positive integers in the order of their paths
          Forms,             \* the states of a document that the bounds admit
          Registries,        \* the states of the registry that the bounds admit
          Syncs,             \* calls of docs-sync
          Budget,            \* the size of a routing block that docs-check admits
          MaxEdits, MaxLen   \* bounds: edits by people, pieces of a file

VARIABLES form,              \* the documents on disk
          registry,          \* docs/learned/clusters.yaml
          file,              \* the two generated files, as sequences of pieces
          call,              \* what each call of docs-sync has read and written
          settled,           \* ghost: a call read and wrote with nobody else at work, and no edit since
          edits

vars == <<form, registry, file, call, settled, edits>>

Files == {"append", "index"}
Absent == "absent"
Broken == "broken"

----------------------------------------------------------------------------
(* The registry: absent, unusable, or the declared clusters in order *)
Ids(r) == {r.of[i].id : i \in 1..Len(r.of)}
Loaded(r) ==
  IF r.is # "there" THEN r
  ELSE IF r.of = <<>> \/ Cardinality(Ids(r)) # Len(r.of) \/ \E i \in 1..Len(r.of) : r.of[i].rollup = "none"
       THEN [is |-> Broken, of |-> <<>>] ELSE r

(* read_learned_docs, _learned_frontmatter: what does not parse reads as nothing *)
There == {d \in Docs : form[d].there}
Parsed(d) == form[d].front
Meta(d) == IF Parsed(d) THEN [cue |-> form[d].cue, cluster |-> form[d].cluster]
            ELSE [cue |-> "none", cluster |-> "none"]
Read == [d \in There |-> Meta(d)]

(* generate_routing_block: without a registry a line for each document; with one a line for each
   cluster, then for each document that names no declared cluster.  "open" marks a text that ends
   in a newline: the roll-up of a last cluster without members keeps its own. *)
Line(c, ds, cue) == [cluster |-> c, docs |-> ds, cue |-> cue]
DocLines(docs, ds) == [i \in 1..Cardinality(ds) |->
  LET d == SetToSortSeq(ds, <)[i] IN Line("none", {d}, docs[d].cue)]
Undeclared(docs, r) == {d \in DOMAIN docs : docs[d].cluster = "none"}
Loose(docs, r) == {d \in DOMAIN docs : docs[d].cluster \notin Ids(r)}
Routing(docs, r) ==
  LET members(i) == {d \in DOMAIN docs : docs[d].cluster = r.of[i].id}
      clustered == [i \in 1..Len(r.of) |-> Line(r.of[i].id, members(i), r.of[i].rollup)]
      n == Len(r.of)
  IN [lines |-> clustered \o DocLines(docs, Loose(docs, r)),
      open |-> n > 0 /\ Loose(docs, r) = {} /\ members(n) = {} /\ r.of[n].rollup = "newline"]

(* generate_catalog: a row for each document, with its cluster only if there is a registry *)
Catalog(docs, r) ==
  [lines |-> [i \in 1..Cardinality(DOMAIN docs) |->
     LET d == SetToSortSeq(DOMAIN docs, <)[i]
     IN Line(IF r.is = "there" THEN docs[d].cluster ELSE "none", {d}, docs[d].cue)], open |-> FALSE]
Region(f, docs, r) == IF f = "append" THEN Routing(docs, r) ELSE Catalog(docs, r)

----------------------------------------------------------------------------
(* A generated file: pieces of text that people wrote, the two markers, generated regions *)
NoRegion == [lines |-> <<>>, open |-> FALSE]
Text(t) == [is |-> t, of |-> NoRegion]
Begin == Text("begin")
End == Text("end")
User == Text("user")
Preamble == Text("preamble")
Generated(region) == [is |-> "region", of |-> region]
Has(s, p) == \E i \in 1..Len(s) : s[i] = p
First(s, p) == CHOOSE i \in 1..Len(s) : s[i] = p /\ \A j \in 1..(i - 1) : s[j] # p
Before(s, p) == SubSeq(s, 1, First(s, p) - 1)
After(s, p) == SubSeq(s, First(s, p) + 1, Len(s))

(* render_with_markers: each marker is looked for from the start; a missing one seeds anew *)
RenderAnew(s, region) == <<Preamble, Begin, Generated(region), End>>
RenderMore(s, region) ==
  IF Has(s, Begin) /\ Has(s, End) THEN s \o <<Begin, Generated(region), End>>
  ELSE <<Preamble, Begin, Generated(region), End>>
Render(s, region) ==
  IF Has(s, Begin) /\ Has(s, End)
  THEN Before(s, Begin) \o <<Begin, Generated(region), End>> \o After(s, End)
  ELSE <<Preamble, Begin, Generated(region), End>>

(* _extract_region: the end marker is looked for after the first begin marker; newlines at the
   ends are stripped, so an open region is never met again *)
Extracted(s) ==
  IF ~Has(s, Begin) THEN <<>>
  ELSE LET mid == After(s, Begin) IN IF Has(mid, End) THEN <<Before(mid, End)>> ELSE <<>>
Current(s, region) == Extracted(s) = << <<Generated(region)>> >> /\ ~region.open

(* _stale_files, check_docs *)
Stale == {f \in Files : ~Current(file[f], Region(f, Read, Loaded(registry)))}
ClusterIssues(r) == {d \in There : r.is = "there" /\ Meta(d).cluster \notin Ids(r)}
EmptyClusters(r) == {c \in Ids(r) : \A d \in There : Meta(d).cluster # c}
Overlong(r) == {d \in There : Meta(d).cue = "long"} # {} \/ \E i \in 1..Len(r.of) : r.of[i].rollup = "long"

(* scan_cues looks at the raw line, so also where the front matter does not parse;
   scan_distillation at large files only *)
CueHazards == {d \in There : Meta(d).cue = "multiline" \/ form[d].raw}
Undistilled == {d \in There : form[d].large /\ ~form[d].distilled}

(* measure_ambient_routing_block_bytes: whatever is between the markers, fresh or not *)
OverBudget ==
  LET mid == Extracted(file["append"])
      size(p) == 1 + Len(p.of.lines)
  IN mid # <<>> /\ FoldLeft(LAMBDA n, p : n + size(p), 0, mid[1]) > Budget

(* scan_docs_richly: advice that gates nothing; a reference to another document may be dead *)
DeadReferences == {d \in There : form[d].refers # 0 /\ form[d].refers \notin There}
Duplicates == {d \in There : Meta(d).cue # "none" /\ \E e \in There \ {d} : Meta(e).cue = Meta(d).cue}
Advice == DeadReferences \cup Duplicates

Checked ==
  LET r == Loaded(registry) IN
  [unusable |-> r.is = Broken, stale |-> IF r.is = Broken THEN {} ELSE Stale,
   cues |-> IF r.is = Broken THEN {d \in There : Meta(d).cue = "long"} # {} ELSE Overlong(r),
   hazards |-> CueHazards, issues |-> ClusterIssues(r), empty |-> EmptyClusters(r),
   undistilled |-> Undistilled, large |-> OverBudget, advice |-> Advice]
Gates(c) == c.unusable \/ c.stale # {} \/ c.cues \/ c.hazards # {} \/ c.issues # {} \/ c.empty # {}
            \/ c.undistilled # {} \/ c.large

(* _render_human: the headline of the report, which tells fresh from unchecked; the exit is Gates *)
Headline(c) == IF c.unusable THEN "unchecked" ELSE IF c.stale = {} THEN "fresh" ELSE "stale"

----------------------------------------------------------------------------
Idle == [at |-> "idle", docs |-> <<>>, of |-> [is |-> Absent, of |-> <<>>], seen |-> <<>>,
         alone |-> FALSE]
Init ==
  /\ \E v \in Forms : form = [d \in Docs |-> v]
  /\ registry \in Registries
  /\ \E s \in {<<>>, <<User>>} : file = [f \in Files |-> s]
  /\ call = [s \in Syncs |-> Idle] /\ settled = FALSE /\ edits = 0

Go(s, c) == call' = [call EXCEPT ![s] = c]
Others(s) == \E o \in Syncs \ {s} : call[o].at # "idle"
Disk == UNCHANGED <<form, registry, edits>>

(* sync_docs: the registry, then the documents, then each file is read, rendered and written *)
ReadRegistry(s) ==
  /\ call[s].at = "idle"
  /\ IF Loaded(registry).is = Broken THEN UNCHANGED call
     ELSE Go(s, [Idle EXCEPT !.at = "docs", !.of = Loaded(registry), !.alone = ~Others(s)])
  /\ Disk /\ UNCHANGED <<file, settled>>
ReadDocs(s) ==
  /\ call[s].at = "docs"
  /\ Go(s, [call[s] EXCEPT !.at = "append", !.docs = Read])
  /\ Disk /\ UNCHANGED <<file, settled>>
ReadFile(s, f) ==
  /\ call[s].at = f /\ Go(s, [call[s] EXCEPT !.at = "write " \o f, !.seen = file[f]])
  /\ Disk /\ UNCHANGED <<file, settled>>
WriteFile(s, f) ==
  LET new == Render(call[s].seen, Region(f, call[s].docs, call[s].of)) IN
  /\ call[s].at = "write " \o f /\ Len(new) <= MaxLen
  /\ file' = IF new = call[s].seen THEN file ELSE [file EXCEPT ![f] = new]
  /\ Go(s, IF f = "append" THEN [call[s] EXCEPT !.at = "index"] ELSE Idle)
  /\ settled' = IF f = "index" THEN call[s].alone /\ ~Others(s) ELSE settled
  /\ Disk
(* A call is cut; a write that is cut leaves the file as it was or as it was to be *)
Cut(s) == call[s].at # "idle" /\ Go(s, Idle) /\ Disk /\ UNCHANGED <<file, settled>>

(* docs-sync --dry-run computes and writes nothing *)
DryRun == [f \in Files |-> Render(file[f], Region(f, Read, Loaded(registry))) # file[f]]

----------------------------------------------------------------------------
(* People edit documents, the registry and the generated files *)
Edited == /\ edits < MaxEdits /\ edits' = edits + 1 /\ settled' = FALSE
          /\ call' = [s \in Syncs |-> [call[s] EXCEPT !.alone = FALSE]]
EditDocs == Edited /\ UNCHANGED <<registry, file>> /\ \E d \in Docs, v \in Forms : form' = [form EXCEPT ![d] = v]
EditRegistry == Edited /\ UNCHANGED <<form, file>> /\ registry' \in Registries
EditFile ==
  /\ Edited /\ UNCHANGED <<form, registry>>
  /\ \E f \in Files : LET s == file[f] IN
       \/ \E i \in 0..Len(s) : Len(s) < MaxLen /\ file' = [file EXCEPT ![f] = InsertAt(s, i + 1, User)]
       \/ \E i \in 1..Len(s) : file' = [file EXCEPT ![f] = RemoveAt(s, i)]
       \/ \E i \in 1..Len(s), j \in 1..Len(s) : \* a piece is moved
            i # j /\ file' = [file EXCEPT ![f] = InsertAt(RemoveAt(s, i), j, s[i])]

Next ==
  \/ EditDocs \/ EditRegistry \/ EditFile
  \/ \E s \in Syncs : ReadRegistry(s) \/ ReadDocs(s) \/ Cut(s) \/ \E f \in Files : ReadFile(s, f) \/ WriteFile(s, f)
Spec == Init /\ [][Next]_vars

----------------------------------------------------------------------------
TypeOK == \A f \in Files : Len(file[f]) <= MaxLen /\ \A i \in 1..Len(file[f]) :
            file[f][i].is \in {"user", "preamble", "begin", "end", "region"}

(* What docs-sync has written alone satisfies docs-check, and a second docs-sync would write
   nothing (docs_sync.py, sync_docs, _stale_files), except where the two commands look for the
   markers differently: an end marker before the first begin marker, and an open region. *)
Crossed(s) == Has(s, Begin) /\ Has(Before(s, Begin), End)
SyncSettles ==
  settled => \A f \in Files :
    LET region == Region(f, Read, Loaded(registry)) IN
    /\ ~region.open => Current(file[f], region)
    /\ ~Crossed(file[f]) => ~DryRun[f]

(* Every document is routed exactly once in what docs-check calls fresh, whatever its cluster;
   and by the line of a cluster, if there are any, once docs-check passes (docs_sync.py,
   generate_routing_block, _cluster_findings). *)
Routes(region, d) == {i \in 1..Len(region.lines) : d \in region.lines[i].docs}
EveryDocRouted ==
  Headline(Checked) = "fresh" =>
    \A f \in Files :
      LET region == Extracted(file[f])[1][1].of IN
      \A d \in Docs :
        /\ Cardinality(Routes(region, d)) = IF d \in There THEN 1 ELSE 0
        /\ ~Gates(Checked) /\ Loaded(registry).is = "there" =>
             \A i \in Routes(region, d) : region.lines[i].cluster \in Ids(registry)

(* What people wrote around a pair of markers survives every write, unless they wrote it after
   docs-sync had read the file *)
Paired(s) == Has(s, Begin) /\ Has(s, End) /\ ~Crossed(s)
Around(s) == Before(s, Begin) \o After(s, End)
UserTextKept ==
  \A f \in Files : \A s \in Syncs :
    LET writes == call[s].at = "write " \o f /\ call'[s].at # call[s].at /\ file[f] = call[s].seen
    IN writes /\ Paired(file[f]) => Around(file'[f]) = Around(file[f])
=============================================================================
