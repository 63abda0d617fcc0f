------------------------------- MODULE DreamDoor ---------------------------------
(***************************************************************************)
(* The doors that curate the learned docs.  A door gathers the whole       *)
(* corpus into a manifest that names one commit (learn dream), or a part   *)
(* of it with the commit as a hint (learn harvest), and starts a session.  *)
(* People edit and commit in the checkout meanwhile, and other doors may   *)
(* fast-forward it.                                                        *)
(***************************************************************************)
EXTENDS Integers, Sequences, FiniteSets

CONSTANTS Docs,              \* learned documents, positive integers in the order of their paths
          Sessions,          \* runs; each passes one door
          MaxLane,           \* documents of a lane
          MaxEvents          \* bound: edits by people

VARIABLES tree, head, flagged, ignored,   \* the checkout: documents on disk (0 is absent), commits, index
          door, manifest,                 \* per run: what the door has read, what it wrote
          edited                          \* edits so far

vars == <<tree, head, flagged, ignored, door, manifest, edited>>
Checkout == <<tree, head, flagged, ignored>>

NoManifest == [sha |-> 0, lanes |-> <<>>, docs |-> <<>>, quiet |-> FALSE]
NoDoor == [at |-> "new", kind |-> "dream", sha |-> 0, docs |-> <<>>, quiet |-> TRUE]

Committed == head[Len(head)]
Init ==
  /\ head \in [{1} -> [Docs -> {0, 1}]]
  /\ flagged \in SUBSET {d \in Docs : Committed[d] # 0}
  /\ ignored \in SUBSET {d \in Docs : Committed[d] = 0}
  /\ \E hidden \in SUBSET (flagged \cup ignored) : \* what git status does not show
       tree = [d \in Docs |-> IF d \in hidden THEN 2 ELSE Committed[d]]
  /\ door = [s \in Sessions |-> NoDoor] /\ manifest = [s \in Sessions |-> NoManifest]
  /\ edited = 0

----------------------------------------------------------------------------
(* is_dirty (git status --porcelain), index_flagged_paths, tracked_paths *)
Tracked == {d \in Docs : Committed[d] # 0}
Dirty == \E d \in Docs :
  tree[d] # Committed[d] /\ d \notin flagged /\ (d \in ignored => Committed[d] # 0)
Flagged == flagged # {}

(* eligible_learned_docs, resolve_dream_docs: what is on disk *)
OnDisk == {d \in Docs : tree[d] # 0}
Selected(ds) == [d \in ds |-> tree[d]]
Corpus == Selected(OnDisk)

(* partition_lanes: chunks of the documents in order *)
Ordered(ds) == [i \in 1..Cardinality(ds) |-> CHOOSE d \in ds : Cardinality({e \in ds : e <= d}) = i]
Lanes(ds) ==
  LET n == Cardinality(ds)
      from(k) == (k - 1) * MaxLane + 1
      last(k) == IF k * MaxLane < n THEN k * MaxLane ELSE n
  IN [k \in 1..((n + MaxLane - 1) \div MaxLane) |-> SubSeq(Ordered(ds), from(k), last(k))]

DoorGo(s, r) == door' = [door EXCEPT ![s] = r]
DoorAt(s, at) == DoorGo(s, [door[s] EXCEPT !.at = at])
Refuse(s) == DoorAt(s, "closed")

(* run_seeded_door, gather of dream_cmd.py and harvest_cmd.py: a fast-forward, the commit, and
   for a dream the checks around the reading *)
Sync(s) ==
  /\ door[s].at = "new" /\ UNCHANGED <<flagged, ignored, manifest, edited>>
  /\ \/ UNCHANGED <<tree, head>>
     \/ /\ ~Dirty /\ Len(head) = 1 /\ \E d \in Docs \ flagged :
             LET next == [Committed EXCEPT ![d] = 3] IN
             tree[d] = Committed[d] /\ head' = Append(head, next) /\ tree' = [tree EXCEPT ![d] = 3]
  /\ \E kind \in {"dream", "harvest"} :
       door' = [o \in Sessions |->
         IF o = s THEN [door[s] EXCEPT !.at = "head", !.kind = kind]
         ELSE [door[o] EXCEPT !.quiet = @ /\ head' = head]] \* another door is open meanwhile
ReadHead(s) ==
  /\ door[s].at = "head"
  /\ DoorGo(s, [door[s] EXCEPT !.sha = Len(head), !.at = IF @ = "head" /\ door[s].kind = "dream" THEN "clean" ELSE "gather"])
  /\ UNCHANGED <<Checkout, manifest, edited>>
CleanOnly(s) == /\ door[s].at = "clean" /\ IF Dirty THEN Refuse(s) ELSE DoorAt(s, "gather")
                /\ UNCHANGED <<Checkout, manifest, edited>>
Clean(s) == /\ door[s].at = "clean" /\ IF Dirty THEN Refuse(s) ELSE DoorAt(s, "flags")
            /\ UNCHANGED <<Checkout, manifest, edited>>
Flags(s) == /\ door[s].at = "flags" /\ IF Flagged THEN Refuse(s) ELSE DoorAt(s, "gather")
            /\ UNCHANGED <<Checkout, manifest, edited>>
Gather(s) ==
  /\ door[s].at = "gather"
  /\ IF OnDisk = {} THEN Refuse(s)
     ELSE IF door[s].kind = "dream" THEN DoorGo(s, [door[s] EXCEPT !.docs = Corpus, !.at = "tracked"])
     ELSE \E ds \in SUBSET OnDisk \ {{}} : \* --from
            DoorGo(s, [door[s] EXCEPT !.docs = Selected(ds), !.at = "write"])
  /\ UNCHANGED <<Checkout, manifest, edited>>
AllTracked(s) ==
  /\ door[s].at = "tracked"
  /\ IF DOMAIN door[s].docs = Tracked THEN DoorAt(s, "origin") ELSE Refuse(s)
  /\ UNCHANGED <<Checkout, manifest, edited>>

(* The origin guard of a dream (DreamReport); its run may be refused here *)
Origin(s) ==
  /\ door[s].at = "origin" /\ (Refuse(s) \/ DoorAt(s, "write"))
  /\ UNCHANGED <<Checkout, manifest, edited>>

(* write_manifest; the session starts *)
WriteManifest(s) ==
  /\ door[s].at = "write" /\ DoorAt(s, "open")
  /\ manifest' = [manifest EXCEPT ![s] = [sha |-> door[s].sha, docs |-> door[s].docs,
                    lanes |-> Lanes(DOMAIN door[s].docs), quiet |-> door[s].quiet]]
  /\ UNCHANGED <<Checkout, edited>>

(* People work in the checkout meanwhile *)
EditCheckout ==
  /\ edited < MaxEvents /\ edited' = edited + 1
  /\ door' = [s \in Sessions |-> [door[s] EXCEPT !.quiet = FALSE]]
  /\ \E d \in Docs : tree[d] # 2
       /\ \/ tree' = [tree EXCEPT ![d] = 2] /\ UNCHANGED head
          \/ tree' = [tree EXCEPT ![d] = 2] /\ head' = Append(head, [Committed EXCEPT ![d] = 2])
          \/ tree[d] # 0 /\ tree' = [tree EXCEPT ![d] = 0] /\ UNCHANGED head
  /\ UNCHANGED <<flagged, ignored, manifest>>

Step(s) ==
  \/ Sync(s) \/ ReadHead(s) \/ Clean(s) \/ Flags(s) \/ Gather(s) \/ AllTracked(s) \/ Origin(s)
  \/ WriteManifest(s)
Next == EditCheckout \/ \E s \in Sessions : Step(s)
Spec == Init /\ [][Next]_vars

----------------------------------------------------------------------------
TypeOK == \A s \in Sessions : manifest[s].sha \in 0..Len(head)

(* The manifest of a dream lists exactly the documents of the commit it names, each in one lane,
   unless somebody worked in the checkout while the door was open (dream_cmd.py, gather) *)
InLanes(m) == UNION {{m.lanes[k][i] : i \in 1..Len(m.lanes[k])} : k \in 1..Len(m.lanes)}
ManifestIsCommit ==
  \A s \in Sessions :
    LET m == manifest[s] IN
    m.sha # 0 =>
      /\ InLanes(m) = DOMAIN m.docs /\ \A k \in 1..Len(m.lanes) : Len(m.lanes[k]) \in 1..MaxLane
      /\ m.quiet /\ door[s].kind = "dream" =>
           m.docs = [d \in {e \in Docs : head[m.sha][e] # 0} |-> head[m.sha][d]]
=============================================================================
