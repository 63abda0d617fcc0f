---------------------------- MODULE JournalFold ----------------------------
(***************************************************************************)
(* The pure layer of the delivery operation journal: journal.py's          *)
(* fold_events and the accessors of the JournalFold it returns.            *)
(*                                                                         *)
(* The journal is the sequence of perk-marked comments of the carriers of  *)
(* one supersession chain, in (created_at, comment_id) order.  A comment   *)
(* is a record                                                             *)
(*     [id, role, kind, lineage, text, carrier]                            *)
(* - an operation event: id is the operation id, role is "prepared",       *)
(*   "accepted", "completed" or "abandoned", carrier the objective whose   *)
(*   carrier holds it; kind and lineage are a prepared record's            *)
(*   operation_kind and delivery_lineage; text stands for every other byte *)
(*   of the canonical payload, the "created" timestamp included;           *)
(* - a ready stamp: role is "stamp", id the stamped head, kind the plan    *)
(*   and text the objective that the stamp names.                          *)
(* Comments that carry no perk marker are dropped by the reader and do not *)
(* occur here.  No definition is RECURSIVE, so theorems may use them.      *)
(***************************************************************************)
EXTENDS Naturals, Sequences, Functions

NoLineage == "no lineage"      \* expected_lineage = None
NoStamp   == [role |-> "none"] \* latest_ready_stamp returned None

IsStamp(c)   == c.role = "stamp"
Terminal     == {"completed", "abandoned"}

\* The deterministic event key: (operation_id, role), and for a stamp the
\* objective:plan:node:head segments.
Key(c) == IF IsStamp(c) THEN <<c.role, c.id, c.kind, c.text>>
                        ELSE <<c.role, c.id>>

\* The byte identity of a comment: its canonical payload.
CanonicalPayload(c) == <<Key(c), c.kind, c.lineage, c.text>>

\* Mutant of Kept: a dedupe that only looks at the previous comment.
KeptAdjacent(cs) == {i \in DOMAIN cs : i = 1 \/ Key(cs[i - 1]) # Key(cs[i])}

\* The comments that survive the dedupe: the first one under each key.
Kept(cs) == {i \in DOMAIN cs : \A j \in 1..(i - 1) : Key(cs[j]) # Key(cs[i])}

\* The operation ids with a kept event in one of the roles.
OpsWith(cs, roles) == {cs[i].id : i \in {k \in Kept(cs) : cs[k].role \in roles}}

\* Mutant of ConflictingDuplicate: adjacent comments only.
ConflictingNeighbours(cs) ==
    \E i \in DOMAIN cs : /\ i + 1 \in DOMAIN cs
                         /\ Key(cs[i]) = Key(cs[i + 1])
                         /\ CanonicalPayload(cs[i]) # CanonicalPayload(cs[i + 1])

\* Mutant of ConflictingDuplicate: only the newest duplicate is compared.
ConflictingNewest(cs) ==
    \E i \in Kept(cs), j \in DOMAIN cs :
        /\ Key(cs[i]) = Key(cs[j]) /\ CanonicalPayload(cs[i]) # CanonicalPayload(cs[j])
        /\ \A k \in (j + 1)..Len(cs) : Key(cs[k]) # Key(cs[j])

\* A later comment contradicts the kept comment of its key: another payload,
\* or one prepared record on two carriers.
ConflictingDuplicate(cs) ==
    \E i \in Kept(cs), j \in DOMAIN cs :
        /\ Key(cs[i]) = Key(cs[j])
        /\ \/ CanonicalPayload(cs[i]) # CanonicalPayload(cs[j])
           \/ cs[i].role = "prepared" /\ cs[i].carrier # cs[j].carrier

\* An outcome whose prepared record is nowhere in the fold.
OrphanOutcome(cs) ==
    ~ (OpsWith(cs, Terminal \cup {"accepted"}) \subseteq OpsWith(cs, {"prepared"}))

\* accepted is gated to land operations.
AcceptedOffLand(cs) ==
    \E i \in Kept(cs) : /\ cs[i].role = "prepared"
                        /\ cs[i].kind # "land"
                        /\ cs[i].id \in OpsWith(cs, {"accepted"})

\* Mutant of MoreThanOneOutcome: the later outcome simply replaces the first.
OutcomeReplaced(cs) == FALSE

MoreThanOneOutcome(cs) ==
    OpsWith(cs, {"completed"}) \cap OpsWith(cs, {"abandoned"}) # {}

\* The lineages the prepared records claim.
Lineages(cs) == {cs[i].lineage : i \in {k \in Kept(cs) : cs[k].role = "prepared"}}

ForeignOperation(cs, expected) ==
    IF expected # NoLineage THEN ~ (Lineages(cs) \subseteq {expected})
                            ELSE \E a, b \in Lineages(cs) : a # b

\* Stamps are held to the effective lineage: the expected one, else the one
\* the operations agree on; with no lineage at all they fold unverified.
ForeignStamp(cs, expected) ==
    LET effective == IF expected # NoLineage THEN {expected} ELSE Lineages(cs)
    IN  /\ effective # {}
        /\ \E i \in Kept(cs) : IsStamp(cs[i]) /\ cs[i].lineage \notin effective

\* fold_events raises JournalCorruptionError.
FoldRaises(cs, expected) ==
    \/ ConflictingDuplicate(cs)
    \/ OrphanOutcome(cs)
    \/ AcceptedOffLand(cs)
    \/ MoreThanOneOutcome(cs)
    \/ ForeignOperation(cs, expected)
    \/ ForeignStamp(cs, expected)

\* JournalFold.unresolved: prepared operations without a terminal outcome
\* (an accepted land is still unresolved).
Unresolved(cs) == OpsWith(cs, {"prepared"}) \ OpsWith(cs, Terminal)

\* JournalFold.latest_ready_stamp: the last kept stamp that names exactly
\* this objective and plan.
LatestReadyStamp(cs, objective, plan) ==
    LET mine == {i \in Kept(cs) : /\ IsStamp(cs[i])
                                  /\ cs[i].text = objective
                                  /\ cs[i].kind = plan}
    IN  IF mine = {} THEN NoStamp
        ELSE cs[CHOOSE i \in mine : \A j \in mine : j <= i]

-----------------------------------------------------------------------------
(***************************************************************************)
(* What the fold means, on the SET of comments a journal holds: the        *)
(* reference the order-dependent algorithm above is checked against, and   *)
(* the form the protocol modules use.                                      *)
(***************************************************************************)

Having(S, roles) == {c.id : c \in {d \in S : d.role \in roles}}

\* Two comments that no single history of the lineage explains.
Contradict(c, d) ==
    \/ Key(c) = Key(d) /\ CanonicalPayload(c) # CanonicalPayload(d)
    \/ /\ c.role = "prepared" /\ d.role = "prepared" /\ c.id = d.id
       /\ c.carrier # d.carrier
    \/ c.id = d.id /\ c.role = "completed" /\ d.role = "abandoned"
    \/ c.id = d.id /\ c.role = "prepared" /\ c.kind # "land" /\ d.role = "accepted"
    \/ c.role = "prepared" /\ d.role \in {"prepared", "stamp"} /\ c.lineage # d.lineage

Coherent(S, expected) ==
    /\ \A c, d \in S : ~ Contradict(c, d)
    /\ Having(S, Terminal \cup {"accepted"}) \subseteq Having(S, {"prepared"})
    /\ expected # NoLineage =>
           \A c \in S : c.role \in {"prepared", "stamp"} => c.lineage = expected

UnresolvedIn(S) == Having(S, {"prepared"}) \ Having(S, Terminal)
=============================================================================
