----------------------- MODULE TrainPersistenceProofs -----------------------
(***************************************************************************)
(* Proofs about the operation journal.  The fold, which sorts, dedupes and *)
(* groups, depends on nothing but the set of the comments, for journals of *)
(* every length; in a stream that anybody may write to, a conclusion is    *)
(* final, a contradiction is permanent, and a repeated stamp overtakes     *)
(* nothing.                                                                *)
(*                                                                         *)
(* And about the append protocol of persistence.py, for every number of    *)
(* writers, operations, heads and calls, requests that land late included: *)
(* it implements AppendLog; what it can do to a journal by itself is       *)
(* limited to what two appends in flight can do; and with one writer whose *)
(* requests die with it the journal is never corrupt.                      *)
(***************************************************************************)
EXTENDS TrainPersistence, JournalStream, WellFoundedInduction, FiniteSetTheorems, TLAPS

-----------------------------------------------------------------------------
(* The comments that are kept. *)

\* A non-empty set of numbers has a smallest one.
LEMMA SmallestExists ==
    ASSUME NEW S, S \subseteq Nat, S # {}
    PROVE  \E l \in S : \A k \in S : l <= k
<1> DEFINE R == OpToRel(<, Nat)
<1>1. IsWellFoundedOn(R, Nat)
  BY NatLessThanWellFounded
<1>2. \A x, y \in Nat : <<x, y>> \in R <=> x < y
  BY DEF OpToRel
<1> HIDE DEF R
<1>3. PICK l \in S : \A k \in S : ~ (<<k, l>> \in R)
  BY <1>1, WFMin, Zenon
<1>4. ASSUME NEW k \in S PROVE l <= k
  <2>1. l \in Nat /\ k \in Nat /\ ~ (<<k, l>> \in R)
    BY <1>3
  <2>2. ~ (k < l)
    BY <1>2, <2>1
  <2> QED
    BY <2>1, <2>2
<1> QED
  BY <1>4

LEMMA KeyNames == \A c, d : Key(c) = Key(d) => c.role = d.role /\ c.id = d.id
<1> SUFFICES ASSUME NEW c, NEW d, Key(c) = Key(d) PROVE c.role = d.role /\ c.id = d.id
  OBVIOUS
<1>1. \A e : Key(e)[1] = e.role /\ Key(e)[2] = e.id
  BY DEF Key
<1> QED
  BY <1>1

\* Every comment is represented by the first one under its key.
LEMMA Represented ==
    ASSUME NEW U, NEW cs \in Seq(U), NEW j \in DOMAIN cs
    PROVE  \E i \in Kept(cs) : Key(cs[i]) = Key(cs[j])
<1> DEFINE S == {k \in DOMAIN cs : Key(cs[k]) = Key(cs[j])}
<1>1. DOMAIN cs = 1..Len(cs) /\ Len(cs) \in Nat
  OBVIOUS
<1>2. S \subseteq Nat /\ j \in S
  BY <1>1
<1>3. PICK i \in S : \A k \in S : i <= k
  BY <1>2, SmallestExists
<1>4. \A k \in 1..(i - 1) : Key(cs[k]) # Key(cs[i])
  <2> SUFFICES ASSUME NEW k \in 1..(i - 1), Key(cs[k]) = Key(cs[i]) PROVE FALSE
    OBVIOUS
  <2>1. i \in 1..Len(cs) /\ k \in 1..Len(cs) /\ ~ (i <= k)
    BY <1>1, <1>3
  <2>2. k \in S
    BY <1>1, <1>3, <2>1
  <2> QED
    BY <1>3, <2>1, <2>2
<1> QED
  BY <1>3, <1>4 DEF Kept

LEMMA KeptInDomain == \A cs : Kept(cs) \subseteq DOMAIN cs
  BY DEF Kept

\* The dedupe loses no operation in any role.
LEMMA OpsWithIsHaving ==
    ASSUME NEW U, NEW cs \in Seq(U), NEW roles
    PROVE  OpsWith(cs, roles) = Having(Range(cs), roles)
<1>1. ASSUME NEW o \in OpsWith(cs, roles) PROVE o \in Having(Range(cs), roles)
  <2>1. PICK i \in Kept(cs) : cs[i].role \in roles /\ cs[i].id = o
    BY <1>1 DEF OpsWith
  <2>2. cs[i] \in Range(cs)
    BY KeptInDomain DEF Range
  <2> QED
    BY <2>1, <2>2 DEF Having
<1>2. ASSUME NEW o \in Having(Range(cs), roles) PROVE o \in OpsWith(cs, roles)
  <2>1. PICK j \in DOMAIN cs : cs[j].role \in roles /\ cs[j].id = o
    BY <1>2 DEF Having, Range
  <2>2. PICK i \in Kept(cs) : Key(cs[i]) = Key(cs[j])
    BY Represented
  <2>3. cs[i].role \in roles /\ cs[i].id = o
    BY <2>1, <2>2, KeyNames
  <2> QED
    BY <2>3 DEF OpsWith
<1> QED
  BY <1>1, <1>2

\* Without a conflict the comment that represents another one says the same.
LEMMA FaithfullyRepresented ==
    ASSUME NEW U, NEW cs \in Seq(U), ~ ConflictingDuplicate(cs), NEW d \in Range(cs)
    PROVE  \E i \in Kept(cs) :
              /\ Key(cs[i]) = Key(d) /\ cs[i] \in Range(cs)
              /\ CanonicalPayload(cs[i]) = CanonicalPayload(d)
              /\ cs[i].role = d.role /\ cs[i].id = d.id
              /\ cs[i].kind = d.kind /\ cs[i].lineage = d.lineage
              /\ d.role = "prepared" => cs[i].carrier = d.carrier
<1>1. PICK j \in DOMAIN cs : cs[j] = d
  BY DEF Range
<1>2. PICK i \in Kept(cs) : Key(cs[i]) = Key(d)
  BY <1>1, Represented
<1>3. cs[i].role = d.role /\ cs[i].id = d.id
  BY <1>2, KeyNames
<1>4. /\ CanonicalPayload(cs[i]) = CanonicalPayload(d)
      /\ d.role = "prepared" => cs[i].carrier = d.carrier
  BY <1>1, <1>2, <1>3 DEF ConflictingDuplicate
<1>5. cs[i].kind = d.kind /\ cs[i].lineage = d.lineage
  BY <1>4 DEF CanonicalPayload
<1>6. cs[i] \in Range(cs)
  BY KeptInDomain DEF Range
<1> QED
  BY <1>2, <1>3, <1>4, <1>5, <1>6

-----------------------------------------------------------------------------
(* The fold reads the set of the comments. *)

LEMMA RaisesIncoherent ==
    ASSUME NEW U, NEW cs \in Seq(U), NEW expected, FoldRaises(cs, expected)
    PROVE  ~ Coherent(Range(cs), expected)
<1> DEFINE S == Range(cs)
<1> SUFFICES ASSUME Coherent(S, expected) PROVE FALSE
  OBVIOUS
<1>0. /\ \A i \in Kept(cs) : cs[i] \in S /\ i \in DOMAIN cs
      /\ \A j \in DOMAIN cs : cs[j] \in S
      /\ \A c, d \in S : ~ Contradict(c, d)
      /\ Having(S, Terminal \cup {"accepted"}) \subseteq Having(S, {"prepared"})
      /\ expected # NoLineage =>
            \A c \in S : c.role \in {"prepared", "stamp"} => c.lineage = expected
  BY KeptInDomain DEF Range, Coherent
<1>w. \A roles : OpsWith(cs, roles) = Having(S, roles)
  BY OpsWithIsHaving
<1> HIDE DEF S
<1>1. CASE ConflictingDuplicate(cs)
  <2>1. PICK i \in Kept(cs), j \in DOMAIN cs :
          /\ Key(cs[i]) = Key(cs[j])
          /\ \/ CanonicalPayload(cs[i]) # CanonicalPayload(cs[j])
             \/ cs[i].role = "prepared" /\ cs[i].carrier # cs[j].carrier
    BY <1>1 DEF ConflictingDuplicate
  <2>2. cs[i].role = cs[j].role /\ cs[i].id = cs[j].id
    BY <2>1, KeyNames
  <2>3. Contradict(cs[i], cs[j])
    BY <2>1, <2>2 DEF Contradict
  <2> QED
    BY <1>0, <2>3
<1>2. CASE OrphanOutcome(cs)
  BY <1>0, <1>w, <1>2 DEF OrphanOutcome
<1>3. CASE AcceptedOffLand(cs)
  <2>1. PICK i \in Kept(cs) : /\ cs[i].role = "prepared" /\ cs[i].kind # "land"
                              /\ cs[i].id \in Having(S, {"accepted"})
    BY <1>w, <1>3 DEF AcceptedOffLand
  <2>2. PICK d \in S : d.role = "accepted" /\ d.id = cs[i].id
    BY <2>1 DEF Having
  <2>3. Contradict(cs[i], d)
    BY <2>1, <2>2 DEF Contradict
  <2> QED
    BY <1>0, <2>3
<1>4. CASE MoreThanOneOutcome(cs)
  <2>1. PICK o \in Having(S, {"completed"}) : o \in Having(S, {"abandoned"})
    BY <1>w, <1>4 DEF MoreThanOneOutcome
  <2>2. PICK c \in S : c.role = "completed" /\ c.id = o
    BY <2>1 DEF Having
  <2>3. PICK d \in S : d.role = "abandoned" /\ d.id = o
    BY <2>1 DEF Having
  <2>4. Contradict(c, d)
    BY <2>2, <2>3 DEF Contradict
  <2> QED
    BY <1>0, <2>4
<1>5. ASSUME NEW i \in Kept(cs), NEW j \in Kept(cs), cs[i].role = "prepared",
             cs[j].role \in {"prepared", "stamp"}, cs[i].lineage # cs[j].lineage
      PROVE  FALSE
  <2>1. Contradict(cs[i], cs[j])
    BY <1>5 DEF Contradict
  <2> QED
    BY <1>0, <2>1
<1>6. CASE ForeignOperation(cs, expected)
  BY <1>0, <1>5, <1>6 DEF ForeignOperation, Lineages
<1>7. CASE ForeignStamp(cs, expected)
  <2>1. CASE expected # NoLineage
    BY <1>0, <1>7, <2>1 DEF ForeignStamp, IsStamp
  <2>2. CASE expected = NoLineage
    <3>1. PICK i \in Kept(cs) : cs[i].role = "prepared"
      BY <1>7, <2>2 DEF ForeignStamp, Lineages
    <3>2. PICK j \in Kept(cs) : cs[j].role = "stamp" /\ cs[j].lineage \notin Lineages(cs)
      BY <1>7, <2>2 DEF ForeignStamp, IsStamp
    <3>3. cs[i].lineage \in Lineages(cs)
      BY <3>1 DEF Lineages
    <3> QED
      BY <1>5, <3>1, <3>2, <3>3
  <2> QED
    BY <2>1, <2>2
<1> QED
  BY <1>1, <1>2, <1>3, <1>4, <1>6, <1>7 DEF FoldRaises

LEMMA QuietCoherent ==
    ASSUME NEW U, NEW cs \in Seq(U), NEW expected, ~ FoldRaises(cs, expected)
    PROVE  Coherent(Range(cs), expected)
<1> DEFINE S == Range(cs)
<1>0. /\ ~ ConflictingDuplicate(cs) /\ ~ OrphanOutcome(cs) /\ ~ AcceptedOffLand(cs)
      /\ ~ MoreThanOneOutcome(cs) /\ ~ ForeignOperation(cs, expected)
      /\ ~ ForeignStamp(cs, expected)
  BY DEF FoldRaises
<1>w. \A roles : OpsWith(cs, roles) = Having(S, roles)
  BY OpsWithIsHaving
<1>r. \A d \in S : \E i \in Kept(cs) :
              /\ Key(cs[i]) = Key(d) /\ cs[i] \in S
              /\ CanonicalPayload(cs[i]) = CanonicalPayload(d)
              /\ cs[i].role = d.role /\ cs[i].id = d.id
              /\ cs[i].kind = d.kind /\ cs[i].lineage = d.lineage
              /\ d.role = "prepared" => cs[i].carrier = d.carrier
  BY <1>0, FaithfullyRepresented
<1>s. \A d \in S : \E j \in DOMAIN cs : cs[j] = d
  BY DEF Range
<1> HIDE DEF S
<1>1. ASSUME NEW c \in S, NEW d \in S, Key(c) = Key(d)
      PROVE  /\ CanonicalPayload(c) = CanonicalPayload(d)
             /\ c.role = "prepared" => c.carrier = d.carrier
  <2>1. PICK i \in Kept(cs) : /\ Key(cs[i]) = Key(c)
                              /\ CanonicalPayload(cs[i]) = CanonicalPayload(c)
                              /\ cs[i].role = c.role
                              /\ c.role = "prepared" => cs[i].carrier = c.carrier
    BY <1>r
  <2>2. PICK j \in DOMAIN cs : cs[j] = d
    BY <1>s
  <2> QED
    BY <1>0, <1>1, <2>1, <2>2 DEF ConflictingDuplicate
<1>2. ASSUME NEW c \in S, NEW d \in S, c.role = "prepared", d.role = "prepared", c.id = d.id
      PROVE  c.carrier = d.carrier
  <2>1. Key(c) = Key(d)
    BY <1>2 DEF Key, IsStamp
  <2> QED
    BY <1>1, <1>2, <2>1
<1>3. ASSUME NEW c \in S, NEW d \in S, c.id = d.id, c.role = "completed", d.role = "abandoned"
      PROVE  FALSE
  <2>1. c.id \in Having(S, {"completed"}) /\ c.id \in Having(S, {"abandoned"})
    BY <1>3 DEF Having
  <2> QED
    BY <1>0, <1>w, <2>1 DEF MoreThanOneOutcome
<1>4. ASSUME NEW c \in S, NEW d \in S, c.id = d.id, c.role = "prepared", c.kind # "land",
             d.role = "accepted"
      PROVE  FALSE
  <2>1. PICK i \in Kept(cs) : cs[i].role = "prepared" /\ cs[i].id = c.id /\ cs[i].kind # "land"
    BY <1>r, <1>4
  <2>2. c.id \in Having(S, {"accepted"})
    BY <1>4 DEF Having
  <2> QED
    BY <1>0, <1>w, <2>1, <2>2 DEF AcceptedOffLand
<1>5. ASSUME NEW c \in S, NEW d \in S, c.role = "prepared", d.role \in {"prepared", "stamp"}
      PROVE  c.lineage = d.lineage
  <2>1. PICK i \in Kept(cs) : cs[i].role = "prepared" /\ cs[i].lineage = c.lineage
    BY <1>r, <1>5
  <2>2. PICK j \in Kept(cs) : cs[j].role = d.role /\ cs[j].lineage = d.lineage
    BY <1>r
  <2>3. c.lineage \in Lineages(cs)
    BY <2>1 DEF Lineages
  <2>4. \A a, b \in Lineages(cs) : a = b
    BY <1>0 DEF ForeignOperation
  <2>5. CASE d.role = "prepared"
    BY <2>2, <2>3, <2>4, <2>5 DEF Lineages
  <2>6. CASE d.role = "stamp"
    <3>1. d.lineage \in IF expected # NoLineage THEN {expected} ELSE Lineages(cs)
      BY <1>0, <2>2, <2>3, <2>6 DEF ForeignStamp, IsStamp
    <3>2. expected # NoLineage => c.lineage = expected
      BY <1>0, <2>3 DEF ForeignOperation
    <3> QED
      BY <2>3, <2>4, <3>1, <3>2
  <2> QED
    BY <1>5, <2>5, <2>6
<1>6. \A c, d \in S : ~ Contradict(c, d)
  BY <1>1, <1>2, <1>3, <1>4, <1>5 DEF Contradict
<1>7. Having(S, Terminal \cup {"accepted"}) \subseteq Having(S, {"prepared"})
  BY <1>0, <1>w DEF OrphanOutcome
<1>8. ASSUME expected # NoLineage, NEW c \in S, c.role \in {"prepared", "stamp"}
      PROVE  c.lineage = expected
  <2>1. PICK i \in Kept(cs) : cs[i].role = c.role /\ cs[i].lineage = c.lineage
    BY <1>r
  <2>2. CASE c.role = "prepared"
    BY <1>0, <1>8, <2>1, <2>2 DEF ForeignOperation, Lineages
  <2>3. CASE c.role = "stamp"
    BY <1>0, <1>8, <2>1, <2>3 DEF ForeignStamp, IsStamp
  <2> QED
    BY <1>8, <2>2, <2>3
<1> QED
  BY <1>6, <1>7, <1>8 DEF Coherent, S

\* What fold_events says of a journal of any length depends only on the set of its
\* comments: not on their order nor on how often a retried POST repeated one.
THEOREM FoldReadsTheSet ==
    ASSUME NEW U, NEW cs \in Seq(U), NEW expected
    PROVE  /\ FoldRaises(cs, expected) <=> ~ Coherent(Range(cs), expected)
           /\ Unresolved(cs) = UnresolvedIn(Range(cs))
<1>1. FoldRaises(cs, expected) <=> ~ Coherent(Range(cs), expected)
  BY RaisesIncoherent, QuietCoherent
<1>2. Unresolved(cs) = UnresolvedIn(Range(cs))
  BY OpsWithIsHaving DEF Unresolved, UnresolvedIn
<1> QED
  BY <1>1, <1>2

-----------------------------------------------------------------------------
(* A journal that grows. *)

LEMMA RangeAppend ==
    ASSUME NEW U, NEW cs \in Seq(U), NEW c \in U
    PROVE  Range(Append(cs, c)) = Range(cs) \cup {c}
<1> DEFINE ds == Append(cs, c)
<1>1. /\ Len(ds) = Len(cs) + 1 /\ DOMAIN ds = 1..(Len(cs) + 1)
      /\ DOMAIN cs = 1..Len(cs) /\ Len(cs) \in Nat
      /\ \A i \in 1..Len(cs) : ds[i] = cs[i]
      /\ ds[Len(cs) + 1] = c
  OBVIOUS
<1> HIDE DEF ds
<1>2. ASSUME NEW d \in Range(cs) \cup {c} PROVE d \in Range(ds)
  BY <1>1 DEF Range
<1>3. ASSUME NEW d \in Range(ds) PROVE d \in Range(cs) \cup {c}
  <2>1. PICK i \in 1..(Len(cs) + 1) : ds[i] = d
    BY <1>1 DEF Range
  <2>2. CASE i = Len(cs) + 1
    BY <1>1, <2>1, <2>2
  <2>3. CASE i # Len(cs) + 1
    <3>1. i \in 1..Len(cs)
      BY <1>1, <2>3
    <3> QED
      BY <1>1, <2>1, <3>1 DEF Range
  <2> QED
    BY <2>2, <2>3
<1> QED
  BY <1>2, <1>3 DEF ds

-----------------------------------------------------------------------------
(* The stream of comments. *)

StreamIsTyped == comments \in Seq(Catalogue)

LEMMA StreamStepTyped ==
    ASSUME StreamIsTyped, [StreamNext]_comments
    PROVE  StreamIsTyped'
<1>1. CASE UNCHANGED comments
  BY <1>1 DEF StreamIsTyped
<1>2. ASSUME NEW c \in Catalogue, PostComment(c) PROVE StreamIsTyped'
  BY <1>2 DEF PostComment, StreamIsTyped
<1>3. ASSUME NEW i \in DOMAIN comments, DeleteComment(i) PROVE StreamIsTyped'
  <2>1. DOMAIN comments = 1..Len(comments) /\ Len(comments) \in Nat
    BY DEF StreamIsTyped
  <2>2. Len(comments) - 1 \in Nat
    BY <2>1
  <2>3. \A j \in 1..(Len(comments) - 1) :
           (IF j < i THEN comments[j] ELSE comments[j + 1]) \in Catalogue
    BY <2>1 DEF StreamIsTyped
  <2> QED
    BY <1>3, <2>2, <2>3 DEF DeleteComment, StreamIsTyped
<1> QED
  BY <1>1, <1>2, <1>3 DEF StreamNext

LEMMA StreamStaysTyped == StreamSpec => []StreamIsTyped
<1>1. StreamInit => StreamIsTyped
  BY DEF StreamInit, StreamIsTyped
<1> QED
  BY <1>1, StreamStepTyped, PTL DEF StreamSpec

\* A step that makes the stream longer posts one comment.
LEMMA LongerIsPosted ==
    ASSUME StreamIsTyped, [StreamNext]_comments, Len(comments') > Len(comments)
    PROVE  \E c \in Catalogue : comments' = Append(comments, c)
<1>1. CASE UNCHANGED comments
  <2>1. Len(comments) \in Nat
    BY DEF StreamIsTyped
  <2> QED
    BY <1>1, <2>1
<1>2. ASSUME NEW i \in DOMAIN comments, DeleteComment(i) PROVE FALSE
  <2>1. DOMAIN comments = 1..Len(comments) /\ Len(comments) \in Nat
    BY DEF StreamIsTyped
  <2>2. Len(comments) - 1 \in Nat
    BY <2>1
  <2>3. StreamIsTyped'
    BY StreamStepTyped
  <2>4. Len(comments') \in Nat /\ DOMAIN comments' = 1..Len(comments')
    BY <2>3 DEF StreamIsTyped
  <2>5. DOMAIN comments' = 1..(Len(comments) - 1)
    BY <1>2 DEF DeleteComment
  <2>6. Len(comments') = Len(comments) - 1
    BY <2>2, <2>4, <2>5
  <2> QED
    BY <2>1, <2>6
<1> QED
  BY <1>1, <1>2 DEF StreamNext, PostComment

\* Whatever is posted, repeated, reordered by the carriers or deleted: the fold of
\* the stream agrees with the set of its comments, in both lineage modes
\* (journal.py, fold_events).
THEOREM FoldStaysOrderFree == StreamSpec => []FoldIsOrderFree
<1>1. StreamIsTyped => FoldIsOrderFree
  <2> SUFFICES ASSUME StreamIsTyped, NEW expected \in {Expected, NoLineage}
               PROVE  /\ FoldRaises(comments, expected)
                            <=> ~ Coherent(Range(comments), expected)
                      /\ Unresolved(comments) = UnresolvedIn(Range(comments))
    BY DEF FoldIsOrderFree
  <2>1. comments \in Seq(Catalogue)
    BY DEF StreamIsTyped
  <2> QED
    BY <2>1, FoldReadsTheSet
<1> QED
  BY <1>1, StreamStaysTyped, PTL

\* A conclusion is final for every reader: no comment that is added makes a
\* resolved operation unresolved again or gives it the other outcome.
THEOREM ConclusionsAreFinal == StreamSpec => [][ResolvedIsFinal]_comments
<1>1. StreamIsTyped /\ [StreamNext]_comments => [ResolvedIsFinal]_comments
  <2> SUFFICES ASSUME StreamIsTyped, [StreamNext]_comments,
                      Len(comments') > Len(comments),
                      ~ FoldRaises(comments, Expected), ~ FoldRaises(comments', Expected),
                      NEW o \in OpsWith(comments, Terminal), NEW r \in Terminal
               PROVE  o \in OpsWith(comments, {r}) <=> o \in OpsWith(comments', {r})
    BY DEF ResolvedIsFinal
  <2>1. PICK c \in Catalogue : comments' = Append(comments, c)
    BY LongerIsPosted
  <2> DEFINE S == Range(comments)
             T == Range(comments')
  <2>2. comments \in Seq(Catalogue) /\ comments' \in Seq(Catalogue)
    BY StreamStepTyped DEF StreamIsTyped
  <2>3. T = S \cup {c}
    BY <2>1, <2>2, RangeAppend
  <2>4. /\ \A roles : OpsWith(comments, roles) = Having(S, roles)
        /\ \A roles : OpsWith(comments', roles) = Having(T, roles)
        /\ Coherent(T, Expected)
    BY <2>2, OpsWithIsHaving, QuietCoherent
  <2> HIDE DEF S, T
  <2>5. PICK d \in S : d.role \in Terminal /\ d.id = o
    BY <2>4 DEF Having
  <2>6. ASSUME o \in Having(S, {r}) PROVE o \in Having(T, {r})
    BY <2>3, <2>6 DEF Having
  <2>7. ASSUME o \in Having(T, {r}) PROVE o \in Having(S, {r})
    <3>1. PICK e \in T : e.role = r /\ e.id = o
      BY <2>7 DEF Having
    <3>2. ~ Contradict(d, e) /\ ~ Contradict(e, d)
      BY <2>3, <2>4, <2>5, <3>1 DEF Coherent
    <3>3. d.role = r
      BY <2>5, <3>1, <3>2 DEF Contradict, Terminal
    <3> QED
      BY <2>5, <3>3 DEF Having
  <2> QED
    BY <2>4, <2>6, <2>7
<1> QED
  BY <1>1, StreamStaysTyped, PTL DEF StreamSpec

\* No comment that is added repairs a contradiction: a fold that raises for
\* anything but an orphan outcome raises for ever.
THEOREM ContradictionsStay == StreamSpec => [][ContradictionIsPermanent]_comments
<1>1. StreamIsTyped /\ [StreamNext]_comments => [ContradictionIsPermanent]_comments
  <2> SUFFICES ASSUME StreamIsTyped, [StreamNext]_comments,
                      Len(comments') > Len(comments),
                      FoldRaises(comments, Expected), ~ OrphanOutcome(comments)
               PROVE  FoldRaises(comments', Expected)
    BY DEF ContradictionIsPermanent
  <2>1. PICK c \in Catalogue : comments' = Append(comments, c)
    BY LongerIsPosted
  <2> DEFINE S == Range(comments)
             T == Range(comments')
  <2>2. comments \in Seq(Catalogue) /\ comments' \in Seq(Catalogue)
    BY StreamStepTyped DEF StreamIsTyped
  <2>3. T = S \cup {c}
    BY <2>1, <2>2, RangeAppend
  <2>4. ~ Coherent(S, Expected)
    BY <2>2, RaisesIncoherent
  <2>5. Having(S, Terminal \cup {"accepted"}) \subseteq Having(S, {"prepared"})
    BY <2>2, OpsWithIsHaving DEF OrphanOutcome
  <2> HIDE DEF S, T
  <2>6. ~ Coherent(T, Expected)
    BY <2>3, <2>4, <2>5 DEF Coherent
  <2> QED
    BY <2>2, <2>6, QuietCoherent DEF T
<1> QED
  BY <1>1, StreamStaysTyped, PTL DEF StreamSpec

-----------------------------------------------------------------------------
(* Ready stamps. *)

\* The kept stamps of a plan of an objective.
Stamps(cs, objective, plan) == {i \in Kept(cs) : /\ IsStamp(cs[i])
                                                 /\ cs[i].text = objective
                                                 /\ cs[i].kind = plan}

\* A non-empty set of positions has a last one.
LEMMA LastExists ==
    ASSUME NEW n \in Nat, NEW S, S \subseteq 1..n, S # {}
    PROVE  \E i \in S : \A j \in S : j <= i
<1> DEFINE M == {n - i : i \in S}
<1>a. ASSUME NEW i \in S PROVE n - i \in Nat
  <2>1. i \in 1..n
    OBVIOUS
  <2> QED
    BY <2>1
<1>b. PICK s \in S : TRUE
  OBVIOUS
<1>1. M \subseteq Nat /\ M # {}
  <2>1. \A m \in M : m \in Nat
    BY <1>a
  <2>2. n - s \in M
    BY <1>b
  <2> QED
    BY <2>1, <2>2
<1>2. PICK m \in M : \A k \in M : m <= k
  <2> HIDE DEF M
  <2> QED
    BY <1>1, SmallestExists
<1>3. PICK i \in S : m = n - i
  BY <1>2
<1>4. ASSUME NEW j \in S PROVE j <= i
  <2>1. n - i <= n - j /\ i \in 1..n /\ j \in 1..n
    BY <1>2, <1>3, <1>4
  <2> QED
    BY <2>1
<1> QED
  BY <1>4

LEMMA KeptAppend ==
    ASSUME NEW U, NEW cs \in Seq(U), NEW c \in U
    PROVE  LET ds == Append(cs, c)
               n  == Len(cs)
           IN  /\ \A i \in 1..n : i \in Kept(ds) <=> i \in Kept(cs)
               /\ Kept(ds) \subseteq 1..(n + 1)
               /\ n + 1 \in Kept(ds) => c \notin Range(cs)
<1> DEFINE ds == Append(cs, c)
           n  == Len(cs)
<1>1. /\ n \in Nat /\ DOMAIN cs = 1..n /\ DOMAIN ds = 1..(n + 1)
      /\ \A i \in 1..n : ds[i] = cs[i]
      /\ ds[n + 1] = c
  OBVIOUS
<1> HIDE DEF ds, n
<1>2. ASSUME NEW i \in 1..n PROVE i \in Kept(ds) <=> i \in Kept(cs)
  <2>1. i \in DOMAIN ds /\ i \in DOMAIN cs /\ ds[i] = cs[i]
    BY <1>1
  <2>2. \A j \in 1..(i - 1) : ds[j] = cs[j]
    BY <1>1
  <2> QED
    BY <2>1, <2>2 DEF Kept
<1>3. Kept(ds) \subseteq 1..(n + 1)
  BY <1>1, KeptInDomain
<1>4. ASSUME n + 1 \in Kept(ds), c \in Range(cs) PROVE FALSE
  <2>1. PICK j \in 1..n : cs[j] = c
    BY <1>1, <1>4 DEF Range
  <2>2. j \in 1..((n + 1) - 1)
    BY <1>1
  <2>3. Key(ds[j]) # Key(ds[n + 1])
    BY <1>4, <2>2 DEF Kept
  <2> QED
    BY <1>1, <2>1, <2>3
<1> QED
  BY <1>2, <1>3, <1>4 DEF ds, n

\* The head that is reported for a plan is the last one that was stamped for the
\* first time: a repeated stamp overtakes nothing (latest_ready_stamp).
THEOREM RestampsOvertakeNothing == StreamSpec => [][RestampNeverOvertakes]_comments
<1>1. StreamIsTyped /\ [StreamNext]_comments => [RestampNeverOvertakes]_comments
  <2> SUFFICES ASSUME StreamIsTyped, [StreamNext]_comments,
                      Len(comments') > Len(comments), NEW objective, NEW plan,
                      LatestReadyStamp(comments, objective, plan) # NoStamp
               PROVE  \/ LatestReadyStamp(comments', objective, plan)
                            = LatestReadyStamp(comments, objective, plan)
                      \/ /\ LatestReadyStamp(comments', objective, plan)
                               = comments'[Len(comments')]
                         /\ comments'[Len(comments')] \notin Range(comments)
    BY DEF RestampNeverOvertakes
  <2> DEFINE cs == comments
             ds == comments'
             n  == Len(comments)
             A  == Stamps(cs, objective, plan)
             B  == Stamps(ds, objective, plan)
  <2>1. PICK c \in Catalogue : comments' = Append(comments, c)
    BY LongerIsPosted
  <2>2. cs \in Seq(Catalogue)
    BY DEF StreamIsTyped
  <2>3. /\ n \in Nat /\ DOMAIN cs = 1..n /\ Len(ds) = n + 1
        /\ \A i \in 1..n : ds[i] = cs[i]
        /\ ds[n + 1] = c
    BY <2>1, <2>2
  <2>4. /\ \A i \in 1..n : i \in Kept(ds) <=> i \in Kept(cs)
        /\ Kept(ds) \subseteq 1..(n + 1)
        /\ n + 1 \in Kept(ds) => c \notin Range(cs)
    BY <2>1, <2>2, KeptAppend
  <2>5. Kept(cs) \subseteq 1..n
    BY <2>3, KeptInDomain
  <2>6. /\ LatestReadyStamp(cs, objective, plan)
             = IF A = {} THEN NoStamp ELSE cs[CHOOSE i \in A : \A j \in A : j <= i]
        /\ LatestReadyStamp(ds, objective, plan)
             = IF B = {} THEN NoStamp ELSE ds[CHOOSE i \in B : \A j \in B : j <= i]
    BY DEF LatestReadyStamp, Stamps
  <2> HIDE DEF cs, ds, n
  <2>7. A \subseteq 1..n /\ B \subseteq 1..(n + 1) /\ A = B \cap 1..n
    BY <2>3, <2>4, <2>5 DEF Stamps
  <2>8. A # {}
    BY <2>6 DEF cs
  <2> HIDE DEF A, B
  <2>9. CASE n + 1 \in B
    <3>1. \A j \in B : j <= n + 1
      BY <2>3, <2>7
    <3>2. (CHOOSE i \in B : \A j \in B : j <= i) = n + 1
      <4>1. \A i \in B : (\A j \in B : j <= i) => i = n + 1
        BY <2>3, <2>7, <2>9, <3>1
      <4> QED
        BY <2>9, <3>1, <4>1
    <3>3. n + 1 \in Kept(ds)
      BY <2>9 DEF B, Stamps
    <3> QED
      BY <2>3, <2>4, <2>6, <2>9, <3>2, <3>3 DEF cs, ds
  <2>10. CASE n + 1 \notin B
    <3>1. B = A
      <4>1. \A i \in 1..(n + 1) : i = n + 1 \/ i \in 1..n
        BY <2>3
      <4> QED
        BY <2>7, <2>10, <4>1
    <3>2. (CHOOSE i \in A : \A j \in A : j <= i) \in A
      <4>1. \E i \in A : \A j \in A : j <= i
        BY <2>3, <2>7, <2>8, LastExists
      <4> QED
        BY <4>1
    <3> QED
      BY <2>3, <2>6, <2>7, <2>8, <3>1, <3>2 DEF cs, ds
  <2> QED
    BY <2>9, <2>10
<1> QED
  BY <1>1, StreamStaysTyped, PTL DEF StreamSpec

-----------------------------------------------------------------------------
(* The events. *)

\* The six fields of an event, and nothing else.
Fields(e) == [id |-> e.id, role |-> e.role, kind |-> e.kind,
              lineage |-> e.lineage, text |-> e.text, carrier |-> "active"]

LEMMA RecordFields ==
    ASSUME NEW o, NEW r, NEW n, NEW e, e = Record(o, r, n)
    PROVE  /\ e.id = o /\ e.role = r /\ e.text = n /\ e.carrier = "active"
           /\ r = "prepared" => e.kind = "sync" /\ e.lineage = Lineage
           /\ e = Fields(e)
  BY DEF Record, Fields

LEMMA StampFields ==
    ASSUME NEW h
    PROVE  LET e == StampOf(h)
           IN  /\ e.id = <<"head", h>> /\ e.role = "stamp" /\ e.text = 0
               /\ e.carrier = "active" /\ e.kind = "plan" /\ e.lineage = Lineage
               /\ e = Fields(e)
  BY DEF StampOf, Fields

LEMMA NoEventFields ==
    /\ NoEvent.id = <<"head", "none">> /\ NoEvent.role = "none" /\ NoEvent.text = 0
    /\ NoEvent = Fields(NoEvent)
  BY DEF NoEvent, StampOf, Fields

LEMMA EventFields ==
    ASSUME MaxCalls \in Nat, NEW e \in Events
    PROVE  /\ e = Fields(e)
           /\ e.carrier = "active" /\ e.text \in Texts
           /\ e.role \in {"prepared", "stamp", "none"} \cup Terminal
           /\ e.role \in {"prepared", "stamp"} => e.lineage = Lineage
<1>0. 0 \in Texts
  BY DEF Texts
<1>1. ASSUME NEW o \in Ops, NEW r \in {"prepared"} \cup Terminal, NEW n \in Texts,
             e = Record(o, r, n)
      PROVE  /\ e = Fields(e)
             /\ e.carrier = "active" /\ e.text \in Texts /\ e.role = r
             /\ e.role = "prepared" => e.lineage = Lineage
  BY <1>1, RecordFields
<1>2. ASSUME NEW h \in Heads, e = StampOf(h)
      PROVE  /\ e = Fields(e)
             /\ e.carrier = "active" /\ e.text \in Texts /\ e.role = "stamp"
             /\ e.lineage = Lineage
  BY <1>0, <1>2, StampFields
<1>3. ASSUME e = NoEvent
      PROVE  /\ e = Fields(e)
             /\ e.carrier = "active" /\ e.text \in Texts /\ e.role = "none"
  <2>1. NoEvent.carrier = "active"
    BY DEF NoEvent, StampOf
  <2> QED
    BY <1>0, <1>3, <2>1, NoEventFields
<1>4. \/ \E o \in Ops, r \in {"prepared"} \cup Terminal, n \in Texts : e = Record(o, r, n)
      \/ \E h \in Heads : e = StampOf(h)
      \/ e = NoEvent
  BY DEF Events
<1>5. CASE \E o \in Ops, r \in {"prepared"} \cup Terminal, n \in Texts : e = Record(o, r, n)
  BY <1>1, <1>5 DEF Terminal
<1>6. CASE \E h \in Heads : e = StampOf(h)
  BY <1>2, <1>6
<1>7. CASE e = NoEvent
  BY <1>3, <1>7
<1> QED
  BY <1>4, <1>5, <1>6, <1>7

\* The rescan compares canonical payloads: that is identity here.
LEMMA SamePayload ==
    ASSUME MaxCalls \in Nat, NEW c \in Events, NEW d \in Events,
           CanonicalPayload(c) = CanonicalPayload(d)
    PROVE  c = d
<1>1. Key(c) = Key(d) /\ c.kind = d.kind /\ c.lineage = d.lineage /\ c.text = d.text
  BY DEF CanonicalPayload
<1>2. c.role = d.role /\ c.id = d.id
  BY <1>1, KeyNames
<1>3. /\ c = Fields(c)
      /\ d = Fields(d)
  BY EventFields
<1> QED
  BY <1>1, <1>2, <1>3 DEF Fields

\* A stamp is named by its key alone.
LEMMA SameStamp ==
    ASSUME MaxCalls \in Nat, NEW c \in Events, NEW h \in Heads, Key(c) = Key(StampOf(h))
    PROVE  c = StampOf(h)
<1>1. c.role = "stamp" /\ c.id = <<"head", h>>
  BY KeyNames, StampFields
<1>2. CASE \E o \in Ops, r \in {"prepared"} \cup Terminal, n \in Texts : c = Record(o, r, n)
  BY <1>1, <1>2, RecordFields DEF Terminal
<1>3. CASE \E g \in Heads : c = StampOf(g)
  <2>1. PICK g \in Heads : c = StampOf(g)
    BY <1>3
  <2>2. c.id = <<"head", g>>
    BY <2>1, StampFields
  <2>3. g = h
    BY <1>1, <2>2
  <2> QED
    BY <2>1, <2>3
<1>4. CASE c = NoEvent
  BY <1>1, <1>4, NoEventFields
<1> QED
  BY <1>2, <1>3, <1>4 DEF Events

-----------------------------------------------------------------------------
(* Types and the retry budget. *)

\* A call sends at most two requests and starts the next one with none.
Budget == \A w \in Writers : /\ pc[w] = "idle" => tries[w] = 0
                             /\ pc[w] = "post" => tries[w] < Attempts

Typed == TypeOK /\ Budget

S == Range(carrier)

\* What the gate of a call saw when it let the event pass.
Clear(e) ==
    /\ ~ FoldRaises(carrier, Lineage)
    /\ \/ /\ e.role = "prepared" /\ e.id \notin Having(S, {"prepared"})
          /\ UnresolvedIn(S) = {}
       \/ /\ e.role \in Terminal /\ e.id \in Having(S, {"prepared"})
          /\ e.id \notin Having(S, Terminal)
       \/ e.role = "stamp" /\ \A c \in S : Key(c) # Key(e)

Retry(w) == /\ pc[w] = "scan" /\ tries[w] # Attempts
            /\ pc' = [pc EXCEPT ![w] = "post"]
            /\ UNCHANGED <<carrier, wire, ev, tries, result, calls>>

\* What a step can be, whatever call it belongs to.
Refused == \E w \in Writers, e \in Events, r \in {"existed", "unresolved", "corrupt"} :
              /\ pc[w] = "idle" /\ calls' = calls + 1
              /\ Refuse(w, e, r)
              /\ r = "existed" => e \in S
Admitted == \E w \in Writers, e \in Events :
              /\ pc[w] = "idle" /\ calls' = calls + 1
              /\ Admit(w, e) /\ Clear(e)
Finished == \E w \in Writers, r \in {"ok", "corrupt", "ambiguous", "crashed"} :
              /\ pc[w] # "idle"
              /\ pc[w] = "sent" => Late \/ \A m \in wire : m.by # w
              /\ Finish(w, r)
              /\ r = "ok" => ev[w] \in S

LEMMA CarrierTyped ==
    ASSUME Typed
    PROVE  /\ carrier \in Seq(Events) /\ S \subseteq Events
           /\ \A roles : OpsWith(carrier, roles) = Having(S, roles)
           /\ Unresolved(carrier) = UnresolvedIn(S)
           /\ FoldRaises(carrier, Lineage) <=> ~ Coherent(S, Lineage)
<1>1. carrier \in Seq(Events)
  BY DEF Typed, TypeOK
<1>2. S \subseteq Events
  BY <1>1 DEF S, Range
<1> QED
  BY <1>1, <1>2, FoldReadsTheSet, OpsWithIsHaving DEF S

LEMMA CalledTyped ==
    ASSUME MaxCalls \in Nat, Typed, NEW w \in Writers, NEW n, Called(w, n)
    PROVE  pc[w] = "idle" /\ n \in Texts /\ calls' = calls + 1
<1>1. ev[w] \in Events /\ calls \in Nat
  BY DEF Typed, TypeOK
<1>2. ev[w].text \in Texts
  BY <1>1, EventFields
<1> QED
  BY <1>1, <1>2 DEF Called, Stampable, Texts

LEMMA RecordTyped ==
    ASSUME NEW o \in Ops, NEW r \in {"prepared"} \cup Terminal, NEW n \in Texts
    PROVE  Record(o, r, n) \in Events
  BY DEF Events

LEMMA PreparedStep ==
    ASSUME MaxCalls \in Nat, Typed, NEW w \in Writers, NEW k \in 1..MaxOps, NEW n,
           AppendPrepared(w, <<w, k>>, n)
    PROVE  Refused \/ Admitted
<1> DEFINE o == <<w, k>>
           e == Record(o, "prepared", n)
<1>1. pc[w] = "idle" /\ n \in Texts /\ calls' = calls + 1
  BY CalledTyped DEF AppendPrepared
<1>2. e \in Events /\ e.id = o /\ e.role = "prepared"
  BY <1>1, RecordTyped, RecordFields DEF Ops
<1>3. \/ Refuse(w, e, "corrupt")
      \/ Refuse(w, e, "existed") /\ e \in S
      \/ Refuse(w, e, "unresolved")
      \/ /\ Admit(w, e) /\ ~ FoldRaises(carrier, Lineage)
         /\ o \notin OpsWith(carrier, {"prepared"}) /\ Unresolved(carrier) = {}
  BY DEF AppendPrepared, S
<1> HIDE DEF e
<1>4. CASE /\ Admit(w, e) /\ ~ FoldRaises(carrier, Lineage)
           /\ o \notin OpsWith(carrier, {"prepared"}) /\ Unresolved(carrier) = {}
  <2>1. Clear(e)
    BY <1>2, <1>4, CarrierTyped DEF Clear
  <2> QED
    BY <1>1, <1>2, <1>4, <2>1 DEF Admitted
<1>5. CASE \/ Refuse(w, e, "corrupt")
           \/ Refuse(w, e, "existed") /\ e \in S
           \/ Refuse(w, e, "unresolved")
  BY <1>1, <1>2, <1>5 DEF Refused
<1> QED
  BY <1>3, <1>4, <1>5

LEMMA OutcomeStep ==
    ASSUME MaxCalls \in Nat, Typed, NEW w \in Writers, NEW o \in Ops, NEW r \in Terminal,
           NEW n, AppendOutcome(w, o, r, n)
    PROVE  Refused \/ Admitted
<1> DEFINE e == Record(o, r, n)
<1>1. pc[w] = "idle" /\ n \in Texts /\ calls' = calls + 1
  BY CalledTyped DEF AppendOutcome
<1>2. e \in Events /\ e.id = o /\ e.role = r
  <2>1. e \in Events
    BY <1>1, RecordTyped
  <2> QED
    BY <2>1, RecordFields
<1>3. \/ Refuse(w, e, "corrupt")
      \/ Refuse(w, e, "existed") /\ e \in S
      \/ /\ Admit(w, e) /\ ~ FoldRaises(carrier, Lineage)
         /\ o \in OpsWith(carrier, {"prepared"}) /\ o \notin OpsWith(carrier, Terminal)
  BY DEF AppendOutcome, S
<1> HIDE DEF e
<1>4. CASE /\ Admit(w, e) /\ ~ FoldRaises(carrier, Lineage)
           /\ o \in OpsWith(carrier, {"prepared"}) /\ o \notin OpsWith(carrier, Terminal)
  <2>1. Clear(e)
    BY <1>2, <1>4, CarrierTyped DEF Clear
  <2> QED
    BY <1>1, <1>2, <1>4, <2>1 DEF Admitted
<1>5. CASE Refuse(w, e, "corrupt") \/ (Refuse(w, e, "existed") /\ e \in S)
  BY <1>1, <1>2, <1>5 DEF Refused
<1> QED
  BY <1>3, <1>4, <1>5

LEMMA StampStep ==
    ASSUME MaxCalls \in Nat, Typed, NEW w \in Writers, NEW h \in Heads,
           AppendReadyStamp(w, h)
    PROVE  Refused \/ Admitted
<1> DEFINE e == StampOf(h)
<1>1. pc[w] = "idle" /\ calls' = calls + 1
  BY CalledTyped DEF AppendReadyStamp
<1>2. e \in Events /\ e.role = "stamp"
  BY StampFields DEF Events
<1>3. \/ Refuse(w, e, "corrupt")
      \/ Refuse(w, e, "existed") /\ Comments(Key(e)) # {}
      \/ Admit(w, e) /\ ~ FoldRaises(carrier, Lineage) /\ Comments(Key(e)) = {}
  BY DEF AppendReadyStamp
<1>4. CASE Refuse(w, e, "existed") /\ Comments(Key(e)) # {}
  <2>1. PICK c \in S : Key(c) = Key(e)
    BY <1>4 DEF Comments, S
  <2>2. c = e
    BY <2>1, CarrierTyped, SameStamp
  <2> QED
    BY <1>1, <1>2, <1>4, <2>1, <2>2 DEF Refused
<1>5. CASE Admit(w, e) /\ ~ FoldRaises(carrier, Lineage) /\ Comments(Key(e)) = {}
  <2>1. \A c \in S : Key(c) # Key(e)
    BY <1>5 DEF Comments, S
  <2>2. Clear(e)
    BY <1>2, <1>5, <2>1 DEF Clear
  <2> QED
    BY <1>1, <1>2, <1>5, <2>2 DEF Admitted
<1>6. CASE Refuse(w, e, "corrupt")
  BY <1>1, <1>2, <1>6 DEF Refused
<1> QED
  BY <1>3, <1>4, <1>5, <1>6

LEMMA RescanStep ==
    ASSUME MaxCalls \in Nat, Typed, NEW w \in Writers, Rescan(w)
    PROVE  Finished \/ Retry(w)
<1> DEFINE found == Comments(Key(ev[w]))
<1>1. pc[w] = "scan" /\ ev[w] \in Events
  BY DEF Rescan, Typed, TypeOK
<1>2. \/ Finish(w, "corrupt")
      \/ /\ Finish(w, "ok") /\ found # {}
         /\ \A c \in found : CanonicalPayload(c) = CanonicalPayload(ev[w])
      \/ Finish(w, "ambiguous")
      \/ Retry(w)
  BY DEF Rescan, Retry
<1>3. CASE /\ Finish(w, "ok") /\ found # {}
           /\ \A c \in found : CanonicalPayload(c) = CanonicalPayload(ev[w])
  <2>1. PICK c \in S : CanonicalPayload(c) = CanonicalPayload(ev[w])
    BY <1>3 DEF Comments, S
  <2>2. c = ev[w]
    BY <1>1, <2>1, CarrierTyped, SamePayload
  <2> QED
    BY <1>1, <1>3, <2>1, <2>2 DEF Finished
<1>4. CASE Finish(w, "corrupt") \/ Finish(w, "ambiguous")
  BY <1>1, <1>4 DEF Finished
<1> QED
  BY <1>2, <1>3, <1>4

LEMMA StepKinds ==
    ASSUME MaxCalls \in Nat, Typed, [Next]_vars
    PROVE  \/ Refused \/ Admitted \/ Finished
           \/ \E w \in Writers : Post(w) \/ PostReturns(w) \/ Retry(w)
           \/ \E m \in wire : Deliver(m) \/ Lose(m)
           \/ UNCHANGED vars
<1>1. ASSUME NEW w \in Writers, NEW n, NEW k \in 1..MaxOps, AppendPrepared(w, <<w, k>>, n)
      PROVE  Refused \/ Admitted
  BY <1>1, PreparedStep
<1>2. ASSUME NEW w \in Writers, NEW n, NEW o \in Ops, NEW r \in Terminal,
             AppendOutcome(w, o, r, n)
      PROVE  Refused \/ Admitted
  BY <1>2, OutcomeStep
<1>3. ASSUME NEW w \in Writers, NEW h \in Heads, AppendReadyStamp(w, h)
      PROVE  Refused \/ Admitted
  BY <1>3, StampStep
<1>4. ASSUME NEW w \in Writers, Rescan(w)
      PROVE  Finished \/ Retry(w)
  BY <1>4, RescanStep
<1>5. ASSUME NEW w \in Writers, RescanFails(w) \/ Crash(w)
      PROVE  Finished
  BY <1>5 DEF RescanFails, Crash, Finished
<1>6. CASE Next
  BY <1>1, <1>2, <1>3, <1>4, <1>5, <1>6, Zenon DEF Next
<1> QED
  BY <1>6

LEMMA TypedInit == Init => Typed
<1> SUFFICES ASSUME Init PROVE Typed
  OBVIOUS
<1>1. NoEvent \in Events
  BY DEF Events
<1> QED
  BY <1>1 DEF Init, Typed, TypeOK, Budget, Attempts, Results

LEMMA TypedStep ==
    ASSUME MaxCalls \in Nat, Typed, [Next]_vars
    PROVE  Typed'
<1>0. /\ carrier \in Seq(Events)
      /\ \A m \in wire : m.by \in Writers /\ m.n \in 1..Attempts /\ m.ev \in Events
      /\ pc \in [Writers -> {"idle", "post", "sent", "scan"}]
      /\ ev \in [Writers -> Events]
      /\ tries \in [Writers -> 0..Attempts]
      /\ result \in [Writers -> Results]
      /\ calls \in Nat
  BY DEF Typed, TypeOK
<1>b. \A w \in Writers : /\ pc[w] = "idle" => tries[w] = 0
                         /\ pc[w] = "post" => tries[w] < Attempts
  BY DEF Typed, Budget
<1>1. CASE Refused
  <2>1. PICK w \in Writers, e \in Events, r \in {"existed", "unresolved", "corrupt"} :
           calls' = calls + 1 /\ Refuse(w, e, r)
    BY <1>1 DEF Refused
  <2>2. r \in Results
    BY DEF Results
  <2> QED
    BY <1>0, <1>b, <2>1, <2>2 DEF Refuse, Typed, TypeOK, Budget
<1>2. CASE Admitted
  <2>1. PICK w \in Writers, e \in Events :
           pc[w] = "idle" /\ calls' = calls + 1 /\ Admit(w, e)
    BY <1>2 DEF Admitted
  <2> QED
    BY <1>0, <1>b, <2>1 DEF Admit, Typed, TypeOK, Budget, Attempts
<1>3. CASE Finished
  <2>1. PICK w \in Writers, r \in {"ok", "corrupt", "ambiguous", "crashed"} : Finish(w, r)
    BY <1>3 DEF Finished
  <2>2. r \in Results /\ 0 \in 0..Attempts
    BY DEF Results, Attempts
  <2> QED
    BY <1>0, <1>b, <2>1, <2>2 DEF Finish, Typed, TypeOK, Budget
<1>4. ASSUME NEW w \in Writers, Post(w) PROVE Typed'
  <2>1. tries[w] + 1 \in 1..Attempts /\ tries[w] + 1 \in 0..Attempts
    BY <1>0, <1>b, <1>4 DEF Post, Attempts
  <2>2. \A m \in wire' : m.by \in Writers /\ m.n \in 1..Attempts /\ m.ev \in Events
    BY <1>0, <1>4, <2>1 DEF Post
  <2>3. /\ pc' \in [Writers -> {"idle", "post", "sent", "scan"}]
        /\ tries' \in [Writers -> 0..Attempts]
        /\ UNCHANGED <<carrier, ev, result, calls>>
    BY <1>0, <1>4, <2>1 DEF Post
  <2>4. Budget'
    BY <1>0, <1>b, <1>4 DEF Post, Budget
  <2> QED
    BY <1>0, <2>2, <2>3, <2>4 DEF Typed, TypeOK
<1>5. ASSUME NEW w \in Writers, PostReturns(w) PROVE Typed'
  BY <1>0, <1>b, <1>5 DEF PostReturns, Typed, TypeOK, Budget
<1>6. ASSUME NEW w \in Writers, Retry(w) PROVE Typed'
  BY <1>0, <1>b, <1>6 DEF Retry, Typed, TypeOK, Budget, Attempts
<1>7. ASSUME NEW m \in wire, Deliver(m) PROVE Typed'
  <2>1. carrier' \in Seq(Events)
    BY <1>0, <1>7 DEF Deliver
  <2> QED
    BY <1>0, <1>b, <1>7, <2>1 DEF Deliver, Typed, TypeOK, Budget
<1>8. ASSUME NEW m \in wire, Lose(m) PROVE Typed'
  BY <1>0, <1>b, <1>8 DEF Lose, Typed, TypeOK, Budget
<1>9. CASE UNCHANGED vars
  BY <1>9 DEF vars, Typed, TypeOK, Budget
<1> QED
  BY <1>1, <1>2, <1>3, <1>4, <1>5, <1>6, <1>7, <1>8, <1>9, StepKinds

\* The protocol's state keeps its types, and no append ever sends a third request
\* (the loop of _post_and_verify).
THEOREM SpecTyped == ASSUME MaxCalls \in Nat PROVE Spec => []Typed
<1>1. Typed /\ [Next]_vars => Typed'
  BY TypedStep
<1> QED
  BY <1>1, TypedInit, PTL DEF Spec

-----------------------------------------------------------------------------
(* The append loop implements AppendLog. *)

Log == INSTANCE AppendLog WITH log     <- Range(carrier),
                               pending <- Outstanding,
                               offer   <- ev,
                               answer  <- Told

LEMMA ToldIs ==
    ASSUME Typed, NEW w \in Writers
    PROVE  /\ pc[w] # "idle" => Told[w] = "working"
           /\ pc[w] = "idle" => Told[w] \in {"none", "ok", "unknown"}
           /\ pc[w] = "idle" /\ result[w] = "none" => Told[w] = "none"
           /\ pc[w] = "idle" /\ result[w] \in {"ok", "existed"} => Told[w] = "ok"
           /\ pc[w] = "idle" /\ result[w] \notin {"none", "ok", "existed"}
                 => Told[w] = "unknown"
  BY DEF Told

\* Who is told what depends on a writer's own pc and result alone.
LEMMA ToldElsewhere ==
    ASSUME Typed, Typed', NEW w \in Writers, pc'[w] = pc[w],
           pc[w] # "idle" \/ result'[w] = result[w]
    PROVE  Told'[w] = Told[w]
  BY DEF Told

LEMMA ToldExcept ==
    ASSUME Typed, Typed', NEW w \in Writers,
           \A v \in Writers : v # w => pc'[v] = pc[v] /\ result'[v] = result[v],
           NEW a, Told'[w] = a
    PROVE  Told' = [Told EXCEPT ![w] = a]
<1>1. Told = [v \in Writers |-> Told[v]] /\ Told' = [v \in Writers |-> Told'[v]]
  BY DEF Told
<1>2. \A v \in Writers : v # w => Told'[v] = Told[v]
  BY ToldElsewhere
<1> QED
  BY <1>1, <1>2

LEMMA OutstandingTyped ==
    ASSUME Typed
    PROVE  Outstanding \subseteq Events
<1>1. \A w \in Writers : ev[w] \in Events
  BY DEF Typed, TypeOK
<1>2. \A m \in wire : m.ev \in Events
  BY DEF Typed, TypeOK
<1> QED
  BY <1>1, <1>2 DEF Outstanding

LEMMA LandsInLog ==
    ASSUME Typed, NEW m \in wire, Deliver(m)
    PROVE  /\ Range(carrier') = Range(carrier) \cup {m.ev}
           /\ m.ev \in Outstanding /\ m.ev \in Events
           /\ Outstanding' \in {Outstanding, Outstanding \ {m.ev}}
<1>1. carrier \in Seq(Events) /\ m.ev \in Events
  BY DEF Typed, TypeOK
<1>2. Range(carrier') = Range(carrier) \cup {m.ev}
  BY <1>1, RangeAppend DEF Deliver
<1>3. m.ev \in Outstanding
  BY DEF Outstanding
<1>4. Outstanding' \subseteq Outstanding /\ Outstanding \ {m.ev} \subseteq Outstanding'
  BY DEF Deliver, Outstanding
<1> QED
  BY <1>1, <1>2, <1>3, <1>4

LEMMA LogInit == Init => Log!Init
<1> SUFFICES ASSUME Init PROVE Log!Init
  OBVIOUS
<1>1. Typed
  BY TypedInit
<1>2. Range(carrier) = {}
  BY DEF Init, Range
<1>3. Outstanding = {}
  BY DEF Init, Outstanding
<1>4. Told = [w \in Writers |-> "none"]
  BY DEF Init, Told
<1>5. ev \in [Writers -> Events]
  BY <1>1 DEF Typed, TypeOK
<1> QED
  BY <1>2, <1>3, <1>4, <1>5 DEF Log!Init

LEMMA RefusedIsDecline ==
    ASSUME MaxCalls \in Nat, Typed, Typed', Refused
    PROVE  Log!Next
<1>1. PICK w \in Writers, e \in Events, r \in {"existed", "unresolved", "corrupt"} :
         pc[w] = "idle" /\ Refuse(w, e, r) /\ (r = "existed" => e \in S)
  BY DEF Refused
<1> DEFINE a == IF r = "existed" THEN "ok" ELSE "unknown"
<1>2. /\ ev' = [ev EXCEPT ![w] = e] /\ carrier' = carrier /\ wire' = wire /\ pc' = pc
      /\ result' = [result EXCEPT ![w] = r]
  BY <1>1 DEF Refuse
<1>3. Told[w] # "working" /\ Told'[w] = a
  <2>1. result'[w] = r /\ pc'[w] = "idle"
    BY <1>1, <1>2 DEF Typed, TypeOK
  <2>2. Told[w] # "working"
    BY <1>1, ToldIs
  <2> QED
    BY <2>1, <2>2 DEF Told
<1>4. Told' = [Told EXCEPT ![w] = a]
  <2>1. \A v \in Writers : v # w => pc'[v] = pc[v] /\ result'[v] = result[v]
    BY <1>2 DEF Typed, TypeOK
  <2> QED
    BY <1>3, <2>1, ToldExcept
<1>5. Outstanding' = Outstanding
  BY <1>1, <1>2 DEF Outstanding, Typed, TypeOK
<1>6. a = "ok" => e \in Range(carrier)
  BY <1>1 DEF S
<1>7. Log!Decline(w, e, a)
  BY <1>2, <1>3, <1>4, <1>5, <1>6 DEF Log!Decline
<1> QED
  BY <1>7 DEF Log!Next

LEMMA AdmittedIsOffer ==
    ASSUME MaxCalls \in Nat, Typed, Typed', Admitted
    PROVE  Log!Next
<1>1. PICK w \in Writers, e \in Events : pc[w] = "idle" /\ Admit(w, e)
  BY DEF Admitted
<1>2. /\ ev' = [ev EXCEPT ![w] = e] /\ carrier' = carrier /\ wire' = wire
      /\ pc' = [pc EXCEPT ![w] = "post"] /\ result' = result
  BY <1>1 DEF Admit
<1>3. ev \in [Writers -> Events] /\ pc \in [Writers -> {"idle", "post", "sent", "scan"}]
  BY DEF Typed, TypeOK
<1>4. Told[w] # "working" /\ Told'[w] = "working"
  <2>1. pc'[w] = "post"
    BY <1>2, <1>3
  <2>2. Told[w] # "working"
    BY <1>1, ToldIs
  <2> QED
    BY <2>1, <2>2 DEF Told
<1>5. Told' = [Told EXCEPT ![w] = "working"]
  <2>1. \A v \in Writers : v # w => pc'[v] = pc[v] /\ result'[v] = result[v]
    BY <1>2, <1>3
  <2> QED
    BY <1>4, <2>1, ToldExcept
<1>6. Outstanding' = Outstanding \cup {e}
  <2>1. /\ pc'[w] = "post" /\ ev'[w] = e
        /\ \A v \in Writers : v # w => pc'[v] = pc[v] /\ ev'[v] = ev[v]
    BY <1>2, <1>3
  <2>2. {ev'[v] : v \in {u \in Writers : pc'[u] # "idle"}}
           = {ev[v] : v \in {u \in Writers : pc[u] # "idle"}} \cup {e}
    BY <1>1, <2>1
  <2> QED
    BY <1>2, <2>2 DEF Outstanding
<1>7. Log!Offer(w, e)
  BY <1>2, <1>4, <1>5, <1>6 DEF Log!Offer
<1> QED
  BY <1>7 DEF Log!Next

LEMMA FinishedIsAnswer ==
    ASSUME MaxCalls \in Nat, Typed, Typed', Finished
    PROVE  Log!Next
<1>1. PICK w \in Writers, r \in {"ok", "corrupt", "ambiguous", "crashed"} :
         pc[w] # "idle" /\ Finish(w, r) /\ (r = "ok" => ev[w] \in S)
  BY DEF Finished
<1> DEFINE a == IF r = "ok" THEN "ok" ELSE "unknown"
<1>2. /\ ev' = ev /\ carrier' = carrier /\ wire' = wire
      /\ pc' = [pc EXCEPT ![w] = "idle"] /\ result' = [result EXCEPT ![w] = r]
  BY <1>1 DEF Finish
<1>3. pc \in [Writers -> {"idle", "post", "sent", "scan"}] /\ result \in [Writers -> Results]
  BY DEF Typed, TypeOK
<1>4. Told[w] = "working" /\ Told'[w] = a
  <2>1. pc'[w] = "idle" /\ result'[w] = r
    BY <1>2, <1>3
  <2>2. Told[w] = "working"
    BY <1>1, ToldIs
  <2> QED
    BY <2>1, <2>2 DEF Told
<1>5. Told' = [Told EXCEPT ![w] = a]
  <2>1. \A v \in Writers : v # w => pc'[v] = pc[v] /\ result'[v] = result[v]
    BY <1>2, <1>3
  <2> QED
    BY <1>4, <2>1, ToldExcept
<1>6. Outstanding' \in {Outstanding, Outstanding \ {ev[w]}}
  <2>1. \A v \in Writers : pc'[v] # "idle" <=> (pc[v] # "idle" /\ v # w)
    BY <1>2, <1>3
  <2>2. Outstanding' \subseteq Outstanding /\ Outstanding \ {ev[w]} \subseteq Outstanding'
    BY <1>2, <2>1 DEF Outstanding
  <2> QED
    BY <2>2
<1>7. a = "ok" => ev[w] \in Range(carrier)
  BY <1>1 DEF S
<1>8. Log!Answer(w, a)
  BY <1>2, <1>4, <1>5, <1>6, <1>7 DEF Log!Answer
<1> QED
  BY <1>8 DEF Log!Next

\* A step that neither starts nor ends a call, nor lets a request land, is at most
\* the loss of an offered event.
LEMMA QuietIsDrop ==
    ASSUME Typed, Typed', carrier' = carrier, ev' = ev, Told' = Told,
           NEW e \in Events, Outstanding' \in {Outstanding, Outstanding \ {e}}
    PROVE  Log!Next \/ UNCHANGED Log!vars
<1>1. CASE Outstanding' = Outstanding
  BY <1>1 DEF Log!vars
<1>2. CASE Outstanding' # Outstanding
  <2>1. e \in Outstanding /\ Outstanding' = Outstanding \ {e}
    BY <1>2
  <2>2. Log!Drop(e)
    BY <2>1 DEF Log!Drop
  <2> QED
    BY <2>2 DEF Log!Next
<1> QED
  BY <1>1, <1>2

LEMMA BusyStaysBusy ==
    ASSUME Typed, Typed', NEW w \in Writers, pc[w] # "idle", NEW q, q # "idle",
           pc' = [pc EXCEPT ![w] = q], result' = result
    PROVE  /\ Told' = Told
           /\ \A v \in Writers : pc'[v] # "idle" <=> pc[v] # "idle"
<1>1. pc \in [Writers -> {"idle", "post", "sent", "scan"}]
  BY DEF Typed, TypeOK
<1>2. \A v \in Writers : (v # w => pc'[v] = pc[v]) /\ (pc'[v] # "idle" <=> pc[v] # "idle")
  BY <1>1
<1>3. \A v \in Writers : Told'[v] = Told[v]
  <2>1. ASSUME NEW v \in Writers, v # w PROVE Told'[v] = Told[v]
    BY <1>2, <2>1, ToldElsewhere
  <2>2. Told'[w] = Told[w]
    BY <1>2 DEF Told
  <2> QED
    BY <2>1, <2>2
<1>4. Told = [v \in Writers |-> Told[v]] /\ Told' = [v \in Writers |-> Told'[v]]
  BY DEF Told
<1> QED
  BY <1>2, <1>3, <1>4

LEMMA LogStep ==
    ASSUME MaxCalls \in Nat, Typed, [Next]_vars
    PROVE  Log!Next \/ UNCHANGED Log!vars
<1>0. Typed'
  BY TypedStep
<1>1. CASE Refused
  BY <1>0, <1>1, RefusedIsDecline
<1>2. CASE Admitted
  BY <1>0, <1>2, AdmittedIsOffer
<1>3. CASE Finished
  BY <1>0, <1>3, FinishedIsAnswer
<1>4. ASSUME NEW w \in Writers, Post(w) PROVE Log!Next \/ UNCHANGED Log!vars
  <2>1. Told' = Told /\ \A v \in Writers : pc'[v] # "idle" <=> pc[v] # "idle"
    BY <1>0, <1>4, BusyStaysBusy DEF Post
  <2>2. Outstanding' = Outstanding
    <3>1. /\ pc[w] # "idle" /\ ev' = ev
          /\ wire' = wire \cup {[by |-> w, n |-> tries[w] + 1, ev |-> ev[w]]}
      BY <1>4 DEF Post
    <3>2. {m.ev : m \in wire'} = {m.ev : m \in wire} \cup {ev[w]}
      <4> DEFINE x == [by |-> w, n |-> tries[w] + 1, ev |-> ev[w]]
      <4>1. x.ev = ev[w] /\ wire' = wire \cup {x}
        BY <3>1
      <4> HIDE DEF x
      <4> QED
        BY <4>1
    <3>3. {ev'[v] : v \in {u \in Writers : pc'[u] # "idle"}}
             = {ev[v] : v \in {u \in Writers : pc[u] # "idle"}}
      BY <2>1, <3>1
    <3>4. ev[w] \in {ev[v] : v \in {u \in Writers : pc[u] # "idle"}}
      BY <3>1
    <3> QED
      BY <3>2, <3>3, <3>4 DEF Outstanding
  <2> QED
    BY <1>4, <2>1, <2>2 DEF Post, Log!vars
<1>5. ASSUME NEW w \in Writers, PostReturns(w) \/ Retry(w)
      PROVE  Log!Next \/ UNCHANGED Log!vars
  <2>1. Told' = Told /\ \A v \in Writers : pc'[v] # "idle" <=> pc[v] # "idle"
    <3>1. /\ pc[w] # "idle" /\ result' = result
          /\ pc' = [pc EXCEPT ![w] = "scan"] \/ pc' = [pc EXCEPT ![w] = "post"]
      BY <1>5 DEF PostReturns, Retry
    <3>2. CASE pc' = [pc EXCEPT ![w] = "scan"]
      BY <1>0, <3>1, <3>2, BusyStaysBusy
    <3>3. CASE pc' = [pc EXCEPT ![w] = "post"]
      BY <1>0, <3>1, <3>3, BusyStaysBusy
    <3> QED
      BY <3>1, <3>2, <3>3
  <2>2. carrier' = carrier /\ ev' = ev /\ wire' = wire
    BY <1>5 DEF PostReturns, Retry
  <2>3. Outstanding' = Outstanding
    BY <2>1, <2>2 DEF Outstanding
  <2> QED
    BY <2>1, <2>2, <2>3 DEF Log!vars
<1>6. ASSUME NEW m \in wire, Deliver(m) PROVE Log!Next
  <2>1. Told' = Told /\ ev' = ev
    BY <1>6 DEF Deliver, Told
  <2>2. Log!Land(m.ev) /\ m.ev \in Events
    BY <1>6, <2>1, LandsInLog DEF Log!Land
  <2> QED
    BY <2>2 DEF Log!Next
<1>7. ASSUME NEW m \in wire, Lose(m) PROVE Log!Next \/ UNCHANGED Log!vars
  <2>1. Told' = Told /\ ev' = ev /\ carrier' = carrier
    BY <1>7 DEF Lose, Told
  <2>2. Outstanding' \subseteq Outstanding /\ Outstanding \ {m.ev} \subseteq Outstanding'
    BY <1>7 DEF Lose, Outstanding
  <2>3. m.ev \in Events
    BY DEF Typed, TypeOK
  <2>4. Outstanding' \in {Outstanding, Outstanding \ {m.ev}}
    BY <2>2
  <2> QED
    BY <1>0, <2>1, <2>3, <2>4, QuietIsDrop
<1>8. CASE UNCHANGED vars
  BY <1>8 DEF vars, Log!vars, Outstanding, Told
<1> QED
  BY <1>1, <1>2, <1>3, <1>4, <1>5, <1>6, <1>7, <1>8, StepKinds

\* Whatever the issue backend does with a request, the append loop implements
\* AppendLog: no event is twice in the folded log, "ok" is only said of an event that
\* is durably there, and an unanswered request may still land.
THEOREM AppendsAsPromised ==
    ASSUME MaxCalls \in Nat
    PROVE  Spec => Log!Init /\ [][Log!Next]_(Log!vars)
<1>1. Typed /\ [Next]_vars => [Log!Next]_(Log!vars)
  BY LogStep
<1> QED
  BY <1>1, LogInit, SpecTyped, PTL DEF Spec

-----------------------------------------------------------------------------
(* No outcome is read without its prepared record. *)

\* An outcome that is in the log or may still land has its prepared record in the
\* log already: append_outcome looked it up before the first POST.
Founded == \A e \in S \cup Outstanding :
               e.role \in Terminal => e.id \in Having(S, {"prepared"})

LEMMA HavingGrows ==
    ASSUME NEW A, NEW B, A \subseteq B, NEW roles
    PROVE  Having(A, roles) \subseteq Having(B, roles)
  BY DEF Having

\* What a step does to the log and to what may still land.
LEMMA LogGrows ==
    ASSUME MaxCalls \in Nat, Typed, [Next]_vars
    PROVE  \/ S' = S /\ Outstanding' \subseteq Outstanding
           \/ /\ S' = S
              /\ \E e \in Events : Clear(e) /\ Outstanding' \subseteq Outstanding \cup {e}
           \/ \E e \in Outstanding : S' = S \cup {e} /\ Outstanding' \subseteq Outstanding
<1>0. pc \in [Writers -> {"idle", "post", "sent", "scan"}] /\ ev \in [Writers -> Events]
  BY DEF Typed, TypeOK
<1>1. CASE Refused
  <2>1. PICK w \in Writers, e \in Events, r \in {"existed", "unresolved", "corrupt"} :
           pc[w] = "idle" /\ Refuse(w, e, r)
    BY <1>1 DEF Refused
  <2> QED
    BY <1>0, <2>1 DEF Refuse, S, Outstanding
<1>2. CASE Admitted
  <2>1. PICK w \in Writers, e \in Events : pc[w] = "idle" /\ Admit(w, e) /\ Clear(e)
    BY <1>2 DEF Admitted
  <2>2. /\ carrier' = carrier /\ wire' = wire
        /\ \A v \in Writers : ev'[v] = IF v = w THEN e ELSE ev[v]
        /\ \A v \in Writers : v # w => pc'[v] = pc[v]
    BY <1>0, <2>1 DEF Admit
  <2>3. Outstanding' \subseteq Outstanding \cup {e}
    BY <2>2 DEF Outstanding
  <2> QED
    BY <2>1, <2>2, <2>3 DEF S
<1>3. CASE Finished
  <2>1. PICK w \in Writers, r \in {"ok", "corrupt", "ambiguous", "crashed"} : Finish(w, r)
    BY <1>3 DEF Finished
  <2>2. /\ carrier' = carrier /\ wire' = wire /\ ev' = ev
        /\ \A v \in Writers : pc'[v] # "idle" => pc[v] # "idle"
    BY <1>0, <2>1 DEF Finish
  <2> QED
    BY <2>2 DEF S, Outstanding
<1>4. ASSUME NEW w \in Writers, Post(w)
      PROVE  S' = S /\ Outstanding' \subseteq Outstanding
  <2> DEFINE x == [by |-> w, n |-> tries[w] + 1, ev |-> ev[w]]
  <2>1. /\ x.ev = ev[w] /\ wire' = wire \cup {x} /\ carrier' = carrier /\ ev' = ev
        /\ pc[w] # "idle"
        /\ \A v \in Writers : pc'[v] # "idle" => pc[v] # "idle"
    BY <1>0, <1>4 DEF Post
  <2> HIDE DEF x
  <2> QED
    BY <2>1 DEF S, Outstanding
<1>5. ASSUME NEW w \in Writers, PostReturns(w) \/ Retry(w)
      PROVE  S' = S /\ Outstanding' \subseteq Outstanding
  <2>1. /\ wire' = wire /\ carrier' = carrier /\ ev' = ev
        /\ \A v \in Writers : pc'[v] # "idle" => pc[v] # "idle"
    BY <1>0, <1>5 DEF PostReturns, Retry
  <2> QED
    BY <2>1 DEF S, Outstanding
<1>6. ASSUME NEW m \in wire, Deliver(m)
      PROVE  \E e \in Outstanding : S' = S \cup {e} /\ Outstanding' \subseteq Outstanding
  BY <1>6, LandsInLog DEF S
<1>7. ASSUME NEW m \in wire, Lose(m)
      PROVE  S' = S /\ Outstanding' \subseteq Outstanding
  BY <1>7 DEF Lose, S, Outstanding
<1>8. CASE UNCHANGED vars
  BY <1>8 DEF vars, S, Outstanding
<1> QED
  BY <1>1, <1>2, <1>3, <1>4, <1>5, <1>6, <1>7, <1>8, StepKinds

LEMMA FoundedStep ==
    ASSUME MaxCalls \in Nat, Typed, Founded, [Next]_vars
    PROVE  Founded'
<1> SUFFICES ASSUME NEW e \in S' \cup Outstanding', e.role \in Terminal
             PROVE  e.id \in Having(S', {"prepared"})
  BY DEF Founded
<1>1. S \subseteq S'
  BY LogGrows
<1>2. Having(S, {"prepared"}) \subseteq Having(S', {"prepared"})
  BY <1>1, HavingGrows
<1>3. e \in S \cup Outstanding \/ Clear(e)
  BY LogGrows
<1>4. CASE e \in S \cup Outstanding
  BY <1>2, <1>4 DEF Founded
<1>5. CASE Clear(e)
  <2>1. e.id \in Having(S, {"prepared"})
    BY <1>5 DEF Clear, Terminal
  <2> QED
    BY <1>2, <2>1
<1> QED
  BY <1>3, <1>4, <1>5

LEMMA FoundedInit == Init => Founded
  BY DEF Init, Founded, S, Outstanding, Range

LEMMA FoundedRaces ==
    ASSUME MaxCalls \in Nat, Typed, Founded
    PROVE  OnlyRacesCorrupt
<1>0. /\ S \subseteq Events
      /\ \A roles : OpsWith(carrier, roles) = Having(S, roles)
  BY CarrierTyped
<1>1. \A i \in Kept(carrier) : carrier[i] \in S
  BY KeptInDomain DEF Range, S
<1>2. \A e \in S : /\ e.role \in {"prepared", "stamp", "none"} \cup Terminal
                   /\ e.role \in {"prepared", "stamp"} => e.lineage = Lineage
  BY <1>0, EventFields
<1>3. Having(S, {"accepted"}) = {}
  BY <1>2 DEF Having, Terminal
<1>4. ~ OrphanOutcome(carrier)
  <2>1. Having(S, Terminal \cup {"accepted"}) \subseteq Having(S, {"prepared"})
    <3>1. \A e \in S : e.role \in Terminal \cup {"accepted"}
                          => e.id \in Having(S, {"prepared"})
      BY <1>2 DEF Founded, Terminal
    <3> QED
      BY <3>1 DEF Having
  <2> QED
    BY <1>0, <2>1 DEF OrphanOutcome
<1>5. ~ AcceptedOffLand(carrier)
  BY <1>0, <1>3 DEF AcceptedOffLand
<1>6. ~ ForeignOperation(carrier, Lineage)
  BY <1>1, <1>2 DEF ForeignOperation, Lineages, Lineage, NoLineage
<1>7. ~ ForeignStamp(carrier, Lineage)
  BY <1>1, <1>2 DEF ForeignStamp, IsStamp, Lineage, NoLineage
<1> QED
  BY <1>4, <1>5, <1>6, <1>7 DEF OnlyRacesCorrupt, FoldRaises

\* Whatever is lost, late, repeated or raced between any number of writers, a reader
\* never meets an outcome without its prepared record; a journal this protocol writes
\* is corrupt only by a conflicting duplicate or a second outcome.
THEOREM OutcomesAreFounded ==
    ASSUME MaxCalls \in Nat
    PROVE  Spec => []OnlyRacesCorrupt
<1>1. Typed /\ Founded /\ [Next]_vars => Founded'
  BY FoundedStep
<1>2. Typed /\ Founded => OnlyRacesCorrupt
  BY FoundedRaces
<1> QED
  BY <1>1, <1>2, FoundedInit, SpecTyped, PTL DEF Spec

-----------------------------------------------------------------------------
(* One writer whose requests die with it. *)

\* Only one process of the lineage appends, and the operating system closes its
\* connection when it stops.
SoleWriter == (\A v, w \in Writers : v = w) /\ ~ Late

\* A request is in flight only while its call waits for it.
Alone == /\ \A w \in Writers : pc[w] # "sent" => wire = {}
         /\ \A m \in wire : m.ev = ev[m.by]

\* Comments that fold, with at most one unresolved operation.
Settled(cs) == /\ Coherent(cs, Lineage)
               /\ \A a, b \in UnresolvedIn(cs) : a = b

\* The log is settled, and stays so if the event that is on its way lands.
Single == Alone /\ Settled(S) /\ Settled(S \cup Outstanding)

\* An event that passed the gate of a settled log leaves it settled.
LEMMA ClearSettles ==
    ASSUME MaxCalls \in Nat, Typed, Settled(S), NEW e \in Events, Clear(e)
    PROVE  Settled(S \cup {e})
<1> DEFINE T == S \cup {e}
<1>1. /\ S \subseteq Events /\ T \subseteq Events
      /\ \A c \in T : /\ c.role \in {"prepared", "stamp", "none"} \cup Terminal
                      /\ c.role \in {"prepared", "stamp"} => c.lineage = Lineage
                      /\ c.carrier = "active"
  BY CarrierTyped, EventFields
<1>2. /\ \A c, d \in S : ~ Contradict(c, d)
      /\ Having(S, Terminal \cup {"accepted"}) \subseteq Having(S, {"prepared"})
      /\ \A a, b \in UnresolvedIn(S) : a = b
  BY DEF Settled, Coherent
<1>3. \/ /\ e.role = "prepared" /\ e.id \notin Having(S, {"prepared"})
         /\ UnresolvedIn(S) = {}
      \/ /\ e.role \in Terminal /\ e.id \in Having(S, {"prepared"})
         /\ e.id \notin Having(S, Terminal)
      \/ e.role = "stamp" /\ \A c \in S : Key(c) # Key(e)
  BY DEF Clear
<1>4. \A c \in S : Key(c) # Key(e)
  <2> SUFFICES ASSUME NEW c \in S, Key(c) = Key(e) PROVE FALSE
    OBVIOUS
  <2>1. c.role = e.role /\ c.id = e.id
    BY KeyNames
  <2> QED
    BY <1>3, <2>1 DEF Having
<1>5. ASSUME NEW c \in T, NEW d \in T, c.id = d.id, c.role \in Terminal, d.role \in Terminal
      PROVE  (c \in S /\ d \in S) \/ c = d
  <2>1. \A f \in S : f.role \in Terminal => f.id \in Having(S, Terminal)
    BY DEF Having
  <2>2. e.role \in Terminal => e.id \notin Having(S, Terminal)
    BY <1>3 DEF Terminal
  <2> QED
    BY <1>5, <2>1, <2>2
<1>6. ASSUME NEW c \in T, NEW d \in T PROVE ~ Contradict(c, d)
  <2>1. ~ (Key(c) = Key(d) /\ CanonicalPayload(c) # CanonicalPayload(d))
    <3>1. CASE c \in S /\ d \in S
      BY <1>2, <3>1 DEF Contradict
    <3>2. CASE c = e \/ d = e
      BY <1>4, <3>2
    <3> QED
      BY <3>1, <3>2
  <2>2. ~ (c.id = d.id /\ c.role = "completed" /\ d.role = "abandoned")
    <3> SUFFICES ASSUME c.id = d.id, c.role = "completed", d.role = "abandoned" PROVE FALSE
      OBVIOUS
    <3>1. c \in S /\ d \in S
      BY <1>5 DEF Terminal
    <3> QED
      BY <1>2, <3>1 DEF Contradict
  <2>3. c.carrier = d.carrier /\ d.role # "accepted"
    BY <1>1 DEF Terminal
  <2>4. c.role = "prepared" /\ d.role \in {"prepared", "stamp"} => c.lineage = d.lineage
    BY <1>1
  <2> QED
    BY <2>1, <2>2, <2>3, <2>4 DEF Contradict
<1>7. Having(T, Terminal \cup {"accepted"}) \subseteq Having(T, {"prepared"})
  <2>1. Having(S, {"prepared"}) \subseteq Having(T, {"prepared"})
    BY HavingGrows
  <2>2. \A c \in S : c.role \in Terminal \cup {"accepted"} => c.id \in Having(S, {"prepared"})
    BY <1>2 DEF Having
  <2>3. e.role \in Terminal \cup {"accepted"} => e.id \in Having(S, {"prepared"})
    BY <1>1, <1>3 DEF Terminal
  <2>4. \A c \in T : c.role \in Terminal \cup {"accepted"} => c.id \in Having(T, {"prepared"})
    BY <2>1, <2>2, <2>3
  <2> QED
    BY <2>4 DEF Having
<1>8. Coherent(T, Lineage)
  BY <1>1, <1>6, <1>7 DEF Coherent
<1>9. \A a, b \in UnresolvedIn(T) : a = b
  <2>1. Having(S, Terminal) \subseteq Having(T, Terminal)
    BY HavingGrows
  <2>2. CASE e.role = "prepared"
    <3>1. UnresolvedIn(S) = {}
      BY <1>3, <2>2 DEF Terminal
    <3>2. Having(T, {"prepared"}) = Having(S, {"prepared"}) \cup {e.id}
      BY <2>2 DEF Having
    <3>3. UnresolvedIn(T) \subseteq UnresolvedIn(S) \cup {e.id}
      BY <2>1, <3>2 DEF UnresolvedIn
    <3> QED
      BY <3>1, <3>3
  <2>3. CASE e.role # "prepared"
    <3>1. Having(T, {"prepared"}) = Having(S, {"prepared"})
      BY <2>3 DEF Having
    <3>2. UnresolvedIn(T) \subseteq UnresolvedIn(S)
      BY <2>1, <3>1 DEF UnresolvedIn
    <3> QED
      BY <1>2, <3>2
  <2> QED
    BY <2>2, <2>3
<1> QED
  BY <1>8, <1>9 DEF Settled

\* At most one event is on its way, before a step and after it.
LEMMA OneOutstanding ==
    ASSUME SoleWriter, Typed, Alone
    PROVE  \A x, y \in Outstanding : x = y
<1>1. \A v, w \in Writers : v = w
  BY DEF SoleWriter
<1>2. \A m \in wire : m.by \in Writers /\ m.ev = ev[m.by]
  BY DEF Alone, Typed, TypeOK
<1> QED
  BY <1>1, <1>2 DEF Outstanding

LEMMA OneOutstandingNext ==
    ASSUME SoleWriter, Typed', Alone'
    PROVE  \A x, y \in Outstanding' : x = y
<1>1. \A v, w \in Writers : v = w
  BY DEF SoleWriter
<1>2. \A m \in wire' : m.by \in Writers /\ m.ev = ev'[m.by]
  BY DEF Alone, Typed, TypeOK
<1> QED
  BY <1>1, <1>2 DEF Outstanding

LEMMA AloneStep ==
    ASSUME MaxCalls \in Nat, SoleWriter, Typed, Alone, [Next]_vars
    PROVE  Alone'
<1>0. /\ \A v, w \in Writers : v = w
      /\ ~ Late
      /\ pc \in [Writers -> {"idle", "post", "sent", "scan"}] /\ ev \in [Writers -> Events]
      /\ \A m \in wire : m.by \in Writers
  BY DEF SoleWriter, Typed, TypeOK
<1>1. CASE Refused
  <2>1. PICK w \in Writers, e \in Events, r \in {"existed", "unresolved", "corrupt"} :
           pc[w] = "idle" /\ Refuse(w, e, r)
    BY <1>1 DEF Refused
  <2>2. wire = {} /\ wire' = {} /\ pc' = pc
    BY <2>1 DEF Refuse, Alone
  <2> QED
    BY <2>2 DEF Alone
<1>2. CASE Admitted
  <2>1. PICK w \in Writers, e \in Events : pc[w] = "idle" /\ Admit(w, e)
    BY <1>2 DEF Admitted
  <2>2. wire = {} /\ wire' = {}
    BY <2>1 DEF Admit, Alone
  <2> QED
    BY <2>2 DEF Alone
<1>3. CASE Finished
  <2>1. PICK w \in Writers, r \in {"ok", "corrupt", "ambiguous", "crashed"} :
           /\ pc[w] = "sent" => Late \/ \A m \in wire : m.by # w
           /\ Finish(w, r)
    BY <1>3 DEF Finished
  <2>2. wire = {} /\ wire' = {}
    BY <1>0, <2>1 DEF Finish, Alone
  <2> QED
    BY <2>2 DEF Alone
<1>4. ASSUME NEW w \in Writers, Post(w) PROVE Alone'
  <2> DEFINE x == [by |-> w, n |-> tries[w] + 1, ev |-> ev[w]]
  <2>1. x.ev = ev[w] /\ x.by = w /\ wire' = wire \cup {x} /\ ev' = ev
        /\ pc' = [pc EXCEPT ![w] = "sent"] /\ wire = {}
    BY <1>4 DEF Post, Alone
  <2>2. \A v \in Writers : pc'[v] = "sent"
    BY <1>0, <2>1
  <2> HIDE DEF x
  <2>3. \A m \in wire' : m.ev = ev'[m.by]
    BY <2>1
  <2> QED
    BY <2>2, <2>3 DEF Alone
<1>5. ASSUME NEW w \in Writers, PostReturns(w) PROVE Alone'
  <2>1. wire = {} /\ wire' = {}
    BY <1>0, <1>5 DEF PostReturns
  <2> QED
    BY <2>1 DEF Alone
<1>6. ASSUME NEW w \in Writers, Retry(w) PROVE Alone'
  <2>1. wire = {} /\ wire' = {}
    BY <1>6 DEF Retry, Alone
  <2> QED
    BY <2>1 DEF Alone
<1>7. ASSUME NEW m \in wire, Deliver(m) \/ Lose(m) PROVE Alone'
  BY <1>7 DEF Deliver, Lose, Alone
<1>8. CASE UNCHANGED vars
  BY <1>8 DEF vars, Alone
<1> QED
  BY <1>1, <1>2, <1>3, <1>4, <1>5, <1>6, <1>7, <1>8, StepKinds

LEMMA SingleStep ==
    ASSUME MaxCalls \in Nat, SoleWriter, Typed, Single, [Next]_vars
    PROVE  Single'
<1>0. Alone' /\ Settled(S) /\ Settled(S \cup Outstanding)
  BY AloneStep DEF Single
<1>1. /\ \A x, y \in Outstanding : x = y
      /\ \A x, y \in Outstanding' : x = y
  BY <1>0, TypedStep, OneOutstanding, OneOutstandingNext DEF Single
<1>2. CASE S' = S /\ Outstanding' \subseteq Outstanding
  <2>1. S' \cup Outstanding' = S \/ S' \cup Outstanding' = S \cup Outstanding
    BY <1>1, <1>2
  <2> QED
    BY <1>0, <1>2, <2>1 DEF Single
<1>3. ASSUME NEW e \in Events, Clear(e), S' = S, Outstanding' \subseteq Outstanding \cup {e}
      PROVE  Single'
  <2>1. Settled(S \cup {e})
    BY <1>0, <1>3, ClearSettles
  <2>2. \/ S' \cup Outstanding' = S
        \/ S' \cup Outstanding' = S \cup {e}
        \/ S' \cup Outstanding' = S \cup Outstanding
    BY <1>1, <1>3
  <2> QED
    BY <1>0, <1>3, <2>1, <2>2 DEF Single
<1>4. ASSUME NEW e \in Outstanding, S' = S \cup {e}, Outstanding' \subseteq Outstanding
      PROVE  Single'
  <2>1. S' = S \cup Outstanding /\ S' \cup Outstanding' = S \cup Outstanding
    BY <1>1, <1>4
  <2> QED
    BY <1>0, <2>1 DEF Single
<1> QED
  BY <1>2, <1>3, <1>4, LogGrows

LEMMA SingleInit == Init => Single
<1> SUFFICES ASSUME Init PROVE Single
  OBVIOUS
<1>1. S = {} /\ Outstanding = {} /\ wire = {}
  BY DEF Init, S, Outstanding, Range
<1>2. Settled({})
  BY DEF Settled, Coherent, UnresolvedIn, Having
<1>3. S \cup Outstanding = {}
  BY <1>1
<1> QED
  BY <1>1, <1>2, <1>3 DEF Single, Alone

LEMMA SingleCoherent ==
    ASSUME Typed, Single
    PROVE  SoleWriterCoherent
<1>1. /\ ~ FoldRaises(carrier, Lineage)
      /\ Unresolved(carrier) = UnresolvedIn(S)
      /\ \A a, b \in UnresolvedIn(S) : a = b
  BY CarrierTyped DEF Single, Settled
<1>2. Cardinality(UnresolvedIn(S)) <= 1
  <2>1. CASE UnresolvedIn(S) = {}
    BY <2>1, FS_EmptySet
  <2>2. CASE UnresolvedIn(S) # {}
    <3>1. PICK a \in UnresolvedIn(S) : TRUE
      BY <2>2
    <3>2. UnresolvedIn(S) = {a}
      BY <1>1, <3>1
    <3> QED
      BY <3>2, FS_Singleton, SMTT(60)
  <2> QED
    BY <2>1, <2>2
<1> QED
  BY <1>1, <1>2 DEF SoleWriterCoherent

\* With one writer whose requests die with it, crashes, lost requests and retries
\* included, the journal always folds and holds at most one unresolved operation: the
\* gates of append_prepared and append_outcome are enough.
THEOREM OneWriterIsCoherent ==
    ASSUME MaxCalls \in Nat, SoleWriter
    PROVE  Spec => []SoleWriterCoherent
<1>1. Typed /\ Single /\ [Next]_vars => Single'
  BY SingleStep
<1>2. Typed /\ Single => SoleWriterCoherent
  BY SingleCoherent
<1> QED
  BY <1>1, <1>2, SingleInit, SpecTyped, PTL DEF Spec

\* Under the same conditions what persistence.py says of a lineage holds: one
\* unresolved operation at most.  With a second writer it does not (a run refutes it).
THEOREM OneWriterOneUnresolved ==
    ASSUME MaxCalls \in Nat, SoleWriter
    PROVE  Spec => []OneUnresolvedPerLineage
<1>1. SoleWriterCoherent => OneUnresolvedPerLineage
  BY DEF SoleWriterCoherent, OneUnresolvedPerLineage
<1> QED
  BY <1>1, OneWriterIsCoherent, PTL
=============================================================================
