--------------------------- MODULE JournalStream ---------------------------
(***************************************************************************)
(* The comment stream of a lineage as an environment for the fold: any     *)
(* process of any machine posts a perk-marked comment, and a person with   *)
(* access to the issue may delete one.  The gates that a well-behaved      *)
(* writer passes first are those of TrainPersistence; here the fold is     *)
(* held against every stream, since it is the reader's only defence.       *)
(***************************************************************************)
EXTENDS JournalFold

CONSTANTS Catalogue,    \* the comments that may be posted
          Expected,     \* the delivery_lineage the active objective stores
          MaxComments   \* bound: comments on the carriers

VARIABLE comments

StreamInit == comments = << >>

PostComment(c) == /\ Len(comments) < MaxComments
                  /\ comments' = Append(comments, c)

DeleteComment(i) == comments' = [j \in 1..(Len(comments) - 1) |->
                                    IF j < i THEN comments[j] ELSE comments[j + 1]]

StreamNext == \/ \E c \in Catalogue : PostComment(c)
              \/ \E i \in DOMAIN comments : DeleteComment(i)

StreamSpec == StreamInit /\ [][StreamNext]_comments

-----------------------------------------------------------------------------
(***************************************************************************)
(* fold_events sorts, dedupes first-wins and then groups by role, yet its  *)
(* verdict and its unresolved operations depend only on which comments     *)
(* exist: not on their order, nor on how often a retried POST repeated     *)
(* one.  Both lineage modes (stored, or inferred from the operations).     *)
(***************************************************************************)
FoldIsOrderFree ==
    \A expected \in {Expected, NoLineage} :
        /\ FoldRaises(comments, expected) <=> ~ Coherent(Range(comments), expected)
        /\ ~ FoldRaises(comments, expected) =>
               Unresolved(comments) = UnresolvedIn(Range(comments))

(***************************************************************************)
(* A conclusion is final for every reader: while comments are only added,  *)
(* an operation the fold reported resolved is never reported unresolved    *)
(* again, nor with the other outcome; a later contradiction makes the fold *)
(* raise instead.                                                          *)
(***************************************************************************)
ResolvedIsFinal ==
    /\ Len(comments') > Len(comments)
    /\ ~ FoldRaises(comments, Expected)
    /\ ~ FoldRaises(comments', Expected)
    => \A o \in OpsWith(comments, Terminal), r \in Terminal :
           o \in OpsWith(comments, {r}) <=> o \in OpsWith(comments', {r})

(***************************************************************************)
(* Failing closed is permanent for a contradiction: nothing a writer can   *)
(* append repairs a conflicting duplicate or a second outcome (only an     *)
(* orphan outcome heals, when its late prepared record lands).             *)
(***************************************************************************)
ContradictionIsPermanent ==
    /\ Len(comments') > Len(comments)
    /\ FoldRaises(comments, Expected)
    /\ ~ OrphanOutcome(comments)
    => FoldRaises(comments', Expected)

(***************************************************************************)
(* A stamp only ever projects under the identity it names, and dedupe      *)
(* never lets a repeated stamp overtake a newer one: the head reported for *)
(* a plan is the last head that was stamped for the first time.            *)
(***************************************************************************)
RestampNeverOvertakes ==
    \A objective \in {c.text : c \in Catalogue}, plan \in {c.kind : c \in Catalogue} :
       LET new == comments'[Len(comments')]
           old == LatestReadyStamp(comments, objective, plan)
       IN  Len(comments') > Len(comments) /\ old # NoStamp
           => \/ LatestReadyStamp(comments', objective, plan) = old
              \/ /\ LatestReadyStamp(comments', objective, plan) = new
                 /\ new \notin Range(comments)
=============================================================================
