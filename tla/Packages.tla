------------------------------ MODULE Packages ------------------------------
(***************************************************************************)
(* The package list of .pi/settings.json, as perk init and doctor --fix    *)
(* converge it (convergence/init/settings.py).  The file belongs to the    *)
(* user: perk adds, pins, filters, moves and removes entries of the        *)
(* identities it manages, and leaves the rest alone.                       *)
(*                                                                         *)
(* An entry is its identity, its version, whether it has the object form,  *)
(* and what else the object says: "own" settings of the user, all resource *)
(* filters "off", both, or nothing.  A string entry says nothing.          *)
(***************************************************************************)
EXTENDS Naturals, Sequences, SequencesExt

CONSTANTS MaxEdits   \* bound: entries the user puts in

VARIABLES packages, providers, backend, edits

vars == <<packages, providers, backend, edits>>

Desired == <<"perk", "subagents", "fff", "ponytail">>   \* in the order of the list
Pinned == {"perk", "subagents"}                         \* wanted with a version
Providers == {"web", "footer"}                          \* packages behind a choice
Consumers == {"subagents", "web"}                       \* read what perk registers
Managed == {Desired[i] : i \in DOMAIN Desired} \cup Providers \cup {"linear", "perk-git"}

Entry(id, ver, extra) == [id |-> id, ver |-> ver, extra |-> extra]
IsObject(e) == e.extra # "text"
Wanted(id) == Entry(id, IF id \in Pinned THEN "pin" ELSE "none", "text")

Entries ==
  {Entry(id, ver, x) : id \in Pinned, ver \in {"pin", "old"}, x \in {"text", "own"}}
  \cup {Entry("ponytail", "none", x) : x \in {"text", "own", "off", "own+off"}}
  \cup {Entry(id, "none", x) : id \in {"web", "linear"}, x \in {"text", "own"}}
  \cup {Entry("footer", "none", "own"), Entry("fff", "none", "text"),
        Entry("perk-git", "none", "text"), Entry("theirs", "old", "own")}

At(s, id) == {i \in DOMAIN s : s[i].id = id}
First(S) == CHOOSE i \in S : \A j \in S : i <= j

(* The entry that stays when there are several: the first object, else the first *)
Canonical(s, id) ==
  LET M == At(s, id)  O == {i \in M : IsObject(s[i])} IN First(IF O # {} THEN O ELSE M)

(* s with the canonical entry of id replaced by e and its duplicates dropped *)
Reconciled(s, id, e) ==
  LET c == Canonical(s, id)
      keep == SelectSeq([i \in DOMAIN s |-> i], LAMBDA i : s[i].id # id \/ i = c)
  IN  [k \in DOMAIN keep |-> IF keep[k] = c THEN e ELSE s[keep[k]]]

ReconcilePinned(s, want) ==
  Reconciled(s, want.id, [s[Canonical(s, want.id)] EXCEPT !.ver = want.ver])

MergeOne(s, want) ==
  IF At(s, want.id) = {} THEN Append(s, want)
  ELSE IF want.id \in Pinned THEN ReconcilePinned(s, want) ELSE s

MergeStatic(s) == FoldLeft(LAMBDA t, id : MergeOne(t, Wanted(id)), s, Desired)

Filtered(x) == IF x \in {"own", "own+off"} THEN "own+off" ELSE "off"
ReconcilePonytail(s) ==
  IF At(s, "ponytail") = {} THEN Append(s, Entry("ponytail", "none", "off"))
  ELSE LET e == s[Canonical(s, "ponytail")]
       IN  Reconciled(s, "ponytail", [e EXCEPT !.extra = Filtered(@)])

Without(s, ids) == SelectSeq(s, LAMBDA e : e.id \notin ids)
WithEach(s, ids, x) ==
  FoldLeft(LAMBDA t, id : IF At(t, id) = {} THEN Append(t, Entry(id, "none", x)) ELSE t,
           s, SetToSeq(ids))

ConvergeProviders(s) == WithEach(Without(s, Providers \ providers), providers, "obj")
ConvergeLinear(s) ==
  IF backend = "linear" THEN WithEach(s, {"linear"}, "text") ELSE Without(s, {"linear"})

(* perk's own entry moves before the first entry that consumes what it registers *)
OrderOwn(s) ==
  LET C == {i \in DOMAIN s : s[i].id \in Consumers}
      p == First(At(s, "perk"))  c == First(C)
  IN  IF C = {} \/ p <= c THEN s ELSE InsertAt(RemoveAt(s, p), c, s[p])

Converged(s) ==
  OrderOwn(ConvergeLinear(ConvergeProviders(ReconcilePonytail(
    MergeStatic(Without(s, {"perk-git"}))))))

Init ==
  /\ packages = <<>> /\ edits = 0
  /\ providers \in SUBSET Providers /\ backend \in {"github", "linear"}

(* The user edits the list: an entry put in anywhere, or taken out *)
Edit ==
  /\ edits < MaxEdits /\ edits' = edits + 1
  /\ \/ \E e \in Entries, i \in 1..Len(packages) + 1 :
          packages' = InsertAt(packages, i, e)
     \/ \E i \in DOMAIN packages : packages' = RemoveAt(packages, i)
  /\ UNCHANGED <<providers, backend>>

(* Another selection is committed in .perk/config.toml *)
Configure ==
  /\ edits < MaxEdits /\ edits' = edits + 1
  /\ providers' \in SUBSET Providers /\ backend' \in {"github", "linear"}
  /\ UNCHANGED packages

Converge == packages' = Converged(packages) /\ UNCHANGED <<providers, backend, edits>>

Next == Edit \/ Configure \/ Converge

(* What the user wrote: entries perk does not manage, and own settings inside those it keeps *)
Theirs(s) == SelectSeq(s, LAMBDA e : e.id \notin Managed)
Kept(id) == id \in {Desired[i] : i \in DOMAIN Desired} \cup providers
              \cup (IF backend = "linear" THEN {"linear"} ELSE {})
OwnsIn(s, id) == \E i \in At(s, id) : s[i].extra \in {"own", "own+off"}

(* Convergence of a hand-edited list keeps the user's entries in their order, and what the user
   set inside an entry that stays (settings.py: _converge_settings and the helpers it calls:
   which of several entries of one identity survives is decided in three places). *)
KeepsTheirs ==
  packages' # packages /\ edits' = edits =>
    /\ Theirs(packages') = Theirs(packages)
    /\ \A id \in Managed :
         Kept(id) /\ OwnsIn(packages, id) =>
           \A i \in At(packages', id) : Len(SelectSeq(packages, LAMBDA e : e.id = id)) = 1
                                          => OwnsIn(packages', id)

(* A converged list is a fixed point, perk's entry comes before its consumers, and an identity
   perk pins or filters is listed once (the drift check of doctor compares texts: a list that
   converged to something else the second time would never be healthy). *)
Settles ==
  edits' = edits =>
    /\ Converged(packages') = packages'
    /\ \A i \in At(packages', "perk"), j \in DOMAIN packages' :
         packages'[j].id \in Consumers => i < j
    /\ \A i, j \in DOMAIN packages' :
         packages'[i].id = packages'[j].id /\ packages'[i].id \in Pinned \cup {"ponytail"} => i = j
=============================================================================
