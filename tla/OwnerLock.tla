----------------------------- MODULE OwnerLock -----------------------------
(***************************************************************************)
(* The owner lock of a durable store (pi/v2/store/ownerLock.ts): a         *)
(* directory owner/<epoch> per acquisition, created by renaming a complete *)
(* temporary directory onto the name, and a released marker in it.  The    *)
(* highest epoch is free once it is released or its holder is dead; no     *)
(* epoch is ever deleted.                                                  *)
(*                                                                         *)
(* A process is one incarnation of a pid: its start time tells it from a   *)
(* later process with the same pid.  A rename onto a directory that is     *)
(* there fails, and a process runs one acquisition at a time and keeps at  *)
(* most one claim it has not released.                                     *)
(***************************************************************************)
EXTENDS Naturals

CONSTANTS Procs, None,
          Sees,      \* <<p, q>>: p can tell that q is dead (same host, start time known)
          MaxEpoch   \* bound: acquisitions in a behaviour

OwnerLockAssumption == /\ None \notin Procs
                       /\ MaxEpoch \in Nat

Rounds == 3          \* ACQUIRE_ROUNDS

VARIABLES top,       \* the highest epoch; 1..top exist
          owner,     \* owner[e]: the process meta.json of epoch e names
          released,  \* the epochs with a released marker
          alive,     \* processes that have not died
          pc,        \* pc[p]: "idle", "list", "judge", "rename", "held" or "releasing"
          view,      \* view[p]: the highest epoch p listed, or the one it holds
          lost       \* lost[p]: renames lost in this call

vars == <<top, owner, released, alive, pc, view, lost>>

Epochs == 1..MaxEpoch

Init == /\ top = 0 /\ released = {} /\ alive = Procs
        /\ owner = [e \in Epochs |-> None]
        /\ pc = [p \in Procs |-> "idle"]
        /\ view = [p \in Procs |-> 0]
        /\ lost = [p \in Procs |-> 0]

At(p, here) == p \in alive /\ pc[p] = here
Goto(p, there) == pc' = [pc EXCEPT ![p] = there]

Acquire(p) == /\ At(p, "idle") /\ Goto(p, "list")
              /\ lost' = [lost EXCEPT ![p] = 0]
              /\ UNCHANGED <<top, owner, released, alive, view>>

\* highestEpoch: the directory is listed.
List(p) == /\ At(p, "list") /\ Goto(p, "judge")
           /\ view' = [view EXCEPT ![p] = top]
           /\ UNCHANGED <<top, owner, released, alive, lost>>

Dead(p, e) == owner[e] \notin alive /\ <<p, owner[e]>> \in Sees

\* Mutant of IsFree: an owner on another host counts as dead.
IsFreeUnseen(p, e) == e \in released \/ ~ (<<p, owner[e]>> \in Sees) \/ Dead(p, e)

\* isFree: released, or its holder is provably dead; whatever cannot be told
\* counts as a live holder.
IsFree(p, e) == e \in released \/ Dead(p, e)

\* The verdict on the epoch that was listed; the answer is owner_busy or a rename.
Judge(p) == /\ At(p, "judge")
            /\ Goto(p, IF view[p] = 0 \/ IsFree(p, view[p]) THEN "rename" ELSE "idle")
            /\ UNCHANGED <<top, owner, released, alive, view, lost>>

\* The rename creates the next epoch, or loses to whoever created it first.
Create(p) == /\ At(p, "rename") /\ view[p] = top /\ top < MaxEpoch
             /\ top' = top + 1
             /\ owner' = [owner EXCEPT ![top + 1] = p]
             /\ view' = [view EXCEPT ![p] = top + 1]
             /\ Goto(p, "held")
             /\ UNCHANGED <<released, alive, lost>>

\* Mutant of Lose: the loser takes the epoch it lost for its own.
LoseHeld(p) == /\ At(p, "rename") /\ view[p] # top
               /\ owner' = [owner EXCEPT ![view[p] + 1] = p]
               /\ view' = [view EXCEPT ![p] = @ + 1]
               /\ Goto(p, "held")
               /\ UNCHANGED <<top, released, alive, lost>>

Lose(p) == /\ At(p, "rename") /\ view[p] # top
           /\ lost' = [lost EXCEPT ![p] = @ + 1]
           /\ Goto(p, IF lost[p] + 1 = Rounds THEN "idle" ELSE "list")
           /\ UNCHANGED <<top, owner, released, alive, view>>

\* release: the nonce is compared, the marker written aside, then renamed.
StartRelease(p) == /\ At(p, "held")
                   /\ Goto(p, IF owner[view[p]] = p THEN "releasing" ELSE "idle")
                   /\ UNCHANGED <<top, owner, released, alive, view, lost>>

MarkReleased(p) == /\ At(p, "releasing") /\ Goto(p, "idle")
                   /\ released' = released \cup {view[p]}
                   /\ UNCHANGED <<top, owner, alive, view, lost>>

Die(p) == /\ p \in alive /\ alive' = alive \ {p}
          /\ UNCHANGED <<top, owner, released, pc, view, lost>>

Next == \E p \in Procs : \/ Acquire(p) \/ List(p) \/ Judge(p) \/ Create(p) \/ Lose(p)
                         \/ StartRelease(p) \/ MarkReleased(p) \/ Die(p)

Spec == Init /\ [][Next]_vars

-----------------------------------------------------------------------------
TypeOK == /\ top \in 0..MaxEpoch
          /\ owner \in [Epochs -> Procs \cup {None}]
          /\ released \subseteq 1..top
          /\ alive \subseteq Procs
          /\ pc \in [Procs -> {"idle", "list", "judge", "rename", "held", "releasing"}]
          /\ view \in [Procs -> 0..top]
          /\ lost \in [Procs -> 0..Rounds]

\* An epoch is over once it was released or its owner died, for good.
Over(e) == e \in released \/ owner[e] \notin alive

\* A process believes it holds the store from the rename to the marker.
Believes(p) == p \in alive /\ pc[p] \in {"held", "releasing"}

\* However late a rename lands after the listing and the verdict it rests on, no
\* two live processes believe at once that they hold the store
\* (ownerLock.ts: "exactly one contender creates each epoch").
OneOwner == \A p, q \in Procs : Believes(p) /\ Believes(q) => p = q

\* The strengthening: every epoch below the highest is over, a verdict that an
\* epoch is free stays true, and what a process believes is its own epoch.
Inductive ==
    /\ TypeOK
    /\ \A e \in 1..top : owner[e] \in Procs
    /\ \A e \in 1..top : e < top => Over(e)
    /\ \A p \in Procs : /\ pc[p] \in {"list", "judge", "rename"} => lost[p] < Rounds
                        /\ pc[p] = "rename" /\ view[p] # 0 => Over(view[p])
                        /\ pc[p] \in {"held", "releasing"} =>
                              /\ view[p] \in 1..top /\ view[p] \notin released
                              /\ owner[view[p]] = p

\* The lock implements ClaimSpec, where the holder is the owner of the highest
\* epoch until that is over.
Holder == IF top = 0 \/ Over(top) THEN None ELSE owner[top]
Claim == INSTANCE ClaimSpec WITH holder <- Holder
ImplementsClaim == Claim!Spec
=============================================================================
