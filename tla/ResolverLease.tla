--------------------------- MODULE ResolverLease ---------------------------
(***************************************************************************)
(* The conflict-resolver claim on a retained synchronization               *)
(* (extension/substrate/resolverLease.ts): a lock directory beside the     *)
(* manifest, with a lease in it.  A claim whose holder died, whose         *)
(* operation was consumed, or whose lease never came is reclaimed by       *)
(* renaming the directory to a private name, judging it again there, and   *)
(* putting it back when it turns out to be somebody's.                     *)
(*                                                                         *)
(* Files move one system call at a time.  A rename of a directory onto one *)
(* that is empty replaces it.                                              *)
(***************************************************************************)
EXTENDS Naturals

CONSTANTS Sessions, MaxOps, MaxCalls

VARIABLES lock,    \* the lock directory
          stash,   \* stash[s]: the directory s has moved aside
          call,    \* call[s]: the acquisition or release s is in
          hold,    \* hold[s]: the claim s was told it has
          oper,    \* the operation that is retained now
          alive, ncall

vars == <<lock, stash, call, hold, oper, alive, ncall>>

Gone    == [dir |-> FALSE, lease |-> {}, young |-> FALSE]
Lease(s, o, t) == [pid |-> s, op |-> o, tok |-> t]
Idle    == [pc |-> "idle", op |-> 0, seen |-> {}]
NoClaim == [op |-> 0, tok |-> <<"none", 0>>]

\* What an earlier session that died may have left: nothing, its lease, or a
\* directory it had not written to.
Left == { Gone, [dir |-> TRUE, lease |-> {Lease("dead", 1, <<"dead", 0>>)}, young |-> TRUE],
          [dir |-> TRUE, lease |-> {}, young |-> TRUE] }

Init == /\ lock \in Left /\ stash = [s \in Sessions |-> Gone]
        /\ call = [s \in Sessions |-> Idle] /\ hold = [s \in Sessions |-> NoClaim]
        /\ oper = 1 /\ alive = Sessions /\ ncall = 0

At(s, pc)   == s \in alive /\ call[s].pc = pc
Goto(s, pc) == call' = [call EXCEPT ![s].pc = pc]
Done(s)     == call' = [call EXCEPT ![s] = Idle]
Token(s)    == <<s, ncall>>

Acquire(s) == /\ At(s, "idle") /\ ncall < MaxCalls /\ ncall' = ncall + 1
              /\ call' = [call EXCEPT ![s] = [Idle EXCEPT !.pc = "make", !.op = oper]]
              /\ UNCHANGED <<lock, stash, hold, oper, alive>>

\* tryFreshAcquire: the directory is made, or is there already ...
Make(s, first) ==
    /\ At(s, IF first THEN "make" ELSE "retry")
    /\ IF lock.dir
       THEN /\ IF first THEN Goto(s, "read") ELSE Done(s)     \* a lost retry is busy
            /\ UNCHANGED lock
       ELSE lock' = [Gone EXCEPT !.dir = TRUE, !.young = TRUE] /\ Goto(s, "write")
    /\ stash' = IF first THEN stash ELSE [stash EXCEPT ![s] = Gone]
    /\ UNCHANGED <<hold, oper, alive, ncall>>

\* ... and the lease is written, whoever's directory is there by now; the first
\* write of a claim removes the directory when it fails.
Write(s, again) ==
    /\ At(s, IF again THEN "rewrite" ELSE "write")
    /\ IF lock.dir
       THEN /\ lock' = [dir |-> TRUE, young |-> TRUE,
                        lease |-> {Lease(s, call[s].op, Token(s))}]
            /\ hold' = [hold EXCEPT ![s] = [op |-> call[s].op, tok |-> Token(s)]]
            /\ Done(s)
       ELSE /\ IF again THEN Done(s) ELSE Goto(s, "cleanup")
            /\ UNCHANGED <<lock, hold>>
    /\ UNCHANGED <<stash, oper, alive, ncall>>
Cleanup(s) == /\ At(s, "cleanup") /\ lock' = Gone /\ Done(s)
              /\ UNCHANGED <<stash, hold, oper, alive, ncall>>

\* The holder that was read: a claim of the same process is taken again; a live
\* one on the same operation, or a young directory without a lease, is busy.
Busy(s) == IF lock.lease # {}
           THEN \E l \in lock.lease : l.pid \in alive /\ l.op = call[s].op
           ELSE lock.dir /\ lock.young
Read(s) ==
    /\ At(s, "read")
    /\ IF \E l \in lock.lease : l.pid = s THEN Goto(s, "rewrite")
       ELSE IF Busy(s) THEN Done(s)
       ELSE call' = [call EXCEPT ![s].pc = "reclaim", ![s].seen = lock.lease]
    /\ UNCHANGED <<lock, stash, hold, oper, alive, ncall>>

\* Quarantine; a competitor may have been first.
Reclaim(s) ==
    /\ At(s, "reclaim")
    /\ stash' = [stash EXCEPT ![s] = lock] /\ lock' = Gone
    /\ Goto(s, IF lock.dir THEN "rejudge" ELSE "retry")
    /\ UNCHANGED <<hold, oper, alive, ncall>>

\* Mutant of Taken: what was moved aside is not judged again.
TakenForStale(s) == FALSE

\* A claim that changed since it was judged and is alive, or a directory that is
\* somebody's who has not written yet.
Taken(s) == IF stash[s].lease # {}
            THEN stash[s].lease # call[s].seen /\ \E l \in stash[s].lease : l.pid \in alive
            ELSE stash[s].young
Rejudge(s) == /\ At(s, "rejudge") /\ Goto(s, IF Taken(s) THEN "restore" ELSE "retry")
              /\ UNCHANGED <<lock, stash, hold, oper, alive, ncall>>

\* Put back, unless the name was retaken by a directory with something in it.
Restore(s) == /\ At(s, "restore") /\ Done(s)
              /\ lock' = IF lock.lease = {} THEN stash[s] ELSE lock
              /\ stash' = [stash EXCEPT ![s] = Gone]
              /\ UNCHANGED <<hold, oper, alive, ncall>>

\* releaseResolverClaim: moved aside, compared, and removed or put back.
Release(s) == /\ At(s, "idle") /\ hold[s].op # 0 /\ Goto(s, IF lock.dir THEN "verify" ELSE "idle")
              /\ stash' = [stash EXCEPT ![s] = lock] /\ lock' = Gone
              /\ hold' = [hold EXCEPT ![s] = IF lock.dir THEN [@ EXCEPT !.op = 0] ELSE NoClaim]
              /\ UNCHANGED <<oper, alive, ncall>>
Verify(s) == /\ At(s, "verify")
             /\ IF \E l \in stash[s].lease : l.tok = hold[s].tok
                THEN Done(s) /\ stash' = [stash EXCEPT ![s] = Gone]
                ELSE Goto(s, "restore") /\ UNCHANGED stash
             /\ hold' = [hold EXCEPT ![s] = NoClaim]
             /\ UNCHANGED <<lock, oper, alive, ncall>>

\* The continuation finishes and another conflict is retained.
Consume == /\ oper < MaxOps /\ oper' = oper + 1
           /\ UNCHANGED <<lock, stash, call, hold, alive, ncall>>

\* RECLAIM_GRACE_MS goes by; no session is that slow between making the directory
\* and writing the lease.
Age == /\ lock.young /\ \A s \in alive : call[s].pc # "write"
       /\ lock' = [lock EXCEPT !.young = FALSE]
       /\ UNCHANGED <<stash, call, hold, oper, alive, ncall>>

Die(s) == /\ s \in alive /\ alive' = alive \ {s}
          /\ UNCHANGED <<lock, stash, call, hold, oper, ncall>>

Next == \/ \E s \in Sessions :
              \/ Acquire(s) \/ \E first \in BOOLEAN : Make(s, first)
              \/ \E again \in BOOLEAN : Write(s, again)
              \/ Cleanup(s) \/ Read(s) \/ Reclaim(s) \/ Rejudge(s) \/ Restore(s)
              \/ Release(s) \/ Verify(s) \/ Die(s)
        \/ Consume \/ Age

Spec == Init /\ [][Next]_vars

-----------------------------------------------------------------------------
\* Two live sessions never both hold the claim on one operation
\* (resolverLease.ts: "a raced-in claim is NEVER stolen").
OneClaimant == \A s, t \in alive : hold[s].op # 0 /\ hold[s].op = hold[t].op => s = t
=============================================================================
