----------------------------- MODULE AppendLog -----------------------------
(***************************************************************************)
(* What a journal append promises its caller, whatever the issue backend   *)
(* does with the request: an event is in the log once or not at all, "ok"  *)
(* is only ever said of an event that is durably in the log, and every     *)
(* call gets an answer.  An unanswered or failed request may still land    *)
(* later: "unknown" is not "absent".                                       *)
(***************************************************************************)
CONSTANTS Writers, Events

VARIABLES log,      \* the events readers see
          pending,  \* events that were offered and may still land
          offer,    \* offer[w]: the event of w's current or last call
          answer    \* answer[w]: "none", "working", "ok" or "unknown"

vars == <<log, pending, offer, answer>>

Init == /\ log = {}
        /\ pending = {}
        /\ offer \in [Writers -> Events]
        /\ answer = [w \in Writers |-> "none"]

\* A call that changes nothing: refused, or idempotently satisfied.
Decline(w, e, a) == /\ answer[w] # "working"
                    /\ a = "ok" => e \in log
                    /\ offer' = [offer EXCEPT ![w] = e]
                    /\ answer' = [answer EXCEPT ![w] = a]
                    /\ UNCHANGED <<log, pending>>

Offer(w, e) == /\ answer[w] # "working"
               /\ offer' = [offer EXCEPT ![w] = e]
               /\ answer' = [answer EXCEPT ![w] = "working"]
               /\ pending' = pending \cup {e}
               /\ UNCHANGED log

Land(e) == /\ e \in pending
           /\ log' = log \cup {e}
           /\ pending' \in {pending, pending \ {e}}
           /\ UNCHANGED <<offer, answer>>

Drop(e) == /\ e \in pending
           /\ pending' = pending \ {e}
           /\ UNCHANGED <<log, offer, answer>>

Answer(w, a) == /\ answer[w] = "working"
                /\ a = "ok" => offer[w] \in log
                /\ answer' = [answer EXCEPT ![w] = a]
                /\ pending' \in {pending, pending \ {offer[w]}}
                /\ UNCHANGED <<log, offer>>

Next == \/ \E e \in Events : Land(e) \/ Drop(e)
        \/ \E w \in Writers, e \in Events :
               Offer(w, e) \/ Decline(w, e, "ok") \/ Decline(w, e, "unknown")
        \/ \E w \in Writers : Answer(w, "ok") \/ Answer(w, "unknown")

Answered(w) == Answer(w, "ok") \/ Answer(w, "unknown")

Spec == /\ Init /\ [][Next]_vars
        /\ \A w \in Writers : WF_vars(Answered(w))
=============================================================================
