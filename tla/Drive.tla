------------------------------- MODULE Drive -------------------------------
(***************************************************************************)
(* The remote drive of one plan: `perk objective run` looks for an active  *)
(* run, reads the plan and dispatches the stage it is due for; GitHub      *)
(* Actions queues the run, cancels an older one of the same plan and       *)
(* starts a worker, which opens the pull request or answers its review;    *)
(* people list, cancel and retry runs, review, merge and close.  Before a  *)
(* synchronization rewrites branches it asks whether a run is writing.     *)
(*                                                                         *)
(* A run is in the listing only some time after its request was accepted.  *)
(* The listing is asked for one status at a time.                          *)
(***************************************************************************)
EXTENDS Naturals, FiniteSets

CONSTANTS Supers,      \* the shells in which somebody runs `perk objective run`
          MaxRuns,     \* bound: runs dispatched
          MaxTurns,    \* bound: times a run is queued (one retry less)
          MaxFaults    \* bound: crashes, lost answers, unavailable listings, failed drives

VARIABLES pr,          \* "none", "draft", "open", "changes", "merged" or "closed"
          linked,      \* the plan header names the pull request
          run,         \* run[r]: what Actions knows of the run
          rec,         \* rec[r]: the local dispatch record
          sup,         \* sup[s]: the pass s is in
          gate,        \* the writer observation of a synchronization
          faults

vars == <<pr, linked, run, rec, sup, gate, faults>>

Runs   == 1..MaxRuns
NoRun  == [st |-> "none", stage |-> "none", turn |-> 0, step |-> "none"]
Pass   == [pc |-> "idle", rid |-> 0, stage |-> "none", calm |-> TRUE]
NoGate == [pc |-> "idle", self |-> 0, live |-> {}, found |-> FALSE]

Init == /\ pr = "none" /\ linked = FALSE /\ run = [r \in Runs |-> NoRun]
        /\ rec = [r \in Runs |-> "none"]
        /\ sup = [s \in Supers |-> Pass] /\ gate = NoGate /\ faults = 0

Listed(st) == {r \in Runs : run[r].st = st}
Active     == {r \in Runs : run[r].st \in {"unlisted", "queued", "running"}}
Fault      == faults < MaxFaults /\ faults' = faults + 1
Go(s, pc)  == sup' = [sup EXCEPT ![s].pc = pc]

-----------------------------------------------------------------------------
(* Actions: one run of a plan goes on at a time, a newer one cancels it.    *)
-----------------------------------------------------------------------------
Cancelled(r) == [run[r] EXCEPT !.st = "done", !.step = "none"]

\* The passes that have looked already cannot know of a run that is queued now.
Stir == sup' = [s \in Supers |-> IF sup[s].pc = "idle" THEN Pass
                                 ELSE [sup[s] EXCEPT !.calm = FALSE]]

Queue(r) == run' = [q \in Runs |-> IF q = r THEN [run[r] EXCEPT !.st = "queued", !.step = "none",
                                                               !.turn = @ + 1]
                                   ELSE IF run[q].st \in {"queued", "running"} THEN Cancelled(q)
                                   ELSE run[q]]

Appear(r) == /\ run[r].st = "unlisted" /\ Queue(r) /\ Stir
             /\ UNCHANGED <<pr, linked, rec, gate, faults>>

Start(r) == /\ run[r].st = "queued" /\ Listed("running") = {}
            /\ run' = [run EXCEPT ![r].st = "running", ![r].step = "position"]
            /\ UNCHANGED <<pr, linked, rec, sup, gate, faults>>

-----------------------------------------------------------------------------
(* run_worker: position and drive, then report.  What it reports on the     *)
(* plan issue is best effort and nobody reads it back: left out.            *)
-----------------------------------------------------------------------------
Step(r, from, to) == /\ run[r].st = "running" /\ run[r].step = from
                     /\ run' = [run EXCEPT ![r].step = to]

\* _pr_submit_impl: a closed pull request of the branch is reopened as it was, a
\* merged one is refused, an open one is kept.
Submitted == CASE pr = "none"   -> {"draft"}
               [] pr = "closed" -> {"draft", "open"}
               [] OTHER         -> {pr}

Answered  == IF pr = "changes" THEN "open" ELSE pr

\* The worker answers its stage, or fails, or runs out of time.
Work(r) == \/ /\ pr' \in (IF run[r].stage = "implement" THEN Submitted ELSE {Answered})
              /\ Step(r, "position", IF run[r].stage = "implement" /\ pr # "merged"
                                     THEN "link" ELSE "report")
              /\ UNCHANGED <<linked, rec, sup, gate, faults>>
           \/ /\ Fault /\ Step(r, "position", "report")
              /\ UNCHANGED <<pr, linked, rec, sup, gate>>

\* update_plan_header comes last; a run that is cancelled before leaves a pull
\* request the plan does not know of.
Link(r) == /\ Step(r, "link", "report") /\ linked' = TRUE
           /\ UNCHANGED <<pr, rec, sup, gate, faults>>

Report(r) == /\ run[r].st = "running" /\ run[r].step = "report"
             /\ run' = [run EXCEPT ![r] = Cancelled(r)]
             /\ UNCHANGED <<pr, linked, rec, sup, gate, faults>>

\* The smallest failure: the job ends before the worker is spawned.
Refuse(r) == /\ run[r].st = "running" /\ run[r].step = "position" /\ Fault
             /\ run' = [run EXCEPT ![r] = Cancelled(r)]
             /\ UNCHANGED <<pr, linked, rec, sup, gate>>

-----------------------------------------------------------------------------
(* perk objective run.                                                      *)
-----------------------------------------------------------------------------
\* _in_flight_record: the listing, or else the handles the local records hold.
InFlight(fallback) == {r \in Runs : /\ run[r].st \in {"queued", "running"}
                                    /\ fallback => rec[r] = "dispatched"}

Look(s, wait, fallback) ==
    /\ sup[s].pc = "idle" /\ (fallback => Fault) /\ (~fallback => UNCHANGED faults)
    /\ \/ /\ InFlight(fallback) = {}
          /\ sup' = [sup EXCEPT ![s] = [Pass EXCEPT !.pc = "read", !.calm = Active = {}]]
       \/ \E r \in InFlight(fallback) :
             /\ wait
             /\ sup' = [sup EXCEPT ![s] = [Pass EXCEPT !.pc = "poll", !.rid = r,
                                                       !.calm = Active = {r}]]
    /\ UNCHANGED <<pr, linked, run, rec, gate>>

\* _poll_to_completion; it gives up in time.
Poll(s) == /\ sup[s].pc = "poll"
           /\ \/ run[sup[s].rid].st = "done" /\ Go(s, "read")
              \/ sup' = [sup EXCEPT ![s] = Pass]
           /\ UNCHANGED <<pr, linked, run, rec, gate, faults>>

\* get_plan sees the pull request the header names.
Seen == IF linked THEN pr ELSE "none"

\* resolve_next_action: only these two stages are dispatched; everything else
\* waits for a person.
Verdict == CASE Seen = "none"    -> "implement"
             [] Seen = "changes" -> "address"
             [] OTHER            -> "gate"

Read(s) == /\ sup[s].pc = "read"
           /\ sup' = [sup EXCEPT ![s] = IF Verdict = "gate" THEN Pass
                                        ELSE [@ EXCEPT !.pc = "persist", !.stage = Verdict]]
           /\ UNCHANGED <<pr, linked, run, rec, gate, faults>>

\* _drive_remote_target: the record is written, and read back, first.
Persist(s) == /\ sup[s].pc = "persist"
              /\ \E r \in Runs :
                    /\ r = 1 + Cardinality({q \in Runs : rec[q] # "none"})
                    /\ rec' = [rec EXCEPT ![r] = "dispatching"]
                    /\ sup' = [sup EXCEPT ![s].pc = "trigger", ![s].rid = r]
              /\ UNCHANGED <<pr, linked, run, gate, faults>>

\* trigger_workflow: the request is accepted, and listed then or later; or it is
\* refused, or its answer is lost.
Ask(r, stage) == run' = [run EXCEPT ![r] = [NoRun EXCEPT !.st = "unlisted", !.stage = stage]]
Failed(s) == /\ rec' = [rec EXCEPT ![sup[s].rid] = "failed"]
             /\ sup' = [sup EXCEPT ![s] = Pass]
Trigger(s) == /\ sup[s].pc = "trigger"
              /\ \/ /\ Ask(sup[s].rid, sup[s].stage) /\ Go(s, "discover")
                    /\ UNCHANGED <<rec, faults>>
                 \/ Fault /\ Failed(s) /\ \/ Ask(sup[s].rid, sup[s].stage)
                                          \/ UNCHANGED run
              /\ UNCHANGED <<pr, linked, gate>>

\* The run is found by its name, or it was cancelled already, or never listed.
Discover(s) == /\ sup[s].pc = "discover"
               /\ \/ /\ run[sup[s].rid].st \in {"queued", "running", "done"}
                     /\ rec' = [rec EXCEPT ![sup[s].rid] = "dispatched"]
                     /\ sup' = [sup EXCEPT ![s] = Pass] /\ UNCHANGED faults
                  \/ run[sup[s].rid].st \in {"unlisted", "done"} /\ Fault /\ Failed(s)
               /\ UNCHANGED <<pr, linked, run, gate>>

Crash(s) == /\ sup[s].pc # "idle" /\ Fault
            /\ sup' = [sup EXCEPT ![s] = Pass]
            /\ UNCHANGED <<pr, linked, run, rec, gate>>

-----------------------------------------------------------------------------
(* People.                                                                  *)
-----------------------------------------------------------------------------
\* resolve_target: a handle in the record, or the listing.
Known(r) == rec[r] = "dispatched" \/ run[r].st \in {"queued", "running", "done"}

Cancel(r) == /\ Known(r) /\ run[r].st \in {"queued", "running"}
             /\ run' = [run EXCEPT ![r] = Cancelled(r)]
             /\ UNCHANGED <<pr, linked, rec, sup, gate, faults>>

Retry(r) == /\ Known(r) /\ run[r].st = "done" /\ (\A q \in Runs : run[q].turn < MaxTurns)
            /\ Queue(r) /\ Stir
            /\ UNCHANGED <<pr, linked, rec, gate, faults>>

Human == /\ \/ pr = "draft" /\ pr' \in {"open", "closed"}
            \/ pr = "open" /\ pr' \in {"changes", "merged", "closed"}
            \/ pr = "changes" /\ pr' \in {"merged", "closed"}
         /\ UNCHANGED <<linked, run, rec, sup, gate, faults>>

-----------------------------------------------------------------------------
(* active_writer_plan_ids: one call per status.                             *)
-----------------------------------------------------------------------------
\* Mutant of Statuses: the other order.
StatusesSwapped == <<"running", "queued">>
Statuses == <<"queued", "running">>

Turns(rs) == {<<r, run[r].turn>> : r \in rs}

\* A run that triggered the synchronization is left out, and only that one.
Others == Runs \ {gate.self}

GateFirst == /\ gate.pc = "idle"
             /\ \E self \in {0} \cup Listed("running") :
                   gate' = [pc |-> "half", self |-> self,
                            found |-> Listed(Statuses[1]) \ {self} # {},
                            live |-> Turns((Listed("queued") \cup Listed("running")) \ {self})]
             /\ UNCHANGED <<pr, linked, run, rec, sup, faults>>

GateSecond == /\ gate.pc = "half"
              /\ gate' = [gate EXCEPT !.pc = "answered",
                                      !.found = @ \/ Listed(Statuses[2]) \cap Others # {},
                                      !.live = @ \cap Turns(Active)]
              /\ UNCHANGED <<pr, linked, run, rec, sup, faults>>

GateEnd == /\ gate.pc = "answered" /\ gate' = NoGate
           /\ UNCHANGED <<pr, linked, run, rec, sup, faults>>

Next == \/ \E r \in Runs : \/ Appear(r) \/ Start(r) \/ Work(r) \/ Link(r) \/ Report(r)
                           \/ Refuse(r) \/ Cancel(r) \/ Retry(r)
        \/ \E s \in Supers : \/ \E wait, fallback \in BOOLEAN : Look(s, wait, fallback)
                             \/ Poll(s) \/ Read(s) \/ Persist(s) \/ Trigger(s) \/ Discover(s)
                             \/ Crash(s)
        \/ Human \/ GateFirst \/ GateSecond \/ GateEnd

Spec == Init /\ [][Next]_vars

-----------------------------------------------------------------------------
\* A run that is queued or in progress throughout the writer observation is seen
\* by it, though each call looks at one status (run/discovery.py: "active runs can
\* never be displaced"); and a pass that looked when it could see every active run
\* does not dispatch implement over the pull request the plan is linked to
\* (run_cmd.py, _resolve_in_flight_stage: "never re-dispatch implement from a draft").
RunsAreSeen ==
    /\ gate.pc = "answered" /\ gate.live # {} => gate.found
    /\ \A s \in Supers : /\ sup[s].pc \in {"persist", "trigger"} /\ sup[s].calm
                         /\ sup[s].stage = "implement"
                         => ~linked
=============================================================================
