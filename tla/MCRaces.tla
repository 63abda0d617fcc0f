------------------------------- MODULE MCRaces -------------------------------
(***************************************************************************)
(* What several machines and sessions do to shared state with nothing but  *)
(* the remote between them, each by itself (focus): synchronizations of a  *)
(* stack that race, or meet late requests; the remote drive of a plan;     *)
(* sessions that keep their documents in the comments of one issue.        *)
(***************************************************************************)
EXTENDS MCStackRaces

VARIABLES focus,
          dpr, linked, run, drec, sup, gate, dfaults,
          node, comments, context, draft, work, told, standing, surprised, used,
          late,
          report, save, passed, issues, whole, crowded, dused

Dri == INSTANCE Drive WITH pr <- dpr, rec <- drec, faults <- dfaults,
                           Supers <- {"s1"}, MaxRuns <- 2, MaxTurns <- 2, MaxFaults <- 1
Ref == INSTANCE Refinement WITH Sessions <- {1, 2}, Nodes <- {1, 2}, MaxContexts <- 3,
                                MaxComments <- 3, MaxEvents <- 1
Rep == INSTANCE DreamReport WITH Sessions <- {1, 2}, Parts <- 2, MaxReports <- 2, MaxSaves <- 2,
                                 MaxFaults <- 1, MaxEvents <- 1

driVars == <<dpr, linked, run, drec, sup, gate, dfaults>>
refVars == <<node, comments, context, draft, work, told, standing, surprised, used>>
refrepVars == <<late>>
repVars == <<report, save, passed, issues, whole, crowded, dused>>
toolVars == <<driVars, refVars, refrepVars, repVars>>
allVars == <<focus, vars, who, toolVars>>

NoDri == /\ dpr = 0 /\ linked = 0 /\ run = 0 /\ drec = 0 /\ sup = 0 /\ gate = 0 /\ dfaults = 0
NoRef == /\ node = 0 /\ comments = 0 /\ context = 0 /\ draft = 0 /\ work = 0 /\ told = 0
         /\ standing = 0 /\ surprised = 0 /\ used = 0
NoRefRep == /\ late = 0
NoRep == /\ report = 0 /\ save = 0 /\ passed = 0 /\ issues = 0 /\ whole = 0 /\ crowded = 0
         /\ dused = 0

\* Beside the tools the stack stays as it started.
Start == /\ RaceInit
         /\ \/ /\ focus = "sync" /\ NoDri /\ NoRef /\ NoRefRep /\ NoRep
            \/ /\ focus = "drive" /\ who = "race" /\ Dri!Init /\ NoRef /\ NoRefRep /\ NoRep
            \/ /\ focus = "refinement" /\ who = "race" /\ Ref!Init /\ NoDri /\ NoRep
            \/ /\ focus = "report" /\ who = "race" /\ Rep!Init /\ NoDri /\ NoRef

Steps == \/ focus = "sync" /\ RaceNext /\ UNCHANGED <<focus, toolVars>>
         \/ /\ focus = "drive" /\ Dri!Next
            /\ UNCHANGED <<focus, vars, who, refVars, refrepVars, repVars>>
         \/ /\ focus = "refinement" /\ Ref!Next
            /\ UNCHANGED <<focus, vars, who, driVars, repVars>>
         \/ /\ focus = "report" /\ Rep!Next
            /\ UNCHANGED <<focus, vars, who, driVars, refVars>>

RacesSpec == Start /\ [][Steps]_allVars

-----------------------------------------------------------------------------
\* Active runs are seen by the writer observation and by a later pass
\* (run/discovery.py, active_writer_plan_ids; run_cmd.py, _run_impl).
RunsAreSeen == focus = "drive" => Dri!RunsAreSeen

\* A saved refinement is delivered, and a double one was told (issue_backend.py,
\* guarded_upsert_marked_comment; codec.py, find_target_refinement).  A saved report is
\* whole, on the one open objective of its origin (dream_companion.py, persist_parts;
\* objectives.py, find_objective_issue_by_origin).
CommentsHold == /\ focus = "refinement" => Ref!RefinementHolds
                /\ focus = "report" => Rep!OneDream /\ Rep!ReportIsWhole

\* A save replaces only what its author had seen (authoring.py, compose_save_request).
AuthorSawIt == [][focus = "refinement" => Ref!AuthorSawIt]_allVars
=============================================================================
