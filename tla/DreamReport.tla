------------------------------ MODULE DreamReport ------------------------------
(***************************************************************************)
(* What a learn-dream session saves: one objective, at most one of its     *)
(* origin open, and a report in parts, kept as comments of that objective. *)
(* The parts are written once and compared, never updated.  Requests are   *)
(* lost or late, saves are cut and repeated, people edit and close.        *)
(***************************************************************************)
EXTENDS Integers, Sequences

CONSTANTS Sessions,          \* runs of learn dream
          Parts,             \* the number of parts of a report
          MaxReports, MaxSaves, MaxFaults, MaxEvents   \* bounds: versions of a report, saves, lost answers and crashes, edits

VARIABLES report, save,      \* per run: the version of its report (0 is none yet), the save at work
          passed,            \* runs whose door was passed
          issues, late,      \* objectives on the tracker, requests still to land
          whole,             \* ghost: saves that succeeded, with nothing tampered since they began
          crowded,           \* ghost: a guard looked while another create was under way
          dused              \* faults and edits so far

vars == <<report, save, passed, issues, late, whole, crowded, dused>>

NoSave == [at |-> "idle", version |-> 0, issue |-> 0, seen |-> {}, part |-> 0, tries |-> 0,
           clean |-> TRUE]
Init ==
  /\ report = [s \in Sessions |-> 0] /\ save = [s \in Sessions |-> NoSave] /\ passed = {}
  /\ issues = <<>> /\ late = {} /\ whole = {} /\ crowded = FALSE
  /\ dused = [saves |-> 0, faults |-> 0, events |-> 0]

Fault == dused.faults < MaxFaults /\ dused' = [dused EXCEPT !.faults = @ + 1]
Event == dused.events < MaxEvents /\ dused' = [dused EXCEPT !.events = @ + 1]
Remote == UNCHANGED <<issues, late>>
Ghosts == UNCHANGED <<whole, crowded>>

----------------------------------------------------------------------------
(* find_open_objective_by_origin: every open objective of the origin that another run made *)
Dreams(but) == {i \in 1..Len(issues) : issues[i].open /\ issues[i].run \notin but}
(* The guard of the door (DreamDoor) *)
Launch(s) ==
  /\ s \notin passed /\ Dreams({}) = {} /\ passed' = passed \cup {s}
  /\ UNCHANGED <<report, save, dused>> /\ Remote /\ Ghosts

(* The session of a dream writes its report, perhaps again after a save that failed *)
WriteReport(s) ==
  /\ s \in passed /\ save[s].at = "idle" /\ report[s] < MaxReports /\ report' = [report EXCEPT ![s] = @ + 1]
  /\ UNCHANGED <<save, passed, issues, late, dused>> /\ Ghosts

Go(s, r) == save' = [save EXCEPT ![s] = r]
At(s, at) == Go(s, [save[s] EXCEPT !.at = at])
Fail(s) == Go(s, NoSave)
Still == UNCHANGED <<report, passed>>

(* create_objective up to the guard: the transfer needs the manifest of its run *)
ReadTransfer(s) ==
  /\ save[s].at = "idle" /\ report[s] # 0
  /\ dused.saves < MaxSaves /\ dused' = [dused EXCEPT !.saves = @ + 1]
  /\ Go(s, [NoSave EXCEPT !.at = "guard", !.version = report[s]])
  /\ Still /\ Remote /\ Ghosts
Others(s) == \/ \E o \in Sessions \ {s} : save[o].at \in {"find", "create"}
             \/ \E r \in late : r.is = "issue"
GuardAny(s) ==
  /\ save[s].at = "guard" /\ At(s, "find")
  /\ crowded' = (crowded \/ Others(s)) /\ UNCHANGED whole /\ Still /\ Remote /\ UNCHANGED dused
Guard(s) ==
  /\ save[s].at = "guard"
  /\ IF Dreams({s}) # {} THEN Fail(s) ELSE At(s, "find")
  /\ crowded' = (crowded \/ Others(s)) /\ UNCHANGED whole
  /\ Still /\ Remote /\ UNCHANGED dused

(* create_objective_issue: the open issue of the run, or a new one.  One that was found is taken as
   it is; a new one gets its body comment and the comment's id, and may be left without *)
Own(s) == {i \in 1..Len(issues) : issues[i].open /\ issues[i].run = s}
Find(s) ==
  /\ save[s].at = "find"
  /\ \/ Own(s) = {} /\ At(s, "create")
     \/ \E i \in Own(s) : /\ \A j \in Own(s) : j <= i
                         /\ Go(s, [save[s] EXCEPT !.at = "scan", !.issue = i])
  /\ Still /\ Remote /\ Ghosts /\ UNCHANGED dused
NewIssue(s) == [run |-> s, open |-> TRUE, body |-> FALSE, comments |-> {}, stamp |-> FALSE]
Create(s) ==
  /\ save[s].at = "create" /\ Still /\ Ghosts
  /\ \/ /\ issues' = Append(issues, NewIssue(s)) /\ UNCHANGED <<late, dused>>
        /\ Go(s, [save[s] EXCEPT !.at = "body", !.issue = Len(issues) + 1])
     \/ /\ Fault /\ Fail(s) \* the answer is lost, and the request may land later
        /\ \/ late' = late \cup {[is |-> "issue", of |-> NewIssue(s)]} /\ UNCHANGED issues
           \/ issues' = Append(issues, NewIssue(s)) /\ UNCHANGED late
           \/ Remote
PostBody(s) ==
  /\ save[s].at = "body" /\ At(s, "scan") /\ issues' = [issues EXCEPT ![save[s].issue].body = TRUE]
  /\ Still /\ Ghosts /\ UNCHANGED <<late, dused>>

(* A comment of the report: its run, index and version; 0 is one that people edited *)
Part(s) == [run |-> s, index |-> save[s].part, version |-> save[s].version]
Comments(s) == issues[save[s].issue].comments
(* _scan_carrier: anything that is edited, conflicting or out of range stops the save *)
Scannable(s) ==
  /\ \A c \in Comments(s) : c.version # 0
  /\ \A c, e \in Comments(s) : c.run = s /\ e.run = s /\ c.index = e.index => c.version = e.version
Stored(s) == {c \in Comments(s) : c.run = s}
NextPart(s, seen, k) ==
  IF k > Parts THEN Go(s, [save[s] EXCEPT !.at = "stamp"])
  ELSE Go(s, [save[s] EXCEPT !.at = "part", !.part = k, !.seen = seen, !.tries = 0])
Scan(s) ==
  /\ save[s].at = "scan"
  /\ IF Scannable(s) THEN NextPart(s, Stored(s), 1) ELSE Fail(s)
  /\ Still /\ Remote /\ Ghosts /\ UNCHANGED dused

(* persist_parts: stored and equal is skipped, stored and different refused, absent posted *)
InHand(s) == {c \in save[s].seen : c.index = save[s].part}
Persist(s) ==
  /\ save[s].at = "part" /\ Still /\ Remote /\ Ghosts /\ UNCHANGED dused
  /\ IF InHand(s) = {} THEN At(s, "post")
     ELSE IF InHand(s) = {Part(s)} THEN NextPart(s, save[s].seen, save[s].part + 1) ELSE Fail(s)
(* _append_part: a POST whose failure says nothing, a scan that decides, one retry *)
Post(s) ==
  /\ save[s].at = "post" /\ At(s, "rescan") /\ Still /\ Ghosts
  /\ LET lands == issues' = [issues EXCEPT ![save[s].issue].comments = @ \cup {Part(s)}] IN
     \/ lands /\ UNCHANGED <<late, dused>>
     \/ Fault /\ late' \in {late, late \cup {[is |-> "part", of |-> [issue |-> save[s].issue, part |-> Part(s)]]}}
        /\ UNCHANGED issues
RescanTrusting(s) ==
  /\ save[s].at = "rescan" /\ NextPart(s, save[s].seen, save[s].part + 1)
  /\ Still /\ Remote /\ Ghosts /\ UNCHANGED dused
Rescan(s) ==
  /\ save[s].at = "rescan" /\ Still /\ Remote /\ Ghosts
  /\ \/ /\ UNCHANGED dused
        /\ LET found == {c \in Stored(s) : c.index = save[s].part} IN
           IF ~Scannable(s) THEN Fail(s)
           ELSE IF found = {Part(s)} THEN NextPart(s, save[s].seen, save[s].part + 1)
           ELSE IF found # {} \/ save[s].tries = 1 THEN Fail(s)
           ELSE Go(s, [save[s] EXCEPT !.at = "post", !.tries = 1])
     \/ Fault /\ Fail(s)

(* The header names the carrier of the report; the save has succeeded *)
Stamp(s) ==
  /\ save[s].at = "stamp" /\ Fail(s) /\ issues' = [issues EXCEPT ![save[s].issue].stamp = TRUE]
  /\ whole' = IF ~save[s].clean THEN whole
              ELSE whole \cup {[run |-> s, version |-> save[s].version, issue |-> save[s].issue]}
  /\ Still /\ UNCHANGED <<late, crowded, dused>>

(* A save is cut, requests land late, people edit or delete parts and close objectives *)
Cut(s) == /\ save[s].at # "idle" /\ Fault /\ Fail(s) /\ Still /\ Remote /\ Ghosts
LandsLate ==
  \E r \in late :
    /\ late' = late \ {r}
    /\ issues' = IF r.is = "issue" THEN Append(issues, r.of)
                 ELSE [issues EXCEPT ![r.of.issue].comments = @ \cup {r.of.part}]
    /\ UNCHANGED <<report, save, passed, dused>> /\ Ghosts
Tamper ==
  /\ Event /\ whole' = {} /\ UNCHANGED <<report, passed, late, crowded>>
  /\ save' = [s \in Sessions |-> [save[s] EXCEPT !.clean = FALSE]]
  /\ \E i \in 1..Len(issues) :
       \/ issues[i].open /\ issues' = [issues EXCEPT ![i].open = FALSE]
       \/ \E c \in issues[i].comments : \E v \in {0, 9} : \* edited, deleted
            issues' = [issues EXCEPT ![i].comments = (@ \ {c}) \cup
                         {e \in {[c EXCEPT !.version = 0]} : v = 0}]

Step(s) ==
  \/ Launch(s) \/ WriteReport(s) \/ ReadTransfer(s) \/ Guard(s) \/ Find(s) \/ Create(s)
  \/ PostBody(s) \/ Scan(s) \/ Persist(s) \/ Post(s) \/ Rescan(s) \/ Stamp(s) \/ Cut(s)
Next == LandsLate \/ Tamper \/ \E s \in Sessions : Step(s)
Spec == Init /\ [][Next]_vars

----------------------------------------------------------------------------
TypeOK == \A s \in Sessions : save[s].part \in 0..Parts /\ save[s].issue \in 0..Len(issues)

(* One learn-dream objective is open, unless two creations were under way together
   (create_cmd.py, create_objective; objectives.py, find_objective_issue_by_origin) *)
OneDream == ~crowded => \A i, j \in Dreams({}) : i = j

(* A save that succeeded left every part of one version of the report on the objective, and the
   header names it, whatever was lost, late or repeated (dream_companion.py, persist_parts) *)
ReportIsWhole ==
  \A w \in whole :
    /\ issues[w.issue].stamp
    /\ \A k \in 1..Parts : [run |-> w.run, index |-> k, version |-> w.version] \in issues[w.issue].comments
=============================================================================
