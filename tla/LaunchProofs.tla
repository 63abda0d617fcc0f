----------------------------- MODULE LaunchProofs -----------------------------
(***************************************************************************)
(* Proofs about launching: the remote drive of a plan (Drive), for every   *)
(* number of shells, runs, retries and faults, where no active run is      *)
(* overlooked; the checkout of a plan (Checkout), for every number of      *)
(* commits, launches, faults and moves, where a session never works in a   *)
(* checkout whose setup did not succeed and no command takes work away;    *)
(* the documentation library of a checkout (Library), for every number of  *)
(* commands, staging directories, faults and moves upstream, where what is *)
(* catalogued stays on disk; and the convergence of a checkout to what     *)
(* perk manages there (Convergence), for every number of commands, files,  *)
(* versions and events, where two quiet runs of the fixes suffice.         *)
(***************************************************************************)
EXTENDS Drive, Integers, FiniteSetTheorems, NaturalsInduction, WellFoundedInduction,
        TLAPS

\* A run that is queued or in progress: what the next one of the plan cancels.
Turning == {"queued", "running"}
RunSet == [st : {"none", "unlisted", "queued", "running", "done"},
           stage : {"none", "implement", "address"}, turn : Nat,
           step : {"none", "position", "link", "report"}]
SupSet == [pc : {"idle", "read", "poll", "persist", "trigger", "discover"},
           rid : Runs \cup {0}, stage : {"none", "implement", "address"}, calm : BOOLEAN]
RecSet == {"none", "dispatching", "dispatched", "failed"}
GateSet == [pc : {"idle", "half", "answered"}, self : Runs \cup {0},
            live : SUBSET (Runs \X Nat), found : BOOLEAN]
DriveTyped == /\ run \in [Runs -> RunSet] /\ rec \in [Runs -> RecSet]
              /\ sup \in [Supers -> SupSet] /\ gate \in GateSet /\ linked \in BOOLEAN

\* A request is made for a record that is new, and once.
Numbered == /\ \E k \in Nat : \A r \in Runs : rec[r] # "none" <=> r <= k
            /\ \A r \in Runs : rec[r] = "none" => run[r].st = "none"
            /\ \A s \in Supers : sup[s].pc \in {"trigger", "discover"} =>
                  sup[s].rid \in Runs /\ rec[sup[s].rid] # "none"
            /\ \A s \in Supers : sup[s].pc = "trigger" =>
                  /\ run[sup[s].rid].st = "none"
                  /\ \A z \in Supers : sup[z].pc = "trigger" /\ sup[z].rid = sup[s].rid => z = s

\* The plan is linked to a pull request that exists.
Linkable == /\ linked => pr # "none"
            /\ \A r \in Runs : run[r].step = "link" => pr # "none"

\* No run of the plan goes on unseen by a calm pass: what may be queued or in
\* progress is the run it waits for.
Calm == \A s \in Supers : sup[s].calm =>
    /\ sup[s].pc \in {"read", "persist", "trigger"} =>
          \A r \in Runs : run[r].st \notin Turning
    /\ sup[s].pc = "poll" => \A r \in Runs : run[r].st \in Turning => r = sup[s].rid
    /\ sup[s].pc \in {"persist", "trigger"} /\ sup[s].stage = "implement" => ~ linked

\* What the first call of the observation did not see among the runs that were
\* active has started by then: it is in progress, done, or in a later turn.
Half == /\ gate.pc = "half" =>
             \A r \in Runs, t \in Nat : <<r, t>> \in gate.live =>
                /\ r # gate.self /\ run[r].st # "none" /\ t <= run[r].turn
                /\ ~ gate.found /\ run[r].turn = t => run[r].st \in {"running", "done"}
        /\ gate.pc = "answered" /\ gate.live # {} => gate.found

DInv == DriveTyped /\ Numbered /\ Linkable /\ Calm /\ Half

-----------------------------------------------------------------------------
\* What the pieces of the actions leave.

LEMMA CancelledOutcome ==
    ASSUME run \in [Runs -> RunSet], NEW r \in Runs
    PROVE  /\ Cancelled(r) \in RunSet /\ Cancelled(r).st = "done"
           /\ Cancelled(r).step = "none" /\ Cancelled(r).turn = run[r].turn
  BY ZenonT(60) DEF Cancelled, RunSet

LEMMA QueueOutcome ==
    ASSUME run \in [Runs -> RunSet], NEW r \in Runs, Queue(r)
    PROVE  /\ run' \in [Runs -> RunSet]
           /\ run'[r].st = "queued" /\ run'[r].step = "none" /\ run'[r].turn = run[r].turn + 1
           /\ \A q \in Runs : q # r =>
                 \/ run'[q] = run[q] /\ run[q].st \notin Turning
                 \/ /\ run[q].st \in Turning /\ run'[q].st = "done" /\ run'[q].step = "none"
                    /\ run'[q].turn = run[q].turn
<1> DEFINE N(q) == [run[q] EXCEPT !.st = "queued", !.step = "none", !.turn = @ + 1]
           C(q) == Cancelled(q)
<1>1. ASSUME NEW q \in Runs
      PROVE  /\ N(q) \in RunSet /\ N(q).st = "queued" /\ N(q).step = "none"
             /\ N(q).turn = run[q].turn + 1
  <2>1. run[q] \in RunSet /\ run[q].turn + 1 \in Nat
    BY DEF RunSet
  <2>2. PICK t : t = run[q].turn + 1
    OBVIOUS
  <2>3. N(q) = [run[q] EXCEPT !.st = "queued", !.step = "none", !.turn = t]
    BY <2>2
  <2>4. PICK v : v = [run[q] EXCEPT !.st = "queued", !.step = "none", !.turn = t]
    OBVIOUS
  <2>5. v \in RunSet /\ v.st = "queued" /\ v.step = "none" /\ v.turn = t
    BY <2>1, <2>2, <2>4 DEF RunSet
  <2> QED
    BY <2>2, <2>3, <2>4, <2>5
<1>3. ASSUME NEW q \in Runs
      PROVE  /\ C(q) \in RunSet /\ C(q).st = "done" /\ C(q).step = "none"
             /\ C(q).turn = run[q].turn
  BY CancelledOutcome
<1>2. /\ run' = [q \in Runs |-> IF q = r THEN N(r)
                                ELSE IF run[q].st \in {"queued", "running"} THEN C(q) ELSE run[q]]
  BY DEF Queue
<1> HIDE DEF N, C
<1> QED
  BY <1>1, <1>2, <1>3 DEF Turning

LEMMA StirOutcome ==
    ASSUME sup \in [Supers -> SupSet], Stir
    PROVE  /\ sup' \in [Supers -> SupSet]
           /\ \A s \in Supers : /\ sup'[s].pc = sup[s].pc
                                /\ sup[s].pc # "idle" => /\ ~ sup'[s].calm
                                                         /\ sup'[s].rid = sup[s].rid
<1>1. Pass \in SupSet /\ Pass.pc = "idle"
  BY DEF Pass, SupSet
<1>2. ASSUME NEW s \in Supers
      PROVE  /\ [sup[s] EXCEPT !.calm = FALSE] \in SupSet
             /\ [sup[s] EXCEPT !.calm = FALSE].pc = sup[s].pc
             /\ [sup[s] EXCEPT !.calm = FALSE].rid = sup[s].rid
             /\ ~ [sup[s] EXCEPT !.calm = FALSE].calm
  BY DEF SupSet
<1> QED
  BY <1>1, <1>2 DEF Stir

Passes == {"idle", "read", "poll", "persist", "trigger", "discover"}
LEMMA GoOutcome ==
    ASSUME sup \in [Supers -> SupSet], NEW s \in Supers, NEW q \in Passes, Go(s, q)
    PROVE  /\ sup' \in [Supers -> SupSet] /\ sup'[s].pc = q /\ sup'[s].rid = sup[s].rid
           /\ sup'[s].calm = sup[s].calm /\ sup'[s].stage = sup[s].stage
           /\ \A z \in Supers \ {s} : sup'[z] = sup[z]
<1>1. sup' = [sup EXCEPT ![s] = [sup[s] EXCEPT !.pc = q]]
  BY DEF Go
<1>2. /\ [sup[s] EXCEPT !.pc = q] \in SupSet
      /\ [sup[s] EXCEPT !.pc = q].pc = q
      /\ [sup[s] EXCEPT !.pc = q].rid = sup[s].rid
      /\ [sup[s] EXCEPT !.pc = q].calm = sup[s].calm
      /\ [sup[s] EXCEPT !.pc = q].stage = sup[s].stage
  BY DEF SupSet, Passes
<1> QED
  BY <1>1, <1>2

LEMMA ResetOutcome ==
    ASSUME sup \in [Supers -> SupSet], NEW s \in Supers, sup' = [sup EXCEPT ![s] = Pass]
    PROVE  /\ sup' \in [Supers -> SupSet] /\ sup'[s].pc = "idle"
           /\ \A z \in Supers \ {s} : sup'[z] = sup[z]
<1>1. Pass \in SupSet /\ Pass.pc = "idle"
  BY SMTT(60) DEF Pass, SupSet
<1> QED
  BY <1>1

LEMMA LookOutcome ==
    ASSUME sup \in [Supers -> SupSet], NEW s \in Supers, NEW wait, NEW fallback,
           Look(s, wait, fallback)
    PROVE  /\ sup' \in [Supers -> SupSet] /\ \A z \in Supers \ {s} : sup'[z] = sup[z]
           /\ \/ sup'[s].pc = "read" /\ (sup'[s].calm => Active = {})
              \/ sup'[s].pc = "poll" /\ (sup'[s].calm => Active = {sup'[s].rid})
<1>1. ASSUME NEW c \in BOOLEAN, NEW v, v = [Pass EXCEPT !.pc = "read", !.calm = c]
      PROVE  v \in SupSet /\ v.pc = "read" /\ v.calm = c
  BY <1>1 DEF Pass, SupSet
<1>2. ASSUME NEW r \in Runs, NEW v,
             v = [Pass EXCEPT !.pc = "poll", !.rid = r, !.calm = Active = {r}]
      PROVE  v \in SupSet /\ v.pc = "poll" /\ (v.calm => Active = {r}) /\ v.rid = r
  BY <1>2 DEF Pass, SupSet
<1>3. CASE sup' = [sup EXCEPT ![s] = [Pass EXCEPT !.pc = "read", !.calm = Active = {}]]
  BY <1>3, <1>1, ZenonT(60)
<1>4. ASSUME NEW r \in Runs,
             sup' = [sup EXCEPT ![s] = [Pass EXCEPT !.pc = "poll", !.rid = r,
                                                    !.calm = Active = {r}]]
      PROVE  /\ sup' \in [Supers -> SupSet] /\ \A z \in Supers \ {s} : sup'[z] = sup[z]
             /\ sup'[s].pc = "poll" /\ (sup'[s].calm => Active = {sup'[s].rid})
  <2>1. PICK v : /\ v = [Pass EXCEPT !.pc = "poll", !.rid = r, !.calm = Active = {r}]
                 /\ sup' = [sup EXCEPT ![s] = v]
    BY <1>4
  <2>2. v \in SupSet /\ v.pc = "poll" /\ (v.calm => Active = {r}) /\ v.rid = r
    BY <2>1, <1>2
  <2> QED
    BY <2>1, <2>2
<1> QED
  BY <1>3, <1>4 DEF Look, InFlight

LEMMA ReadOutcome ==
    ASSUME sup \in [Supers -> SupSet], NEW s \in Supers, Read(s)
    PROVE  /\ sup' \in [Supers -> SupSet] /\ \A z \in Supers \ {s} : sup'[z] = sup[z]
           /\ \/ sup'[s].pc = "idle"
              \/ /\ sup'[s].pc = "persist" /\ sup'[s].calm = sup[s].calm
                 /\ sup'[s].stage = "implement" => Seen = "none"
<1>1. ASSUME NEW g \in {"implement", "address"}, NEW v,
             v = [sup[s] EXCEPT !.pc = "persist", !.stage = g]
      PROVE  v \in SupSet /\ v.pc = "persist" /\ v.calm = sup[s].calm /\ v.stage = g
  BY <1>1, ZenonT(60) DEF SupSet
<1>2. \/ sup' = [sup EXCEPT ![s] = Pass]
      \/ \E g \in {"implement", "address"} :
            /\ sup' = [sup EXCEPT ![s] = [sup[s] EXCEPT !.pc = "persist", !.stage = g]]
            /\ g = "implement" => Seen = "none"
  BY DEF Read, Verdict
<1> QED
  BY <1>1, <1>2, ResetOutcome

LEMMA PersistOutcome ==
    ASSUME MaxRuns \in Nat, DriveTyped, Numbered, NEW s \in Supers, Persist(s)
    PROVE  \E r \in Runs :
              /\ rec' = [rec EXCEPT ![r] = "dispatching"]
              /\ rec[r] = "none" /\ (\A q \in Runs : rec[q] # "none" <=> q <= r - 1)
              /\ sup' \in [Supers -> SupSet] /\ (\A z \in Supers \ {s} : sup'[z] = sup[z])
              /\ sup'[s].pc = "trigger" /\ sup'[s].rid = r
              /\ sup'[s].calm = sup[s].calm /\ sup'[s].stage = sup[s].stage
<1>1. PICK k \in Nat : \A r \in Runs : rec[r] # "none" <=> r <= k
  BY DEF Numbered
<1>2. PICK r \in Runs :
                        /\ r = 1 + Cardinality({q \in Runs : rec[q] # "none"})
                        /\ rec' = [rec EXCEPT ![r] = "dispatching"]
                        /\ sup' = [sup EXCEPT ![s].pc = "trigger", ![s].rid = r]
  BY DEF Persist
<1>3. k < MaxRuns /\ Cardinality({q \in Runs : rec[q] # "none"}) = k
  <2>1. CASE k >= MaxRuns
    <3>1. {q \in Runs : rec[q] # "none"} = 1..MaxRuns
      BY <1>1, <2>1 DEF Runs
    <3>2. Cardinality(1..MaxRuns) = MaxRuns
      BY FS_Interval
    <3>3. r = 1 + MaxRuns
      BY <1>2, <3>1, <3>2
    <3> QED
      BY <3>3 DEF Runs
  <2>2. CASE k < MaxRuns
    <3>1. {q \in Runs : rec[q] # "none"} = 1..k
      BY <1>1, <2>2 DEF Runs
    <3>2. Cardinality(1..k) = k
      BY FS_Interval
    <3> QED
      BY <2>2, <3>1, <3>2
  <2> QED
    BY <2>1, <2>2
<1>3a. r = k + 1
  BY <1>2, <1>3
<1>3b. \A q \in Runs : rec[q] # "none" <=> q <= r - 1
  BY <1>1, <1>3a DEF Runs
<1>4. r = k + 1 /\ rec[r] = "none" /\ \A q \in Runs : rec[q] # "none" <=> q <= r - 1
  BY <1>3a, <1>3b DEF Runs
<1>5. sup' = [sup EXCEPT ![s] = [sup[s] EXCEPT !.pc = "trigger", !.rid = r]]
  BY <1>2
<1>6. ASSUME NEW v, v = [sup[s] EXCEPT !.pc = "trigger", !.rid = r]
      PROVE  /\ v \in SupSet /\ v.pc = "trigger" /\ v.rid = r /\ v.calm = sup[s].calm
             /\ v.stage = sup[s].stage
  BY <1>6 DEF DriveTyped, SupSet
<1> QED
  BY <1>2, <1>4, <1>5, <1>6 DEF DriveTyped

LEMMA TriggerOutcome ==
    ASSUME DriveTyped, Numbered, NEW s \in Supers, Trigger(s)
    PROVE  /\ sup' \in [Supers -> SupSet] /\ (\A z \in Supers \ {s} : sup'[z] = sup[z])
           /\ sup'[s].pc \in {"idle", "discover"}
           /\ rec' \in [Runs -> RecSet]
           /\ \A r \in Runs : rec'[r] = "none" <=> rec[r] = "none"
           /\ run' \in [Runs -> RunSet]
           /\ \A r \in Runs \ {sup[s].rid} : run'[r] = run[r]
           /\ \A r \in Runs : \/ run'[r] = run[r]
                              \/ run'[r].st = "unlisted" /\ run'[r].step = "none"
<1> DEFINE i == sup[s].rid
<1>1. i \in Runs /\ rec[i] # "none" /\ sup[s].stage \in {"none", "implement", "address"}
  BY DEF Trigger, Numbered, DriveTyped, SupSet
<1>2. ASSUME NEW g \in {"none", "implement", "address"}, NEW v,
             v = [NoRun EXCEPT !.st = "unlisted", !.stage = g]
      PROVE  v \in RunSet /\ v.st = "unlisted" /\ v.step = "none"
  BY <1>2 DEF NoRun, RunSet
<1>3. \/ run' = run
      \/ run' = [run EXCEPT ![i] = [NoRun EXCEPT !.st = "unlisted",
                                                       !.stage = sup[s].stage]]
  BY DEF Trigger, Ask
<1>4. rec' = rec \/ rec' = [rec EXCEPT ![i] = "failed"]
  BY DEF Trigger, Failed
<1>5. Go(s, "discover") \/ sup' = [sup EXCEPT ![s] = Pass]
  BY DEF Trigger, Failed
<1> HIDE DEF i
<1>6. /\ run' \in [Runs -> RunSet] /\ (\A r \in Runs \ {i} : run'[r] = run[r])
      /\ \A r \in Runs : \/ run'[r] = run[r]
                         \/ run'[r].st = "unlisted" /\ run'[r].step = "none"
  <2>1. PICK v : /\ v = [NoRun EXCEPT !.st = "unlisted", !.stage = sup[s].stage]
                 /\ run' = run \/ run' = [run EXCEPT ![i] = v]
    BY <1>3
  <2>2. v \in RunSet /\ v.st = "unlisted" /\ v.step = "none"
    BY <1>1, <1>2, <2>1
  <2> QED
    <3>1. CASE run' = run
      BY <3>1 DEF DriveTyped
    <3>2. CASE run' = [run EXCEPT ![i] = v]
      BY <1>1, <3>2, <2>2 DEF DriveTyped
    <3> QED
      BY <2>1, <3>1, <3>2
<1>7. rec' \in [Runs -> RecSet] /\ \A r \in Runs : rec'[r] = "none" <=> rec[r] = "none"
  BY <1>1, <1>4 DEF DriveTyped, RecSet
<1> QED
  BY <1>5, <1>6, <1>7, GoOutcome, ResetOutcome DEF DriveTyped, Passes, i

LEMMA DiscoverOutcome ==
    ASSUME DriveTyped, Numbered, NEW s \in Supers, Discover(s)
    PROVE  /\ sup' \in [Supers -> SupSet] /\ (\A z \in Supers \ {s} : sup'[z] = sup[z])
           /\ sup'[s].pc = "idle"
           /\ rec' \in [Runs -> RecSet]
           /\ \A r \in Runs : rec'[r] = "none" <=> rec[r] = "none"
<1>1. sup' = [sup EXCEPT ![s] = Pass]
  BY DEF Discover, Failed
<1>2. PICK f \in {"dispatched", "failed"} : rec' = [rec EXCEPT ![sup[s].rid] = f]
  BY DEF Discover, Failed
<1>3. sup[s].rid \in Runs /\ rec[sup[s].rid] # "none" /\ rec \in [Runs -> RecSet]
  BY DEF Numbered, Discover, DriveTyped
<1>4. rec' \in [Runs -> RecSet] /\ \A r \in Runs : rec'[r] = "none" <=> rec[r] = "none"
  BY <1>2, <1>3 DEF RecSet
<1> QED
  BY <1>1, <1>4, ResetOutcome DEF DriveTyped


Worker(r) == \/ Start(r) \/ Work(r) \/ Link(r) \/ Report(r) \/ Refuse(r)
             \/ Cancel(r)
LEMMA WorkerOutcome ==
    ASSUME run \in [Runs -> RunSet], NEW r \in Runs, Worker(r)
    PROVE  /\ run' \in [Runs -> RunSet] /\ UNCHANGED <<rec, sup, gate>>
           /\ \A q \in Runs \ {r} : run'[q] = run[q]
           /\ run[r].st \in Turning /\ run'[r].st \in {"running", "done"}
           /\ run'[r].turn = run[r].turn
<1>1. ASSUME NEW a \in {"position", "link", "report"}, NEW v,
             v = [run[r] EXCEPT !.st = "running", !.step = a]
      PROVE  v \in RunSet /\ v.st = "running" /\ v.turn = run[r].turn
  BY <1>1, ZenonT(60) DEF RunSet
<1>2. ASSUME NEW a \in {"position", "link", "report"}, NEW v, v = [run[r] EXCEPT !.step = a],
             run[r].st = "running"
      PROVE  v \in RunSet /\ v.st = "running" /\ v.turn = run[r].turn
  BY <1>2 DEF RunSet
<1>3. CASE Start(r)
  BY <1>1, <1>3 DEF Start, Turning
<1>4. ASSUME NEW a, NEW b \in {"position", "link", "report"}, Step(r, a, b)
      PROVE  /\ run' \in [Runs -> RunSet] /\ \A q \in Runs \ {r} : run'[q] = run[q]
             /\ run[r].st \in Turning /\ run'[r].st \in {"running", "done"}
             /\ run'[r].turn = run[r].turn
  <2>1. run[r].st = "running" /\ run' = [run EXCEPT ![r] = [run[r] EXCEPT !.step = b]]
    BY <1>4 DEF Step
  <2> QED
    BY <2>1, <1>2 DEF Turning
<1>5. CASE Work(r) \/ Link(r)
  <2>1. \E a \in {"position", "link"}, b \in {"link", "report"} : Step(r, a, b)
    BY <1>5 DEF Work, Link
  <2>2. UNCHANGED <<rec, sup, gate>>
    BY <1>5 DEF Work, Link
  <2> QED
    BY <2>1, <2>2, <1>4
<1>6. CASE Report(r) \/ Refuse(r) \/ Cancel(r)
  BY <1>6, CancelledOutcome, SMTT(60) DEF Report, Refuse, Cancel, Turning
<1> QED
  BY <1>3, <1>5, <1>6 DEF Worker

\* The runs.
LEMMA RunsTyped == ASSUME DriveTyped, Numbered, Next PROVE run' \in [Runs -> RunSet]
<1> USE DEF DriveTyped
<1>1. ASSUME NEW r \in Runs, Worker(r)
      PROVE  run' \in [Runs -> RunSet]
  BY <1>1, WorkerOutcome
<1>2. ASSUME NEW r \in Runs, Appear(r)
      PROVE  run' \in [Runs -> RunSet]
  BY <1>2, QueueOutcome DEF Appear
<1>3. ASSUME NEW r \in Runs, Retry(r)
      PROVE  run' \in [Runs -> RunSet]
  BY <1>3, QueueOutcome DEF Retry
<1>4. ASSUME NEW s \in Supers, Trigger(s)
      PROVE  run' \in [Runs -> RunSet]
  BY <1>4, TriggerOutcome DEF DriveTyped
<1>5. CASE UNCHANGED run
  BY <1>5, SMTT(60)
<1> QED
  BY <1>1, <1>2, <1>3, <1>4, <1>5 DEF Next, Worker, Look, Poll, Read,
     Persist, Discover, Crash,
     Human, GateFirst, GateSecond, GateEnd

\* The records.
LEMMA RecordsTyped ==
    ASSUME MaxRuns \in Nat, DriveTyped, Numbered, Next
    PROVE  rec' \in [Runs -> RecSet]
<1> USE DEF DriveTyped
<1>1. ASSUME NEW s \in Supers, Persist(s)
      PROVE  rec' \in [Runs -> RecSet]
  BY <1>1, PersistOutcome DEF RecSet
<1>2. ASSUME NEW s \in Supers, Trigger(s)
      PROVE  rec' \in [Runs -> RecSet]
  BY <1>2, TriggerOutcome DEF DriveTyped
<1>3. ASSUME NEW s \in Supers, Discover(s)
      PROVE  rec' \in [Runs -> RecSet]
  BY <1>3, DiscoverOutcome DEF DriveTyped
<1>4. CASE UNCHANGED rec
  BY <1>4
<1> QED
  BY <1>1, <1>2, <1>3, <1>4, ZenonT(60) DEF Next, Appear, Start, Work, Link, Report,
     Refuse, Cancel, Retry,
     Look, Poll, Read, Crash, Human, GateFirst, GateSecond,
     GateEnd

\* The passes.
LEMMA PassesTyped ==
    ASSUME MaxRuns \in Nat, DriveTyped, Numbered, Next
    PROVE  sup' \in [Supers -> SupSet]
<1> USE DEF DriveTyped
<1>1. ASSUME NEW r \in Runs, Appear(r)
      PROVE  sup' \in [Supers -> SupSet]
  BY <1>1, StirOutcome DEF Appear
<1>2. ASSUME NEW r \in Runs, Retry(r)
      PROVE  sup' \in [Supers -> SupSet]
  BY <1>2, StirOutcome DEF Retry
<1>3. ASSUME NEW s \in Supers, NEW wait \in BOOLEAN,
            NEW fallback \in BOOLEAN, Look(s, wait, fallback)
      PROVE  sup' \in [Supers -> SupSet]
  BY <1>3, LookOutcome
<1>4. ASSUME NEW s \in Supers, Poll(s)
      PROVE  sup' \in [Supers -> SupSet]
  BY <1>4, GoOutcome, ResetOutcome DEF Poll, Passes
<1>5. ASSUME NEW s \in Supers, Read(s)
      PROVE  sup' \in [Supers -> SupSet]
  BY <1>5, ReadOutcome
<1>6. ASSUME NEW s \in Supers, Persist(s)
      PROVE  sup' \in [Supers -> SupSet]
  BY <1>6, PersistOutcome DEF DriveTyped
<1>7. ASSUME NEW s \in Supers, Trigger(s)
      PROVE  sup' \in [Supers -> SupSet]
  BY <1>7, TriggerOutcome DEF DriveTyped
<1>8. ASSUME NEW s \in Supers, Discover(s)
      PROVE  sup' \in [Supers -> SupSet]
  BY <1>8, DiscoverOutcome DEF DriveTyped
<1>9. ASSUME NEW s \in Supers, Crash(s)
      PROVE  sup' \in [Supers -> SupSet]
  BY <1>9, ResetOutcome DEF Crash
<1>10. CASE UNCHANGED sup
  BY <1>10
<1> QED
  BY <1>1, <1>2, <1>3, <1>4, <1>5, <1>6, <1>7, <1>8, <1>9, <1>10 DEF Next, Start,
     Work, Link,
     Report, Refuse, Cancel, Human, GateFirst, GateSecond, GateEnd

\* The link.
LEMMA LinkedTyped == ASSUME DriveTyped, Next PROVE linked' \in BOOLEAN
<1> USE DEF DriveTyped
<1>1. ASSUME NEW r \in Runs, Link(r)
      PROVE  linked' \in BOOLEAN
  BY <1>1 DEF Link, Step
<1>2. CASE UNCHANGED linked
  BY <1>2
<1> QED
  BY <1>1, <1>2, ZenonT(60) DEF Next, Appear, Start, Work, Report, Refuse,
     Cancel, Retry, Look, Poll, Read,
     Persist, Trigger, Discover, Crash, Human, GateFirst,
     GateSecond, GateEnd

\* The observation.
LEMMA GateTyped == ASSUME DriveTyped, Next PROVE gate' \in GateSet
<1> USE DEF DriveTyped, GateSet, RunSet, Runs
<1>1. CASE GateFirst
  BY <1>1 DEF GateFirst, Listed, Turns, Statuses
<1>2. CASE GateSecond
  BY <1>2 DEF GateSecond, Listed, Turns, Active, Others, Statuses
<1>3. CASE GateEnd
  BY <1>3 DEF GateEnd, NoGate
<1>4. CASE UNCHANGED gate
  BY <1>4, SMTT(60)
<1> QED
  BY <1>1, <1>2, <1>3, <1>4, ZenonT(60) DEF Next, Appear, Start, Work, Link, Report,
     Refuse, Cancel, Retry,
     Look, Poll, Read, Persist, Trigger, Discover, Crash, Human

\* A new record takes the next number.
LEMMA NumberedKept == ASSUME MaxRuns \in Nat, DriveTyped, Numbered, Next PROVE Numbered'
<1> USE DEF Numbered
<1>1. ASSUME NEW r \in Runs, Worker(r)
      PROVE  Numbered'
  <2>1. \A q \in Runs : run'[q].st = "none" <=> run[q].st = "none"
    BY <1>1, WorkerOutcome DEF DriveTyped, Turning
  <2> QED
    BY <1>1, <2>1, WorkerOutcome DEF DriveTyped
<1>2. ASSUME NEW r \in Runs, Appear(r)
      PROVE  Numbered'
  <2>1. \A q \in Runs : run'[q].st = "none" <=> run[q].st = "none"
    BY <1>2, QueueOutcome DEF Appear, DriveTyped, Turning
  <2>2. \A s \in Supers : /\ sup'[s].pc = sup[s].pc
                          /\ sup[s].pc # "idle" => sup'[s].rid = sup[s].rid
    BY <1>2, StirOutcome DEF Appear, DriveTyped
  <2> QED
    BY <1>2, <2>1, <2>2 DEF Appear
<1>3. ASSUME NEW r \in Runs, Retry(r)
      PROVE  Numbered'
  <2>1. \A q \in Runs : run'[q].st = "none" <=> run[q].st = "none"
    BY <1>3, QueueOutcome DEF Retry, DriveTyped, Turning
  <2>2. \A s \in Supers : /\ sup'[s].pc = sup[s].pc
                          /\ sup[s].pc # "idle" => sup'[s].rid = sup[s].rid
    BY <1>3, StirOutcome DEF Retry, DriveTyped
  <2> QED
    BY <1>3, <2>1, <2>2 DEF Retry
<1>4. ASSUME NEW s \in Supers, NEW wait \in BOOLEAN,
            NEW fallback \in BOOLEAN, Look(s, wait, fallback)
      PROVE  Numbered'
  <2>1. UNCHANGED <<run, rec>> /\ \A z \in Supers \ {s} : sup'[z] = sup[z]
    BY <1>4, LookOutcome DEF Look, DriveTyped
  <2>2. sup'[s].pc = "read" \/ sup'[s].pc = "poll"
    BY <1>4, LookOutcome DEF DriveTyped
  <2> QED
    BY <2>1, <2>2, SMTT(60)
<1>5. ASSUME NEW s \in Supers, Poll(s)
      PROVE  Numbered'
  <2>1. UNCHANGED <<run, rec>> /\ \A z \in Supers \ {s} : sup'[z] = sup[z]
    BY <1>5, GoOutcome, ResetOutcome DEF Poll, Passes, DriveTyped
  <2>2. sup'[s].pc \notin {"trigger", "discover"}
    BY <1>5, GoOutcome, ResetOutcome DEF Poll, Passes, DriveTyped
  <2> QED
    BY <2>1, <2>2
<1>6. ASSUME NEW s \in Supers, Read(s)
      PROVE  Numbered'
  <2>1. UNCHANGED <<run, rec>> /\ \A z \in Supers \ {s} : sup'[z] = sup[z]
    BY <1>6, ReadOutcome DEF Read, DriveTyped
  <2>2. sup'[s].pc \notin {"trigger", "discover"}
    BY <1>6, ReadOutcome DEF Read, DriveTyped
  <2> QED
    BY <2>1, <2>2
<1>7. ASSUME NEW s \in Supers, Persist(s)
      PROVE  Numbered'
  <2>1. PICK r \in Runs :
              /\ rec' = [rec EXCEPT ![r] = "dispatching"]
              /\ rec[r] = "none" /\ (\A q \in Runs : rec[q] # "none" <=> q <= r - 1)
              /\ sup' \in [Supers -> SupSet] /\ (\A z \in Supers \ {s} : sup'[z] = sup[z])
              /\ sup'[s].pc = "trigger" /\ sup'[s].rid = r
    BY <1>7, PersistOutcome
  <2>2. run' = run /\ run[r].st = "none" /\ r \in Nat
    BY <1>7, <2>1 DEF Persist, Runs
  <2>3. \A q \in Runs : rec'[q] = IF q = r THEN "dispatching" ELSE rec[q]
    BY <2>1 DEF DriveTyped
  <2>4. \A q \in Runs : rec'[q] # "none" <=> q <= r
    BY <2>1, <2>2, <2>3 DEF Runs
  <2>5. \A z \in Supers : sup[z].pc \in {"trigger", "discover"} => sup[z].rid # r
    BY <2>1
  <2>6. \E k \in Nat : \A q \in Runs : rec'[q] # "none" <=> q <= k
    BY <2>2, <2>4
  <2>7. \A q \in Runs : rec'[q] = "none" => run'[q].st = "none"
    BY <2>2, <2>3
  <2>8. \A z \in Supers : sup'[z].pc \in {"trigger", "discover"} =>
            sup'[z].rid \in Runs /\ rec'[sup'[z].rid] # "none"
    BY <2>1, <2>3
  <2>9. \A z \in Supers : sup'[z].pc = "trigger" =>
            /\ run'[sup'[z].rid].st = "none"
            /\ \A y \in Supers : sup'[y].pc = "trigger" /\ sup'[y].rid = sup'[z].rid => y = z
    BY <2>1, <2>2, <2>5
  <2> QED
    BY <2>6, <2>7, <2>8, <2>9
<1>8. ASSUME NEW s \in Supers, Trigger(s)
      PROVE  Numbered'
  <2>1. /\ sup[s].pc = "trigger"
        /\ \A z \in Supers \ {s} : sup[z].pc = "trigger" => sup[z].rid # sup[s].rid
    BY <1>8 DEF Trigger
  <2>2. rec[sup[s].rid] # "none"
    BY <2>1
  <2>3. sup'[s].pc = "discover" => sup'[s].rid = sup[s].rid
    BY <1>8, GoOutcome, SMTT(60) DEF Trigger, Failed, Pass, Passes, DriveTyped
  <2> QED
    BY <1>8, TriggerOutcome, <2>1, <2>2, <2>3
<1>9. ASSUME NEW s \in Supers, Discover(s)
      PROVE  Numbered'
  BY <1>9, DiscoverOutcome DEF Discover
<1>10. ASSUME NEW s \in Supers, Crash(s)
      PROVE  Numbered'
  <2>1. UNCHANGED <<run, rec>> /\ \A z \in Supers \ {s} : sup'[z] = sup[z]
    BY <1>10, ResetOutcome DEF Crash, DriveTyped
  <2>2. sup'[s].pc \notin {"trigger", "discover"}
    BY <1>10, ResetOutcome DEF Crash, DriveTyped
  <2> QED
    BY <2>1, <2>2
<1>11. CASE UNCHANGED <<run, rec, sup>>
  BY <1>11
<1> QED
  BY <1>1, <1>2, <1>3, <1>4, <1>5, <1>6, <1>7, <1>8, <1>9, <1>10, <1>11 DEF Next, Worker,
     Human, GateFirst, GateSecond, GateEnd

\* Only a worker that submitted links.
LEMMA LinkableKept ==
    ASSUME MaxRuns \in Nat, DriveTyped, Numbered, Linkable, Next
    PROVE  Linkable'
<1> USE DEF DriveTyped, RunSet, Linkable
<1>1. ASSUME NEW r \in Runs, Appear(r)
      PROVE  Linkable'
  BY <1>1, QueueOutcome DEF Appear, Turning
<1>2. ASSUME NEW r \in Runs, Start(r)
      PROVE  Linkable'
  BY <1>2 DEF Start, Listed
<1>3. ASSUME NEW r \in Runs, Work(r)
      PROVE  Linkable'
  BY <1>3 DEF Work, Step, Fault, Submitted, Answered
<1>4. ASSUME NEW r \in Runs, Link(r)
      PROVE  Linkable'
  BY <1>4 DEF Link, Step
<1>5. ASSUME NEW r \in Runs, Report(r)
      PROVE  Linkable'
  BY <1>5, CancelledOutcome DEF Report
<1>6. ASSUME NEW r \in Runs, Refuse(r)
      PROVE  Linkable'
  BY <1>6, CancelledOutcome DEF Refuse
<1>7. ASSUME NEW r \in Runs, Cancel(r)
      PROVE  Linkable'
  BY <1>7, CancelledOutcome DEF Cancel
<1>8. ASSUME NEW r \in Runs, Retry(r)
      PROVE  Linkable'
  BY <1>8, QueueOutcome DEF Retry, Turning
<1>9. ASSUME NEW s \in Supers, Trigger(s)
      PROVE  Linkable'
  BY <1>9, TriggerOutcome, SMTT(60) DEF Trigger
<1>10. CASE Human
  BY <1>10 DEF Human
<1>11. CASE UNCHANGED <<run, pr, linked>>
  BY <1>11
<1> QED
  BY <1>1, <1>2, <1>3, <1>4, <1>5, <1>6, <1>7, <1>8, <1>9, <1>10, <1>11 DEF Next, Look,
     Poll,
     Read, Persist, Discover, Crash, GateFirst, GateSecond, GateEnd

\* A run that is queued stirs every pass.
LEMMA CalmKept ==
    ASSUME MaxRuns \in Nat, DriveTyped, Numbered, Linkable, Calm, Next
    PROVE  Calm'
<1> USE DEF Calm, Turning
<1>1. ASSUME NEW r \in Runs, Worker(r)
      PROVE  Calm'
  <2>1. /\ \A q \in Runs : run'[q].st \in Turning => run[q].st \in Turning
        /\ run[r].st \in Turning /\ sup' = sup
    BY <1>1, WorkerOutcome DEF DriveTyped
  <2>2. linked' = linked \/ Link(r)
    BY <1>1 DEF Worker, Start, Work, Report, Refuse, Cancel
  <2> QED
    BY <2>1, <2>2
<1>2. ASSUME NEW r \in Runs, Appear(r)
      PROVE  Calm'
  <2>1. \A z \in Supers : sup'[z].pc = sup[z].pc /\ (sup[z].pc # "idle" => ~ sup'[z].calm)
    BY <1>2, StirOutcome DEF Appear, DriveTyped
  <2> QED
    BY <2>1
<1>3. ASSUME NEW r \in Runs, Retry(r)
      PROVE  Calm'
  <2>1. \A z \in Supers : sup'[z].pc = sup[z].pc /\ (sup[z].pc # "idle" => ~ sup'[z].calm)
    BY <1>3, StirOutcome DEF Retry, DriveTyped
  <2> QED
    BY <2>1
<1>4. ASSUME NEW s \in Supers, NEW wait \in BOOLEAN,
            NEW fallback \in BOOLEAN, Look(s, wait, fallback)
      PROVE  Calm'
  <2>1. UNCHANGED <<run, linked>> /\ \A z \in Supers \ {s} : sup'[z] = sup[z]
    BY <1>4, LookOutcome, ZenonT(60) DEF Look, DriveTyped
  <2>2. \/ sup'[s].pc = "read" /\ (sup'[s].calm => Active = {})
        \/ sup'[s].pc = "poll" /\ (sup'[s].calm => Active = {sup'[s].rid})
    BY <1>4, LookOutcome DEF DriveTyped
  <2>3. \A q \in Runs : run[q].st \in Turning => q \in Active
    BY DEF Active
  <2> QED
    BY <2>1, <2>2, <2>3, SMTT(60)
<1>5. ASSUME NEW s \in Supers, Poll(s)
      PROVE  Calm'
  <2>1. UNCHANGED <<run, linked>> /\ \A z \in Supers \ {s} : sup'[z] = sup[z]
    BY <1>5, GoOutcome, ResetOutcome DEF Poll, DriveTyped, Passes
  <2>2. \/ sup'[s].pc = "idle"
        \/ sup'[s].pc = "read" /\ sup'[s].calm = sup[s].calm /\ run[sup[s].rid].st = "done"
    BY <1>5, GoOutcome, ResetOutcome DEF Poll, DriveTyped, Passes
  <2> QED
    BY <1>5, <2>1, <2>2 DEF Poll
<1>6. ASSUME NEW s \in Supers, Read(s)
      PROVE  Calm'
  <2>1. UNCHANGED <<run, linked>> /\ \A z \in Supers \ {s} : sup'[z] = sup[z]
    BY <1>6, ReadOutcome DEF Read, DriveTyped
  <2>2. \/ sup'[s].pc = "idle"
        \/ /\ sup'[s].pc = "persist" /\ sup'[s].calm = sup[s].calm
           /\ sup'[s].stage = "implement" => ~ linked
    BY <1>6, ReadOutcome DEF DriveTyped, Linkable, Seen
  <2> QED
    BY <1>6, <2>1, <2>2 DEF Read
<1>7. ASSUME NEW s \in Supers, Persist(s)
      PROVE  Calm'
  <2>1. UNCHANGED <<run, linked>> /\ (\A z \in Supers \ {s} : sup'[z] = sup[z])
        /\ sup'[s].pc = "trigger" /\ sup'[s].calm = sup[s].calm /\ sup'[s].stage = sup[s].stage
    BY <1>7, PersistOutcome DEF Persist
  <2>2. sup[s].pc = "persist"
    BY <1>7 DEF Persist
  <2> QED
    BY <2>1, <2>2
<1>8. ASSUME NEW s \in Supers, Trigger(s)
      PROVE  Calm'
  <2>1. linked' = linked /\ (\A z \in Supers \ {s} : sup'[z] = sup[z])
        /\ sup'[s].pc \in {"idle", "discover"}
    BY <1>8, TriggerOutcome DEF Trigger
  <2>2. \A q \in Runs : run'[q].st \in Turning => run[q].st \in Turning
    BY <1>8, TriggerOutcome
  <2> QED
    BY <2>1, <2>2
<1>9. ASSUME NEW s \in Supers, Discover(s)
      PROVE  Calm'
  <2>1. UNCHANGED <<run, linked>> /\ \A z \in Supers \ {s} : sup'[z] = sup[z]
    BY <1>9, DiscoverOutcome DEF Discover, DriveTyped
  <2>2. sup'[s].pc \notin {"read", "poll", "persist", "trigger"}
    BY <1>9, DiscoverOutcome DEF Discover, DriveTyped
  <2> QED
    BY <2>1, <2>2
<1>10. ASSUME NEW s \in Supers, Crash(s)
      PROVE  Calm'
  <2>1. UNCHANGED <<run, linked>> /\ \A z \in Supers \ {s} : sup'[z] = sup[z]
    BY <1>10, ResetOutcome DEF Crash, DriveTyped
  <2>2. sup'[s].pc \notin {"read", "poll", "persist", "trigger"}
    BY <1>10, ResetOutcome DEF Crash, DriveTyped
  <2> QED
    BY <2>1, <2>2
<1>11. CASE UNCHANGED <<run, sup, linked>>
  BY <1>11
<1> QED
  BY <1>1, <1>2, <1>3, <1>4, <1>5, <1>6, <1>7, <1>8, <1>9, <1>10, <1>11 DEF Next, Worker,
     Human, GateFirst, GateSecond, GateEnd

\* A run is queued before it is in progress, in every turn.
LEMMA HalfKept == ASSUME MaxRuns \in Nat, DriveTyped, Numbered, Half, Next PROVE Half'
<1> USE DEF DriveTyped, Half
<1>1. ASSUME NEW r \in Runs, Worker(r)
      PROVE  Half'
  <2>1. gate' = gate /\ \A x \in Runs :
           /\ run'[x].turn = run[x].turn
           /\ run[x].st # "none" => run'[x].st # "none"
           /\ run[x].st \in {"running", "done"} => run'[x].st \in {"running", "done"}
    BY <1>1, WorkerOutcome
  <2>7. ASSUME NEW x \in Runs, NEW t \in Nat, gate.pc = "half", <<x, t>> \in gate.live
        PROVE  /\ x # gate.self /\ run'[x].st # "none" /\ t <= run'[x].turn
               /\ ~ gate.found /\ run'[x].turn = t => run'[x].st \in {"running", "done"}
    <3>1. /\ x # gate.self /\ run[x].st # "none" /\ t <= run[x].turn
          /\ ~ gate.found /\ run[x].turn = t => run[x].st \in {"running", "done"}
      BY <2>7
    <3> QED
      BY <2>1, <3>1
  <2> QED
    BY <2>1, <2>7
<1>2. ASSUME NEW r \in Runs, Appear(r)
      PROVE  Half'
  <2>1. \A x \in Runs :
           /\ run'[x].turn >= run[x].turn /\ (run[x].st # "none" => run'[x].st # "none")
           /\ run'[x].turn = run[x].turn /\ run[x].st \in {"running", "done"} =>
                 run'[x].st \in {"running", "done"}
    BY <1>2, QueueOutcome DEF Appear, DriveTyped, RunSet, Turning
  <2>2. gate' = gate /\ \A x \in Runs : run[x].turn \in Nat /\ run'[x].turn \in Nat
    BY <1>2, QueueOutcome DEF Appear, DriveTyped, RunSet
  <2>7. ASSUME NEW x \in Runs, NEW t \in Nat, gate.pc = "half", <<x, t>> \in gate.live
        PROVE  /\ x # gate.self /\ run'[x].st # "none" /\ t <= run'[x].turn
               /\ ~ gate.found /\ run'[x].turn = t => run'[x].st \in {"running", "done"}
    <3>1. /\ x # gate.self /\ run[x].st # "none" /\ t <= run[x].turn
          /\ ~ gate.found /\ run[x].turn = t => run[x].st \in {"running", "done"}
      BY <2>7
    <3> HIDE DEF DriveTyped, Half
    <3>2. t <= run'[x].turn /\ (run'[x].turn = t => run[x].turn = t)
      <4>1. PICK m, n : m = run[x].turn /\ n = run'[x].turn
        OBVIOUS
      <4>2. m \in Nat /\ n \in Nat /\ n >= m /\ t <= m
        BY <2>1, <2>2, <3>1, <4>1
      <4>3. t <= n /\ (n = t => m = t)
        BY <4>2
      <4> QED
        BY <4>1, <4>3
    <3> QED
      BY <2>1, <3>1, <3>2
  <2> QED
    BY <2>2, <2>7
<1>3. ASSUME NEW r \in Runs, Retry(r)
      PROVE  Half'
  <2>1. \A x \in Runs :
           /\ run'[x].turn >= run[x].turn /\ (run[x].st # "none" => run'[x].st # "none")
           /\ run'[x].turn = run[x].turn /\ run[x].st \in {"running", "done"} =>
                 run'[x].st \in {"running", "done"}
    BY <1>3, QueueOutcome DEF Retry, DriveTyped, RunSet, Turning
  <2>2. gate' = gate /\ \A x \in Runs : run[x].turn \in Nat /\ run'[x].turn \in Nat
    BY <1>3, QueueOutcome DEF Retry, DriveTyped, RunSet
  <2>7. ASSUME NEW x \in Runs, NEW t \in Nat, gate.pc = "half", <<x, t>> \in gate.live
        PROVE  /\ x # gate.self /\ run'[x].st # "none" /\ t <= run'[x].turn
               /\ ~ gate.found /\ run'[x].turn = t => run'[x].st \in {"running", "done"}
    <3>1. /\ x # gate.self /\ run[x].st # "none" /\ t <= run[x].turn
          /\ ~ gate.found /\ run[x].turn = t => run[x].st \in {"running", "done"}
      BY <2>7
    <3> HIDE DEF DriveTyped, Half
    <3>2. t <= run'[x].turn /\ (run'[x].turn = t => run[x].turn = t)
      <4>1. PICK m, n : m = run[x].turn /\ n = run'[x].turn
        OBVIOUS
      <4>2. m \in Nat /\ n \in Nat /\ n >= m /\ t <= m
        BY <2>1, <2>2, <3>1, <4>1
      <4>3. t <= n /\ (n = t => m = t)
        BY <4>2
      <4> QED
        BY <4>1, <4>3
    <3> QED
      BY <2>1, <3>1, <3>2
  <2> QED
    BY <2>2, <2>7
<1>4. ASSUME NEW s \in Supers, Trigger(s)
      PROVE  Half'
  <2>1. gate' = gate /\ \A x \in Runs : run[x].st # "none" => run'[x] = run[x]
    BY <1>4, TriggerOutcome DEF Trigger, Numbered
  <2>7. ASSUME NEW x \in Runs, NEW t \in Nat, gate.pc = "half", <<x, t>> \in gate.live
        PROVE  /\ x # gate.self /\ run'[x].st # "none" /\ t <= run'[x].turn
               /\ ~ gate.found /\ run'[x].turn = t => run'[x].st \in {"running", "done"}
    <3>1. /\ x # gate.self /\ run[x].st # "none" /\ t <= run[x].turn
          /\ ~ gate.found /\ run[x].turn = t => run[x].st \in {"running", "done"}
      BY <2>7
    <3> QED
      BY <2>1, <3>1
  <2> QED
    BY <2>1, <2>7
<1>5. CASE GateFirst
  <2>1. PICK self \in {0} \cup Listed("running") :
           gate' = [pc |-> "half", self |-> self, found |-> Listed("queued") \ {self} # {},
                    live |-> Turns((Listed("queued") \cup Listed("running")) \ {self})]
    BY <1>5 DEF GateFirst, Statuses
  <2>2. UNCHANGED run /\ \A x \in Runs : run[x].turn \in Nat
    BY <1>5 DEF GateFirst, RunSet
  <2>3. ASSUME NEW x \in Runs, NEW t \in Nat, <<x, t>> \in gate'.live
        PROVE  x # self /\ run[x].turn = t /\ run[x].st \in {"queued", "running"}
    BY <2>1, <2>3 DEF Turns, Listed
  <2>4. ASSUME NEW x \in Runs, ~ gate'.found, x # self PROVE run[x].st # "queued"
    BY <2>1, <2>4 DEF Listed
  <2>5. gate'.pc = "half" /\ gate'.self = self
    BY <2>1
  <2> QED
    BY <2>2, <2>3, <2>4, <2>5
<1>6. CASE GateSecond
  <2>1. /\ gate.pc = "half" /\ gate'.pc = "answered"
        /\ gate'.live = gate.live \cap Turns(Active)
        /\ gate'.found = (gate.found \/ Listed("running") \cap Others # {})
    BY <1>6 DEF GateSecond, GateSet, Statuses
  <2>2. SUFFICES ASSUME gate'.live # {}, ~ gate.found
                 PROVE  Listed("running") \cap Others # {}
    BY <2>1
  <2>3. PICK x \in Runs, t \in Nat :
                /\ <<x, t>> \in gate.live /\ <<x, t>> \in Turns(Active)
    <3>1. PICK e : e \in gate.live /\ e \in Turns(Active)
      BY <2>1, <2>2
    <3>2. e \in Runs \X Nat
      BY <3>1 DEF GateSet
    <3>3. PICK x \in Runs, t \in Nat : e = <<x, t>>
      BY <3>2
    <3> QED
      BY <3>1, <3>3
  <2>4. run[x].turn = t /\ run[x].st \in {"unlisted", "queued", "running"}
    BY <2>3 DEF Turns, Active
  <2>5. run[x].st = "running" /\ x # gate.self
    BY <2>1, <2>2, <2>3, <2>4
  <2> QED
    BY <2>5 DEF Listed, Others
<1>7. CASE GateEnd
  BY <1>7 DEF GateEnd, NoGate
<1>8. CASE UNCHANGED <<run, gate>>
  BY <1>8
<1> QED
  BY <1>1, <1>2, <1>3, <1>4, <1>5, <1>6, <1>7, <1>8 DEF Next, Worker, Look, Poll,
     Read,
     Persist, Discover, Crash, Human

-----------------------------------------------------------------------------
LEMMA DriveInit == MaxRuns \in Nat /\ Init => DInv
<1> SUFFICES ASSUME MaxRuns \in Nat, Init PROVE DInv
  OBVIOUS
<1>1. NoRun \in RunSet /\ NoRun.st = "none" /\ NoRun.step = "none"
  BY DEF NoRun, RunSet
<1>2. Pass \in SupSet /\ Pass.pc = "idle"
  BY DEF Pass, SupSet
<1>3. NoGate \in GateSet /\ NoGate.pc = "idle"
  BY DEF NoGate, GateSet
<1>4. DriveTyped
  BY <1>1, <1>2, <1>3 DEF Init, DriveTyped, RecSet
<1>5. \A r \in Runs : run[r].st = "none" /\ run[r].step = "none" /\ rec[r] = "none"
  BY <1>1 DEF Init
<1>6. \A s \in Supers : sup[s].pc = "idle"
  BY <1>2 DEF Init
<1>7. Numbered
  <2>1. \A r \in Runs : rec[r] # "none" <=> r <= 0
    BY <1>5 DEF Runs
  <2> QED
    BY <2>1, <1>5, <1>6 DEF Numbered
<1> QED
  BY <1>3, <1>4, <1>5, <1>6, <1>7 DEF Init, DInv, Linkable, Calm, Half

LEMMA DriveStep == MaxRuns \in Nat => (DInv /\ [Next]_vars => DInv')
<1> SUFFICES ASSUME MaxRuns \in Nat, DInv, [Next]_vars PROVE DInv'
  OBVIOUS
<1>1. CASE Next
  BY <1>1, RunsTyped, RecordsTyped, PassesTyped, GateTyped, NumberedKept, LinkableKept,
     CalmKept, HalfKept,
     LinkedTyped DEF DInv, DriveTyped
<1>2. CASE UNCHANGED vars
  BY <1>2 DEF DInv, DriveTyped, Numbered, Linkable, Calm, Half, vars
<1> QED
  BY <1>1, <1>2

\* Whoever asks, however the listing lags and whatever is cancelled, retried, lost or
\* crashed meanwhile, a run that is active throughout the writer observation is seen
\* by it, and a pass that could see every active run does not dispatch implement over
\* the pull request of the plan (run/discovery.py; run_cmd.py).
THEOREM ActiveRunsAreSeen ==
    ASSUME MaxRuns \in Nat
    PROVE  Spec => []RunsAreSeen
<1>1. Init => DInv
  BY DriveInit
<1>2. DInv /\ [Next]_vars => DInv'
  BY DriveStep
<1>3. DInv => RunsAreSeen
  BY DEF DInv, RunsAreSeen, Calm, Half
<1> QED
  BY <1>1, <1>2, <1>3, PTL DEF Spec

-----------------------------------------------------------------------------
(* The checkout of a plan.                                                 *)

CONSTANTS MaxCommits, MaxLaunches, MaxMoves
VARIABLES origin, local, track, main, mpr, learn, wt, launch, wipe, land, ncommit, nlaunch,
          nmove, crashes

Che == INSTANCE Checkout WITH pr <- mpr, run <- launch, faults <- crashes

\* Commits are numbered.
CommitSet == SUBSET Nat
TreeSet == [dir : {"none", "residue", "tree"}, reg : BOOLEAN, on : Che!Branches, bound : BOOLEAN,
            pending : BOOLEAN, ready : BOOLEAN, cut : BOOLEAN, dirty : BOOLEAN,
            unlearned : BOOLEAN, session : BOOLEAN]
LaunchSteps == {"idle", "create", "restore", "forward", "attach", "bind", "mark", "setup", "exec"}
LaunchSet == [pc : LaunchSteps, stage : {"none", "implement", "address", "learn"},
              loc : CommitSet, rem : CommitSet]
WipeSet == [pc : {"idle", "remove", "prune", "branches", "remote"}, force : BOOLEAN,
            take : BOOLEAN, residue : BOOLEAN, names : SUBSET Che!Branches]
TypedGit == /\ origin \in [Che!Branches -> CommitSet] /\ local \in [Che!Branches -> CommitSet]
            /\ track \in CommitSet /\ main \in {"trunk", "plan"}
            /\ mpr \in [st : {"none", "open", "merged"}, merged : CommitSet]
            /\ ncommit \in Nat
Typed == TypedGit /\ wt \in TreeSet /\ launch \in LaunchSet /\ wipe \in WipeSet

\* Every branch, as anybody knows it, is made of the commits that were made.
Within(c) == c = Che!Absent \/ c \subseteq 1..ncommit
Bounded == /\ \A b \in Che!Branches : Within(local[b]) /\ Within(origin[b])
           /\ Within(track) /\ Within(launch.loc) /\ Within(launch.rem)

\* A checkout holds a branch, and git keeps a branch that a checkout holds.
HeldExists == /\ wt.reg => Che!Exists(local[wt.on])
              /\ main = "plan" => Che!Exists(local["plan"])
              /\ Che!Usable => wt.reg

\* What is known of a checkout at each step of the launch.
Setups == Che!Usable =>
    /\ launch.pc \in {"mark", "setup", "exec"} => wt.bound
    /\ wt.bound /\ ~ wt.pending => wt.ready \/ wt.cut \/ launch.pc = "mark"
    /\ launch.pc = "exec" => wt.ready \/ wt.cut
    /\ wt.session => wt.bound /\ (wt.ready \/ wt.cut)

\* What a restoring launch and a wipe may rely on until they act.
Foresight == /\ launch.pc = "forward" => Che!Exists(launch.loc) /\ launch.loc \subseteq launch.rem
             /\ wipe.pc = "remove" /\ wipe.residue => wt.dir = "residue" /\ ~ wt.reg

CInv == Typed /\ Bounded /\ HeldExists /\ Setups /\ Foresight

-----------------------------------------------------------------------------
\* What the steps with several outcomes leave in run and wt.

LEMMA LaunchOutcome ==
    ASSUME NEW s \in {"implement", "address", "learn"}, Che!Launch(s)
    PROVE  /\ launch' \in LaunchSet /\ launch'.loc = Che!Absent /\ launch'.rem = Che!Absent
           /\ \/ launch'.pc = "idle"
              \/ wt.dir # "none" /\ Che!Valid /\ launch'.pc = "setup"
              \/ wt.dir = "none" /\ launch'.pc \in {"create", "restore"}
<1>1. /\ Che!NoRun \in LaunchSet /\ Che!NoRun.pc = "idle"
      /\ Che!NoRun.loc = Che!Absent /\ Che!NoRun.rem = Che!Absent
  BY DEF Che!NoRun, LaunchSet, LaunchSteps, CommitSet, Che!Absent
<1>2. ASSUME NEW r, NEW q \in LaunchSteps, r = [Che!NoRun EXCEPT !.pc = q, !.stage = s]
      PROVE  r \in LaunchSet /\ r.pc = q /\ r.loc = Che!Absent /\ r.rem = Che!Absent
  BY <1>1, <1>2 DEF LaunchSet
<1>3. \/ launch' = Che!NoRun
      \/ wt.dir # "none" /\ Che!Valid /\ launch' = [Che!NoRun EXCEPT !.pc = "setup", !.stage = s]
      \/ wt.dir = "none" /\ \E q \in {"create", "restore"} :
                               launch' = [Che!NoRun EXCEPT !.pc = q, !.stage = s]
  BY DEF Che!Launch
<1> QED
  BY <1>1, <1>2, <1>3 DEF LaunchSteps

LEMMA ProbeOutcome ==
    ASSUME Che!Probe, launch \in LaunchSet, TypedGit
    PROVE  /\ launch' \in LaunchSet
           /\ \/ launch'.pc = "idle" /\ launch'.loc = Che!Absent /\ launch'.rem = Che!Absent
              \/ /\ launch'.pc \in {"forward", "attach"}
                 /\ launch'.loc = local["plan"] /\ launch'.rem = origin["plan"]
                 /\ launch'.pc = "forward" => /\ Che!Exists(local["plan"])
                                           /\ Che!Behind(local["plan"], origin["plan"])
<1>1. /\ Che!NoRun \in LaunchSet /\ Che!NoRun.pc = "idle"
      /\ Che!NoRun.loc = Che!Absent /\ Che!NoRun.rem = Che!Absent
  BY DEF Che!NoRun, LaunchSet, LaunchSteps, CommitSet, Che!Absent
<1>2. local["plan"] \in CommitSet /\ origin["plan"] \in CommitSet
  BY DEF TypedGit, Che!Branches
<1>3. ASSUME NEW r, NEW q \in LaunchSteps,
             r = [launch EXCEPT !.pc = q, !.loc = local["plan"], !.rem = origin["plan"]]
      PROVE  r \in LaunchSet /\ r.pc = q /\ r.loc = local["plan"] /\ r.rem = origin["plan"]
  BY <1>2, <1>3 DEF LaunchSet
<1>4. \/ launch' = Che!NoRun
      \/ \E q \in {"forward", "attach"} :
            /\ launch' = [launch EXCEPT !.pc = q, !.loc = local["plan"], !.rem = origin["plan"]]
            /\ q = "forward" => /\ Che!Exists(local["plan"])
                                /\ Che!Behind(local["plan"], origin["plan"])
  BY DEF Che!Probe, Che!Refused
<1> QED
  BY <1>1, <1>3, <1>4 DEF LaunchSteps

\* A tree on which nothing has been done.
Bare(t, d, r, b) == /\ t \in TreeSet /\ t.dir = d /\ t.reg = r /\ t.on = b
                    /\ ~ t.bound /\ ~ t.session
LEMMA PlacedOutcome ==
    ASSUME wt \in TreeSet
    PROVE  /\ Bare(Che!NoTree, "none", FALSE, "plan")
           /\ Che!Placed => Bare(wt', "tree", TRUE, "plan")
           /\ Che!Removed => \E late \in BOOLEAN :
                            Bare(wt', "none", late, IF late THEN wt.on ELSE "plan")
<1>1. Bare(Che!NoTree, "none", FALSE, "plan")
  BY DEF Bare, Che!NoTree, TreeSet, Che!Branches
<1>2. ASSUME NEW t, t = [Che!NoTree EXCEPT !.dir = "tree", !.reg = TRUE]
      PROVE  Bare(t, "tree", TRUE, "plan")
  BY <1>1, <1>2 DEF Bare, TreeSet
<1>3. ASSUME NEW r \in BOOLEAN, NEW b \in Che!Branches, NEW t,
             t = [Che!NoTree EXCEPT !.reg = r, !.on = b]
      PROVE  Bare(t, "none", r, b)
  BY <1>1, <1>3, ZenonT(60) DEF Bare, TreeSet
<1>4. ASSUME Che!Removed
      PROVE  \E late \in BOOLEAN : Bare(wt', "none", late, IF late THEN wt.on ELSE "plan")
  <2>1. PICK late \in BOOLEAN :
             wt' = [Che!NoTree EXCEPT !.reg = late, !.on = IF late THEN wt.on ELSE "plan"]
    BY <1>4 DEF Che!Removed
  <2>2. (IF late THEN wt.on ELSE "plan") \in Che!Branches
    BY DEF TreeSet, Che!Branches
  <2>3. Bare(wt', "none", late, IF late THEN wt.on ELSE "plan")
    BY <2>1, <2>2, <1>3
  <2> QED
    BY <2>3
<1> QED
  BY <1>1, <1>2, <1>4 DEF Che!Placed

\* What git worktree add leaves of the branches.
LEMMA CreateOutcome ==
    ASSUME Che!CreateFresh, TypedGit
    PROVE  /\ track' \in {track, origin["plan"]}
           /\ \/ local' = local /\ wt' = wt /\ Che!Refused
              \/ /\ ~ Che!Exists(local["plan"]) /\ Che!Vacant /\ Che!Placed /\ Che!Step("bind")
                 /\ \E t \in {track, origin["plan"], {}} :
                       Che!Exists(t) /\ local' = [local EXCEPT !["plan"] = t]
<1>1. PICK t \in {track, origin["plan"]} :
        /\ track' = t
        /\ \/ local' = local /\ wt' = wt /\ Che!Refused
           \/ /\ ~ Che!Exists(local["plan"]) /\ Che!Vacant /\ Che!Placed /\ Che!Step("bind")
              /\ local' = [local EXCEPT !["plan"] = IF Che!Exists(t) THEN t ELSE {}]
  BY DEF Che!CreateFresh
<1>2. Che!Exists({})
  BY DEF Che!Exists, Che!Absent
<1> QED
  BY <1>1, <1>2

LEMMA AttachOutcome ==
    ASSUME Che!Attach
    PROVE  \/ local' = local /\ wt' = wt /\ Che!Refused
           \/ /\ Che!HeldBy("plan") = {} /\ Che!Vacant /\ Che!Placed /\ Che!Step("bind")
              /\ \/ local' = local /\ Che!Exists(local["plan"])
                 \/ /\ local' = [local EXCEPT !["plan"] = track]
                    /\ ~ Che!Exists(local["plan"]) /\ Che!Exists(track)
  BY DEF Che!Attach

LEMMA StepOutcome ==
    ASSUME launch \in LaunchSet, NEW q \in LaunchSteps, Che!Step(q)
    PROVE  /\ launch'.pc = q /\ launch'.loc = launch.loc /\ launch'.rem = launch.rem
           /\ launch' \in LaunchSet
  BY DEF LaunchSet, Che!Step

\* Both actions that place a checkout leave it on the plan's branch, which exists.
LEMMA PlacingOutcome ==
    ASSUME Typed, Che!CreateFresh \/ Che!Attach
    PROVE  /\ UNCHANGED <<origin, main, mpr, wipe, ncommit>>
           /\ track' \in {track, origin["plan"]}
           /\ launch' \in LaunchSet /\ wt' \in TreeSet /\ local' \in [Che!Branches -> CommitSet]
           /\ \/ local' = local /\ wt' = wt /\ launch' = Che!NoRun
              \/ /\ Che!Vacant /\ wt'.dir = "tree" /\ wt'.reg /\ wt'.on = "plan"
                 /\ ~ wt'.bound /\ ~ wt'.session
                 /\ launch'.pc = "bind" /\ launch'.loc = launch.loc /\ launch'.rem = launch.rem
                 /\ Che!Exists(local'["plan"]) /\ local'["side"] = local["side"]
                 /\ local'["plan"] \in {local["plan"], track, origin["plan"], {}}
<1>1. UNCHANGED <<origin, main, mpr, wipe, ncommit>> /\ track' \in {track, origin["plan"]}
  BY DEF Che!CreateFresh, Che!Attach, Che!bounds
<1>2. \/ local' = local /\ wt' = wt /\ launch' = Che!NoRun
      \/ /\ Che!Vacant /\ Che!Placed /\ Che!Step("bind")
         /\ \/ local' = local /\ Che!Exists(local["plan"])
            \/ \E t \in {track, origin["plan"], {}} :
                  Che!Exists(t) /\ local' = [local EXCEPT !["plan"] = t]
  BY CreateOutcome, AttachOutcome DEF Che!Refused, Typed
<1>3. Che!NoRun \in LaunchSet
  BY DEF Che!NoRun, LaunchSet, LaunchSteps, CommitSet, Che!Absent
<1>4. CASE local' = local /\ wt' = wt /\ launch' = Che!NoRun
  BY <1>1, <1>3, <1>4 DEF Typed, TypedGit
<1>5. CASE /\ Che!Vacant /\ Che!Placed /\ Che!Step("bind")
           /\ \/ local' = local /\ Che!Exists(local["plan"])
              \/ \E t \in {track, origin["plan"], {}} :
                    Che!Exists(t) /\ local' = [local EXCEPT !["plan"] = t]
  <2>1. /\ launch' \in LaunchSet /\ launch'.pc = "bind"
        /\ launch'.loc = launch.loc /\ launch'.rem = launch.rem
        /\ Bare(wt', "tree", TRUE, "plan")
    BY <1>5, StepOutcome, PlacedOutcome DEF LaunchSteps, Typed
  <2>2. CASE local' = local /\ Che!Exists(local["plan"])
    BY <1>1, <1>5, <2>1, <2>2 DEF Bare, Typed, TypedGit
  <2>3. ASSUME NEW t \in {track, origin["plan"], {}}, Che!Exists(t),
               local' = [local EXCEPT !["plan"] = t]
        PROVE  /\ local' \in [Che!Branches -> CommitSet] /\ Che!Exists(local'["plan"])
               /\ local'["side"] = local["side"] /\ local'["plan"] = t
    <3>1. t \in CommitSet
      BY DEF Typed, TypedGit, CommitSet, Che!Branches
    <3>2. /\ local \in [Che!Branches -> CommitSet]
          /\ "plan" \in Che!Branches /\ "side" \in Che!Branches /\ "plan" # "side"
      BY DEF Typed, TypedGit, Che!Branches
    <3> QED
      BY <3>1, <3>2, <2>3
  <2> QED
    BY <1>1, <1>5, <2>1, <2>2, <2>3 DEF Bare
<1> QED
  BY <1>2, <1>4, <1>5

LEMMA GrowthIsWithin ==
    ASSUME NEW n \in Nat
    PROVE  1..n \subseteq 1..(n + 1) /\ n + 1 \in 1..(n + 1) /\ n + 1 # 0
  OBVIOUS

\* The branches, as this clone, the remote and the pull request have them.
LEMMA GitTyped == ASSUME Typed, Che!Next PROVE TypedGit'
<1> USE DEF Typed, TypedGit, LaunchSet, CommitSet, Che!Branches, Che!Absent
<1>1. CASE Che!CreateFresh
  BY <1>1, PlacingOutcome DEF Che!NoRun, Che!bounds
<1>2. CASE Che!Probe
  BY <1>2, ProbeOutcome DEF Che!Probe, Che!bounds
<1>3. CASE Che!Forward
  BY <1>3 DEF Che!Forward, Che!Refused, Che!Step, Che!NoRun, Che!bounds
<1>4. CASE Che!Attach
  BY <1>4, PlacingOutcome, ZenonT(60) DEF Che!NoRun, Che!bounds
<1>5. CASE Che!Commit
  <2>1. local' = [local EXCEPT ![wt.on] = local[wt.on] \cup {ncommit'}] /\ ncommit' = ncommit + 1
    BY <1>5 DEF Che!Commit, Che!Grow
  <2>2. wt.on \in Che!Branches /\ ncommit + 1 \in Nat
    BY DEF TreeSet
  <2> QED
    BY <1>5, <2>1, <2>2 DEF Che!Commit
<1>6. CASE Che!Switch
  BY <1>6 DEF Che!Switch, Che!Move, Che!bounds
<1>7. CASE Che!SwitchMain
  BY <1>7, GrowthIsWithin DEF Che!SwitchMain, Che!Move, Che!Grow, Che!bounds
<1>8. ASSUME NEW b \in Che!Branches, Che!Push(b) PROVE TypedGit'
  BY <1>8 DEF Che!Push, Che!bounds
<1>9. CASE Che!PushElsewhere
  BY <1>9, GrowthIsWithin DEF Che!PushElsewhere, Che!Move, Che!bounds
<1>10. ASSUME NEW byPerk \in BOOLEAN, Che!Merge(byPerk) PROVE TypedGit'
  BY <1>10 DEF Che!Merge, Che!bounds
<1>11. CASE Che!DeleteLocal
  BY <1>11 DEF Che!DeleteLocal, Che!bounds
<1>12. CASE Che!DeleteRemote
  BY <1>12 DEF Che!DeleteRemote, Che!NoWipe, Che!bounds
<1>13. CASE UNCHANGED <<origin, local, track, main, mpr, ncommit>>
  BY <1>13
<1> QED
  BY <1>1, <1>2, <1>3, <1>4, <1>5, <1>6, <1>7, <1>8, <1>9, <1>10, <1>11, <1>12, <1>13
     DEF Che!Next, Che!Launch, Che!Bind, Che!Mark, Che!Setup, Che!Exec, Che!Crash, Che!Edit,
     Che!Leave, Che!SetMarker, Che!Capture, Che!Remove, Che!Gather, Che!Sweep, Che!Prune,
     Che!StopWipe, Che!bounds

\* The checkout.
LEMMA TreeTyped == ASSUME Typed, Che!Next PROVE wt' \in TreeSet
<1> USE DEF Typed, TreeSet, Che!Branches
<1>1. CASE Che!CreateFresh
  BY <1>1, PlacingOutcome DEF Che!NoRun, Che!bounds
<1>2. CASE Che!Attach
  BY <1>2, PlacingOutcome DEF Che!NoRun, Che!bounds
<1>3. CASE Che!Bind
  BY <1>3, ZenonT(60) DEF Che!Bind, Che!Usable, Che!Step, Che!Refused, Che!NoRun, Che!bounds
<1>4. CASE Che!Mark
  BY <1>4, ZenonT(60) DEF Che!Mark, Che!Usable, Che!Step, Che!Refused, Che!NoRun, Che!bounds
<1>5. CASE Che!Setup
  BY <1>5, StepOutcome, ZenonT(60) DEF Che!Setup, Che!Refused, Che!NoRun, Che!bounds
<1>6. CASE Che!Exec
  BY <1>6 DEF Che!Exec, Che!Refused, Che!Usable, Che!NoRun, Che!bounds
<1>7. CASE Che!Crash
  BY <1>7 DEF Che!Crash, Che!Refused, Che!NoRun, Che!bounds
<1>8. CASE Che!Edit
  BY <1>8 DEF Che!Edit, Che!Move, Che!bounds
<1>9. CASE Che!Commit
  BY <1>9, GrowthIsWithin DEF Che!Commit, Che!Grow, Che!bounds
<1>10. CASE Che!Leave
  BY <1>10 DEF Che!Leave, Che!bounds
<1>11. CASE Che!Switch
  BY <1>11 DEF Che!Switch, Che!Move, Che!bounds
<1>12. CASE Che!SetMarker
  BY <1>12 DEF Che!SetMarker, Che!bounds
<1>13. CASE Che!Capture
  BY <1>13 DEF Che!Capture, Che!bounds
<1>14. CASE Che!Remove
  BY <1>14, PlacedOutcome DEF Che!Remove, Bare, Che!bounds
<1>15. CASE Che!Sweep
  <2>1. \/ \E late \in BOOLEAN : Bare(wt', "none", late, IF late THEN wt.on ELSE "plan")
        \/ Bare(wt', "none", FALSE, "plan")
        \/ wt' = wt
    BY <1>15, PlacedOutcome DEF Che!Sweep
  <2> QED
    BY <2>1 DEF Bare
<1>16. CASE Che!Prune
  BY <1>16 DEF Che!Prune, Che!Usable, Che!bounds
<1>17. CASE UNCHANGED wt
  BY <1>17
<1> QED
  BY <1>1, <1>2, <1>3, <1>4, <1>5, <1>6, <1>7, <1>8, <1>9, <1>10, <1>11, <1>12, <1>13, <1>14,
     <1>15, <1>16, <1>17 DEF Che!Next, Che!Launch, Che!Probe, Che!Forward, Che!SwitchMain,
     Che!Push, Che!PushElsewhere, Che!Merge, Che!Gather, Che!DeleteLocal, Che!DeleteRemote,
     Che!StopWipe, Che!bounds

\* The launch in progress.
LEMMA RunTyped == ASSUME Typed, Che!Next PROVE launch' \in LaunchSet
<1> USE DEF Typed, TypedGit, LaunchSet, CommitSet, LaunchSteps, Che!Branches, Che!Absent
<1>1. ASSUME NEW s \in {"implement", "address", "learn"}, Che!Launch(s)
      PROVE  launch' \in LaunchSet
  BY <1>1, LaunchOutcome DEF Che!Launch, Che!Valid, Che!bounds
<1>2. CASE Che!CreateFresh
  BY <1>2, PlacingOutcome DEF Che!NoRun, Che!bounds
<1>3. CASE Che!Probe
  BY <1>3, ProbeOutcome DEF Che!Probe, Che!bounds
<1>4. CASE Che!Forward
  BY <1>4 DEF Che!Forward, Che!Refused, Che!Step, Che!NoRun, Che!bounds
<1>5. CASE Che!Attach
  BY <1>5, PlacingOutcome DEF Che!NoRun, Che!bounds
<1>6. CASE Che!Bind
  BY <1>6 DEF Che!Bind, Che!Usable, Che!Step, Che!Refused, Che!NoRun, Che!bounds
<1>7. CASE Che!Mark
  BY <1>7 DEF Che!Mark, Che!Usable, Che!Step, Che!Refused, Che!NoRun, Che!bounds
<1>8. CASE Che!Setup
  BY <1>8, StepOutcome DEF Che!Setup, Che!Refused, Che!NoRun, Che!bounds
<1>9. CASE Che!Exec
  BY <1>9 DEF Che!Exec, Che!Refused, Che!Usable, Che!NoRun, Che!bounds
<1>10. CASE Che!Crash
  BY <1>10 DEF Che!Crash, Che!Refused, Che!NoRun, Che!bounds
<1>11. CASE UNCHANGED launch
  BY <1>11
<1> QED
  BY <1>1, <1>2, <1>3, <1>4, <1>5, <1>6, <1>7, <1>8, <1>9, <1>10, <1>11 DEF Che!Next,
     Che!Edit, Che!Commit, Che!Leave, Che!Switch, Che!SwitchMain, Che!Push, Che!PushElsewhere,
     Che!Merge, Che!SetMarker, Che!Capture, Che!Remove, Che!Gather, Che!Sweep, Che!Prune,
     Che!DeleteLocal, Che!DeleteRemote, Che!StopWipe, Che!bounds

\* The wipe in progress.
LEMMA WipeTyped == ASSUME Typed, Che!Next PROVE wipe' \in WipeSet
<1> USE DEF Typed, WipeSet, TreeSet, Che!Branches
<1>1. ASSUME NEW force \in BOOLEAN, Che!Gather(force) PROVE wipe' \in WipeSet
  BY <1>1 DEF Che!Gather, Che!bounds
<1>2. CASE Che!Sweep
  BY <1>2, PlacedOutcome, ZenonT(60) DEF Che!Sweep, Bare, Che!bounds
<1>3. CASE Che!Prune
  BY <1>3 DEF Che!Prune, Che!Usable, Che!bounds
<1>4. CASE Che!DeleteLocal
  BY <1>4 DEF Che!DeleteLocal, Che!bounds
<1>5. CASE Che!DeleteRemote
  BY <1>5 DEF Che!DeleteRemote, Che!NoWipe, Che!bounds
<1>6. CASE Che!StopWipe
  BY <1>6 DEF Che!StopWipe, Che!NoWipe, Che!bounds
<1>7. CASE UNCHANGED wipe
  BY <1>7, SMTT(60)
<1> QED
  BY <1>1, <1>2, <1>3, <1>4, <1>5, <1>6, <1>7 DEF Che!Next, Che!Launch, Che!CreateFresh,
     Che!Probe, Che!Forward, Che!Attach, Che!Bind, Che!Mark, Che!Setup, Che!Exec, Che!Crash,
     Che!Edit, Che!Commit, Che!Leave, Che!Switch, Che!SwitchMain, Che!Push, Che!PushElsewhere,
     Che!Merge, Che!SetMarker, Che!Capture, Che!Remove, Che!bounds

\* Only Commit, SwitchMain and PushElsewhere make a commit; every other step copies
\* a branch from where it was known already.
LEMMA BoundedKept == ASSUME Typed, Bounded, HeldExists, Che!Next PROVE Bounded'
<1> USE DEF Typed, TypedGit, LaunchSet, CommitSet, Bounded, Within, Che!Branches, Che!Absent
<1>1. ASSUME NEW s \in {"implement", "address", "learn"}, Che!Launch(s) PROVE Bounded'
  BY <1>1, LaunchOutcome DEF Che!Launch, Che!Valid, Che!bounds
<1>2. CASE Che!CreateFresh
  <2>1. /\ UNCHANGED <<origin, ncommit>>
        /\ track' \in {track, origin["plan"]}
        /\ \/ local' = local
           \/ /\ local'["side"] = local["side"]
              /\ local'["plan"] \in {local["plan"], track, origin["plan"], {}}
        /\ \/ launch' = Che!NoRun
           \/ launch'.loc = launch.loc /\ launch'.rem = launch.rem
    <3> HIDE DEF Typed, TypedGit, LaunchSet, CommitSet, Within, Bounded, Che!Branches, Che!Absent
    <3>1. UNCHANGED <<origin, ncommit>> /\ track' \in {track, origin["plan"]}
      BY <1>2, PlacingOutcome
    <3>2. \/ local' = local /\ launch' = Che!NoRun
          \/ /\ local'["side"] = local["side"]
             /\ local'["plan"] \in {local["plan"], track, origin["plan"], {}}
             /\ launch'.loc = launch.loc /\ launch'.rem = launch.rem
      BY <1>2, PlacingOutcome
    <3> QED
      BY <3>1, <3>2
  <2>2. Within({}) /\ Within(Che!NoRun.loc) /\ Within(Che!NoRun.rem)
    BY DEF Che!NoRun
  <2>3. Within(track') /\ Within(launch'.loc) /\ Within(launch'.rem)
    BY <2>1, <2>2
  <2>4. \A b \in Che!Branches : Within(local'[b]) /\ Within(origin'[b])
    BY <2>1, <2>2
  <2> QED
    BY <2>1, <2>3, <2>4
<1>3. CASE Che!Probe
  BY <1>3, ProbeOutcome DEF Che!Probe, Che!bounds
<1>4. CASE Che!Forward
  BY <1>4 DEF Che!Forward, Che!Refused, Che!Step, Che!NoRun, Che!bounds
<1>5. CASE Che!Attach
  <2>1. /\ UNCHANGED <<origin, ncommit>>
        /\ track' \in {track, origin["plan"]}
        /\ \/ local' = local
           \/ /\ local'["side"] = local["side"]
              /\ local'["plan"] \in {local["plan"], track, origin["plan"], {}}
        /\ \/ launch' = Che!NoRun
           \/ launch'.loc = launch.loc /\ launch'.rem = launch.rem
    <3> HIDE DEF Typed, TypedGit, LaunchSet, CommitSet, Within, Bounded, Che!Branches, Che!Absent
    <3>1. UNCHANGED <<origin, ncommit>> /\ track' \in {track, origin["plan"]}
      BY <1>5, PlacingOutcome
    <3>2. \/ local' = local /\ launch' = Che!NoRun
          \/ /\ local'["side"] = local["side"]
             /\ local'["plan"] \in {local["plan"], track, origin["plan"], {}}
             /\ launch'.loc = launch.loc /\ launch'.rem = launch.rem
      BY <1>5, PlacingOutcome
    <3> QED
      BY <3>1, <3>2
  <2>2. Within({}) /\ Within(Che!NoRun.loc) /\ Within(Che!NoRun.rem)
    BY DEF Che!NoRun
  <2>3. Within(track') /\ Within(launch'.loc) /\ Within(launch'.rem)
    BY <2>1, <2>2
  <2>4. \A b \in Che!Branches : Within(local'[b]) /\ Within(origin'[b])
    BY <2>1, <2>2
  <2> QED
    BY <2>1, <2>3, <2>4
<1>6. CASE Che!Bind
  BY <1>6 DEF Che!Bind, Che!Usable, Che!Step, Che!Refused, Che!NoRun, Che!bounds
<1>7. CASE Che!Mark
  BY <1>7 DEF Che!Mark, Che!Usable, Che!Step, Che!Refused, Che!NoRun, Che!bounds
<1>8. CASE Che!Setup
  BY <1>8 DEF Che!Setup, Che!Step, Che!Refused, Che!NoRun, Che!bounds
<1>9. CASE Che!Exec
  BY <1>9 DEF Che!Exec, Che!Refused, Che!Usable, Che!NoRun, Che!bounds
<1>10. CASE Che!Crash
  BY <1>10 DEF Che!Crash, Che!Refused, Che!NoRun, Che!bounds
<1>11. CASE Che!Commit
  <2>1. ncommit' = ncommit + 1
    BY <1>11 DEF Che!Commit, Che!Grow
  <2>2. \A c : Within(c) => c = Che!Absent \/ c \subseteq 1..ncommit'
    BY <2>1, GrowthIsWithin
  <2>3. ncommit' \in 1..ncommit' /\ 1..ncommit \subseteq 1..ncommit' /\ Che!Absent = {0}
    BY <2>1, GrowthIsWithin
  <2> HIDE DEF Che!Absent
  <2>4. /\ \A b \in Che!Branches : local'[b] = Che!Absent \/ local'[b] \subseteq 1..ncommit'
        /\ \A b \in Che!Branches : origin'[b] = Che!Absent \/ origin'[b] \subseteq 1..ncommit'
    BY <1>11, <2>2, <2>3 DEF Che!Commit, Che!Grow, Che!Exists, TreeSet, HeldExists
  <2>5. UNCHANGED <<track, launch>>
    BY <1>11 DEF Che!Commit
  <2> QED
    BY <2>2, <2>4, <2>5
<1>12. CASE Che!Switch
  BY <1>12 DEF Che!Switch, Che!Move, Che!bounds
<1>13. CASE Che!SwitchMain
  <2>1. CASE UNCHANGED <<local, ncommit>>
    BY <1>13, <2>1 DEF Che!SwitchMain
  <2>2. CASE main = "plan" /\ Che!Grow("plan")
    <3>1. ncommit' = ncommit + 1
      BY <2>2 DEF Che!Grow
    <3>2. \A c : Within(c) => c = Che!Absent \/ c \subseteq 1..ncommit'
      BY <3>1, GrowthIsWithin
    <3>3. ncommit' \in 1..ncommit' /\ 1..ncommit \subseteq 1..ncommit' /\ Che!Absent = {0}
      BY <3>1, GrowthIsWithin
    <3> HIDE DEF Che!Absent
    <3>4. \A b \in Che!Branches : local'[b] = Che!Absent \/ local'[b] \subseteq 1..ncommit'
      BY <2>2, <3>2, <3>3 DEF Che!Grow, Che!Exists, HeldExists
    <3> QED
      BY <1>13, <3>2, <3>4 DEF Che!SwitchMain
  <2> QED
    BY <1>13, <2>1, <2>2 DEF Che!SwitchMain
<1>14. ASSUME NEW b \in Che!Branches, Che!Push(b) PROVE Bounded'
  BY <1>14 DEF Che!Push, Che!bounds
<1>15. CASE Che!PushElsewhere
  <2>1. ncommit' = ncommit + 1
    BY <1>15 DEF Che!PushElsewhere, Che!Grow
  <2>2. \A c : Within(c) => c = Che!Absent \/ c \subseteq 1..ncommit'
    BY <2>1, GrowthIsWithin
  <2>3. ncommit' \in 1..ncommit' /\ 1..ncommit \subseteq 1..ncommit' /\ Che!Absent = {0}
    BY <2>1, GrowthIsWithin
  <2> HIDE DEF Che!Absent
  <2>4. /\ \A b \in Che!Branches : local'[b] = Che!Absent \/ local'[b] \subseteq 1..ncommit'
        /\ \A b \in Che!Branches : origin'[b] = Che!Absent \/ origin'[b] \subseteq 1..ncommit'
    BY <1>15, <2>2, <2>3 DEF Che!PushElsewhere, Che!Grow, Che!Exists, TreeSet, HeldExists
  <2>5. UNCHANGED <<track, launch>>
    BY <1>15 DEF Che!PushElsewhere
  <2> QED
    BY <2>2, <2>4, <2>5
<1>16. ASSUME NEW byPerk \in BOOLEAN, Che!Merge(byPerk) PROVE Bounded'
  BY <1>16 DEF Che!Merge, Che!bounds
<1>17. CASE Che!DeleteLocal
  BY <1>17 DEF Che!DeleteLocal, Che!bounds
<1>18. CASE Che!DeleteRemote
  BY <1>18 DEF Che!DeleteRemote, Che!NoWipe, Che!bounds
<1>19. CASE UNCHANGED <<origin, local, track, launch, ncommit>>
  BY <1>19, SMTT(60)
<1> QED
  BY <1>1, <1>2, <1>3, <1>4, <1>5, <1>6, <1>7, <1>8, <1>9, <1>10, <1>11, <1>12, <1>13, <1>14,
     <1>15, <1>16, <1>17, <1>18, <1>19 DEF Che!Next, Che!Edit, Che!Leave, Che!SetMarker,
     Che!Capture, Che!Remove, Che!Gather, Che!Sweep, Che!Prune, Che!StopWipe, Che!bounds

\* A branch is deleted only where no checkout holds it, and a checkout is placed or
\* switched only onto a branch that exists.
LEMMA HeldKept == ASSUME Typed, Bounded, HeldExists, Che!Next PROVE HeldExists'
<1> USE DEF Typed, TypedGit, TreeSet, LaunchSet, WipeSet, CommitSet, LaunchSteps, HeldExists,
     Che!Exists, Che!HeldBy, Che!Usable, Che!Vacant, Che!Branches, Che!Absent
<1>1. CASE Che!CreateFresh
  <2> HIDE DEF Typed, Che!HeldBy, Che!Vacant, Che!Branches
  <2>1. \/ local' = local /\ wt' = wt /\ main' = main
        \/ /\ wt'.dir = "tree" /\ wt'.reg /\ wt'.on = "plan" /\ Che!Exists(local'["plan"])
           /\ main' = main
    BY <1>1, PlacingOutcome
  <2> QED
    BY <2>1
<1>2. CASE Che!Forward
  BY <1>2 DEF Che!Forward, Che!Refused, Che!Step, Che!NoRun, Che!bounds
<1>3. CASE Che!Attach
  <2> HIDE DEF Typed, Che!HeldBy, Che!Vacant, Che!Branches
  <2>1. \/ local' = local /\ wt' = wt /\ main' = main
        \/ /\ wt'.dir = "tree" /\ wt'.reg /\ wt'.on = "plan" /\ Che!Exists(local'["plan"])
           /\ main' = main
    BY <1>3, PlacingOutcome
  <2> QED
    BY <2>1
<1>4. CASE Che!Bind
  BY <1>4 DEF Che!Bind, Che!Usable, Che!Step, Che!Refused, Che!NoRun, Che!bounds
<1>5. CASE Che!Mark
  BY <1>5 DEF Che!Mark, Che!Usable, Che!Step, Che!Refused, Che!NoRun, Che!bounds
<1>6. CASE Che!Setup
  BY <1>6, StepOutcome, ZenonT(60) DEF Che!Setup, Che!Refused, Che!NoRun, Che!bounds
<1>7. CASE Che!Exec
  BY <1>7 DEF Che!Exec, Che!Refused, Che!Usable, Che!NoRun, Che!bounds
<1>8. CASE Che!Crash
  BY <1>8 DEF Che!Crash, Che!Refused, Che!NoRun, Che!bounds
<1>9. CASE Che!Edit
  BY <1>9 DEF Che!Edit, Che!Move, Che!bounds
<1>10. CASE Che!Commit
  BY <1>10, GrowthIsWithin DEF Che!Commit, Che!Grow, Che!bounds
<1>11. CASE Che!Leave
  BY <1>11 DEF Che!Leave, Che!bounds
<1>12. CASE Che!Switch
  BY <1>12 DEF Che!Switch, Che!Move, Che!bounds
<1>13. CASE Che!SwitchMain
  BY <1>13, GrowthIsWithin DEF Che!SwitchMain, Che!Move, Che!Grow, Che!bounds
<1>14. CASE Che!SetMarker
  BY <1>14 DEF Che!SetMarker, Che!bounds
<1>15. CASE Che!Capture
  BY <1>15 DEF Che!Capture, Che!bounds
<1>16. CASE Che!Remove
  BY <1>16, PlacedOutcome DEF Che!Remove, Bare, Che!bounds
<1>17. CASE Che!Sweep
  <2>1. UNCHANGED <<local, main>>
    BY <1>17 DEF Che!Sweep
  <2>2. CASE wt' = wt
    BY <2>1, <2>2
  <2>3. CASE Bare(wt', "none", FALSE, "plan")
    BY <2>1, <2>3 DEF Bare
  <2>4. CASE /\ wt.reg
             /\ \E late \in BOOLEAN : Bare(wt', "none", late, IF late THEN wt.on ELSE "plan")
    BY <2>1, <2>4 DEF Bare
  <2> QED
    BY <1>17, <2>2, <2>3, <2>4, PlacedOutcome, ZenonT(60) DEF Che!Sweep, Che!Removable
<1>18. CASE Che!Prune
  BY <1>18 DEF Che!Prune, Che!Usable, Che!bounds
<1>19. CASE Che!DeleteLocal
  BY <1>19, SMTT(60) DEF Che!DeleteLocal, Che!bounds
<1>20. CASE UNCHANGED <<local, main, wt>>
  BY <1>20
<1> QED
  BY <1>1, <1>2, <1>3, <1>4, <1>5, <1>6, <1>7, <1>8, <1>9, <1>10, <1>11, <1>12, <1>13, <1>14,
     <1>15, <1>16, <1>17, <1>18, <1>19, <1>20 DEF Che!Next, Che!Launch, Che!Probe, Che!Push,
     Che!PushElsewhere, Che!Merge, Che!Gather, Che!DeleteRemote, Che!StopWipe, Che!bounds

\* One launch at a time prepares the checkout: the marker is there from the binding
\* until setup has succeeded, and a checkout that was replaced starts over.
LEMMA SetupsKept == ASSUME Typed, HeldExists, Setups, Che!Next PROVE Setups'
<1> USE DEF Typed, TreeSet, LaunchSet, LaunchSteps, Setups, HeldExists, Che!Usable, Che!Vacant
<1>1. ASSUME NEW s \in {"implement", "address", "learn"}, Che!Launch(s) PROVE Setups'
  BY <1>1, LaunchOutcome DEF Che!Launch, Che!Valid, Che!bounds
<1>2. CASE Che!CreateFresh
  <2> HIDE DEF Typed, Che!Vacant
  <2>1. \/ wt' = wt /\ launch' = Che!NoRun
        \/ ~ wt'.bound /\ ~ wt'.session /\ launch'.pc = "bind"
    BY <1>2, PlacingOutcome
  <2> QED
    BY <1>2, <2>1 DEF Che!NoRun, Che!CreateFresh
<1>3. CASE Che!Probe
  BY <1>3, ProbeOutcome DEF Che!Probe, Che!bounds
<1>4. CASE Che!Forward
  BY <1>4 DEF Che!Forward, Che!Refused, Che!Step, Che!NoRun, Che!bounds
<1>5. CASE Che!Attach
  <2> HIDE DEF Typed, Che!Vacant
  <2>1. \/ wt' = wt /\ launch' = Che!NoRun
        \/ ~ wt'.bound /\ ~ wt'.session /\ launch'.pc = "bind"
    BY <1>5, PlacingOutcome
  <2> QED
    BY <1>5, <2>1 DEF Che!NoRun, Che!Attach
<1>6. CASE Che!Bind
  BY <1>6 DEF Che!Bind, Che!Usable, Che!Step, Che!Refused, Che!NoRun, Che!bounds
<1>7. CASE Che!Mark
  BY <1>7 DEF Che!Mark, Che!Usable, Che!Step, Che!Refused, Che!NoRun, Che!bounds
<1>8. CASE Che!Setup
  <2>1. CASE UNCHANGED wt /\ ((~ wt.pending /\ Che!Step("exec")) \/ Che!Refused)
    BY <1>8, <2>1, StepOutcome DEF Che!Refused, Che!NoRun, Che!Setup
  <2>2. CASE wt.pending /\ Che!Step("exec") /\ wt' = [wt EXCEPT !.pending = FALSE, !.ready = TRUE]
    BY <1>8, <2>2, StepOutcome DEF Che!Setup
  <2> QED
    BY <1>8, <2>1, <2>2 DEF Che!Setup
<1>9. CASE Che!Exec
  BY <1>9 DEF Che!Exec, Che!Refused, Che!Usable, Che!NoRun, Che!bounds
<1>10. CASE Che!Crash
  BY <1>10 DEF Che!Crash, Che!Refused, Che!NoRun, Che!bounds
<1>11. CASE Che!Edit
  BY <1>11 DEF Che!Edit, Che!Move, Che!bounds
<1>12. CASE Che!Commit
  BY <1>12, GrowthIsWithin DEF Che!Commit, Che!Grow, Che!bounds
<1>13. CASE Che!Leave
  BY <1>13 DEF Che!Leave, Che!bounds
<1>14. CASE Che!Switch
  BY <1>14 DEF Che!Switch, Che!Move, Che!bounds
<1>15. CASE Che!SetMarker
  BY <1>15 DEF Che!SetMarker, Che!bounds
<1>16. CASE Che!Capture
  BY <1>16 DEF Che!Capture, Che!bounds
<1>17. CASE Che!Remove
  BY <1>17, PlacedOutcome DEF Che!Remove, Bare, Che!bounds
<1>18. CASE Che!Sweep
  BY <1>18, PlacedOutcome, ZenonT(60) DEF Che!Sweep, Bare, Che!bounds
<1>19. CASE Che!Prune
  BY <1>19 DEF Che!Prune, Che!Usable, Che!bounds
<1>20. CASE UNCHANGED <<wt, launch>>
  BY <1>20
<1> QED
  BY <1>1, <1>2, <1>3, <1>4, <1>5, <1>6, <1>7, <1>8, <1>9, <1>10, <1>11, <1>12, <1>13, <1>14,
     <1>15, <1>16, <1>17, <1>18, <1>19, <1>20 DEF Che!Next, Che!SwitchMain, Che!Push,
     Che!PushElsewhere, Che!Merge, Che!Gather, Che!DeleteLocal, Che!DeleteRemote,
     Che!StopWipe, Che!bounds

\* The tips a probe compared stay comparable, whatever moves meanwhile, and residue
\* becomes a checkout only by being removed first.
LEMMA ForesightKept == ASSUME Typed, HeldExists, Foresight, Che!Next PROVE Foresight'
<1> USE DEF Typed, TreeSet, LaunchSet, WipeSet, LaunchSteps, Foresight, HeldExists,
     Che!Usable, Che!Vacant, Che!Exists, Che!Behind, Che!Absent
<1>1. ASSUME NEW s \in {"implement", "address", "learn"}, Che!Launch(s) PROVE Foresight'
  BY <1>1, LaunchOutcome DEF Che!Launch, Che!Valid, Che!bounds
<1>2. CASE Che!CreateFresh
  BY <1>2, PlacingOutcome DEF Che!NoRun, Che!bounds
<1>3. CASE Che!Probe
  BY <1>3, ProbeOutcome DEF Che!Probe, Che!bounds
<1>4. CASE Che!Forward
  BY <1>4 DEF Che!Forward, Che!Refused, Che!Step, Che!NoRun, Che!bounds
<1>5. CASE Che!Attach
  BY <1>5, PlacingOutcome DEF Che!NoRun, Che!bounds
<1>6. CASE Che!Bind
  BY <1>6 DEF Che!Bind, Che!Usable, Che!Step, Che!Refused, Che!NoRun, Che!bounds
<1>7. CASE Che!Mark
  BY <1>7 DEF Che!Mark, Che!Usable, Che!Step, Che!Refused, Che!NoRun, Che!bounds
<1>8. CASE Che!Setup
  <2>1. /\ Che!Step("exec") \/ Che!Refused
        /\ wt'.dir = wt.dir /\ wt'.reg = wt.reg /\ UNCHANGED wipe
    BY <1>8, ZenonT(60) DEF Che!Setup
  <2> QED
    BY <2>1, StepOutcome DEF Che!Refused, Che!NoRun
<1>9. CASE Che!Exec
  BY <1>9 DEF Che!Exec, Che!Refused, Che!Usable, Che!NoRun, Che!bounds
<1>10. CASE Che!Crash
  BY <1>10 DEF Che!Crash, Che!Refused, Che!NoRun, Che!bounds
<1>11. CASE Che!Edit
  BY <1>11 DEF Che!Edit, Che!Move, Che!bounds
<1>12. CASE Che!Commit
  BY <1>12, GrowthIsWithin DEF Che!Commit, Che!Grow, Che!bounds
<1>13. CASE Che!Leave
  BY <1>13 DEF Che!Leave, Che!bounds
<1>14. CASE Che!Switch
  BY <1>14 DEF Che!Switch, Che!Move, Che!bounds
<1>15. CASE Che!SetMarker
  BY <1>15 DEF Che!SetMarker, Che!bounds
<1>16. CASE Che!Capture
  BY <1>16 DEF Che!Capture, Che!bounds
<1>17. CASE Che!Remove
  <2>1. wt.reg /\ UNCHANGED <<launch, wipe>>
    BY <1>17 DEF Che!Remove, Che!Removable
  <2> QED
    BY <2>1
<1>18. ASSUME NEW force \in BOOLEAN, Che!Gather(force) PROVE Foresight'
  BY <1>18 DEF Che!Gather, Che!bounds
<1>19. CASE Che!Sweep
  BY <1>19, PlacedOutcome, ZenonT(60) DEF Che!Sweep, Bare, Che!bounds
<1>20. CASE Che!Prune
  BY <1>20 DEF Che!Prune, Che!Usable, Che!bounds
<1>21. CASE Che!DeleteLocal
  BY <1>21 DEF Che!DeleteLocal, Che!bounds
<1>22. CASE Che!DeleteRemote
  BY <1>22 DEF Che!DeleteRemote, Che!NoWipe, Che!bounds
<1>23. CASE Che!StopWipe
  BY <1>23 DEF Che!StopWipe, Che!NoWipe, Che!bounds
<1>24. CASE UNCHANGED <<launch, wipe, wt>>
  BY <1>24, SMTT(60)
<1> QED
  BY <1>1, <1>2, <1>3, <1>4, <1>5, <1>6, <1>7, <1>8, <1>9, <1>10, <1>11, <1>12, <1>13, <1>14,
     <1>15, <1>16, <1>17, <1>18, <1>19, <1>20, <1>21, <1>22, <1>23, <1>24 DEF Che!Next,
     Che!SwitchMain, Che!Push, Che!PushElsewhere, Che!Merge, Che!bounds

\* The branch moves forward only onto a descendant of the tip it still has; a wipe
\* without force removes nothing that is dirty, and its residue is not a tree.
LEMMA StepKeepsWork == ASSUME Typed, Bounded, HeldExists, Foresight, Che!Next PROVE Che!WorkIsKept
<1> USE DEF Typed, TypedGit, TreeSet, LaunchSet, WipeSet, CommitSet, LaunchSteps,
     Che!WorkIsKept, Foresight, HeldExists, Che!HeldBy, Che!Usable, Che!Vacant, Che!Exists,
     Che!Behind, Che!Branches, Che!Absent, Che!Removable
<1>1. CASE Che!CreateFresh
  BY <1>1 DEF Che!CreateFresh, Che!Refused, Che!NoRun, Che!bounds
<1>2. CASE Che!Forward
  BY <1>2 DEF Che!Forward, Che!Refused, Che!Step, Che!NoRun, Che!bounds
<1>3. CASE Che!Attach
  BY <1>3 DEF Che!Attach, Che!Refused, Che!NoRun, Che!bounds
<1>4. CASE Che!Bind
  BY <1>4 DEF Che!Bind, Che!Usable, Che!Step, Che!Refused, Che!NoRun, Che!bounds
<1>5. CASE Che!Mark
  BY <1>5 DEF Che!Mark, Che!Usable, Che!Step, Che!Refused, Che!NoRun, Che!bounds
<1>6. CASE Che!Setup
  BY <1>6, ZenonT(60) DEF Che!Setup, Che!Step, Che!Refused, Che!NoRun, Che!bounds
<1>7. CASE Che!Exec
  BY <1>7 DEF Che!Exec, Che!Refused, Che!Usable, Che!NoRun, Che!bounds
<1>8. CASE Che!Crash
  BY <1>8 DEF Che!Crash, Che!Refused, Che!NoRun, Che!bounds
<1>9. CASE Che!Edit
  BY <1>9 DEF Che!Edit, Che!Move, Che!bounds
<1>10. CASE Che!Commit
  BY <1>10 DEF Che!Commit, Che!Grow, Che!bounds
<1>11. CASE Che!Leave
  BY <1>11 DEF Che!Leave, Che!bounds
<1>12. CASE Che!Switch
  BY <1>12 DEF Che!Switch, Che!Move, Che!bounds
<1>13. CASE Che!SwitchMain
  BY <1>13 DEF Che!SwitchMain, Che!Move, Che!Grow, Che!bounds
<1>14. CASE Che!SetMarker
  BY <1>14 DEF Che!SetMarker, Che!bounds
<1>15. CASE Che!Capture
  BY <1>15 DEF Che!Capture, Che!bounds
<1>16. CASE Che!Remove
  BY <1>16 DEF Che!Remove, Che!NoTree, Che!bounds
<1>17. CASE Che!Sweep
  BY <1>17 DEF Che!Sweep, Che!Removed, Che!NoTree, Che!bounds
<1>18. CASE Che!Prune
  BY <1>18 DEF Che!Prune, Che!Usable, Che!bounds
<1>19. CASE Che!DeleteLocal
  BY <1>19 DEF Che!DeleteLocal, Che!bounds
<1>20. CASE UNCHANGED <<local, wt>>
  BY <1>20
<1> QED
  BY <1>1, <1>2, <1>3, <1>4, <1>5, <1>6, <1>7, <1>8, <1>9, <1>10, <1>11, <1>12, <1>13, <1>14,
     <1>15, <1>16, <1>17, <1>18, <1>19, <1>20 DEF Che!Next, Che!Launch, Che!Probe, Che!Push,
     Che!PushElsewhere, Che!Merge, Che!Gather, Che!DeleteRemote, Che!StopWipe, Che!bounds

-----------------------------------------------------------------------------
LEMMA CheckoutInit == Che!Init => CInv
  BY DEF Che!Init, CInv, Typed, TypedGit, TreeSet, LaunchSet, WipeSet, LaunchSteps, CommitSet,
     Bounded, Within, HeldExists, Setups, Foresight, Che!Branches, Che!Absent, Che!NoTree,
     Che!NoRun, Che!NoWipe, Che!Usable

LEMMA CheckoutStep == CInv /\ [Che!Next]_Che!vars => CInv'
<1>1. ASSUME CInv, Che!Next PROVE CInv'
  BY <1>1, GitTyped, TreeTyped, RunTyped, WipeTyped, BoundedKept, HeldKept, SetupsKept,
     ForesightKept DEF CInv, Typed
<1>2. ASSUME CInv, UNCHANGED Che!vars PROVE CInv'
  BY <1>2 DEF CInv, Typed, TypedGit, TreeSet, LaunchSet, WipeSet, Bounded, Within, HeldExists,
     Setups, Foresight, Che!Exists, Che!Usable, Che!vars, Che!bounds
<1> QED
  BY <1>1, <1>2

LEMMA CheckoutInvariance == Che!Spec => []CInv
  BY CheckoutInit, CheckoutStep, PTL DEF Che!Spec

\* Every branch, here and at the remote, is made of commits that somebody made, and
\* the checkout is on one of them (run/launch/worktree.py).
THEOREM CheckoutTyped == Che!Spec => []Che!TypeOK
<1>1. CInv => Che!TypeOK
  BY DEF CInv, Che!TypeOK, Typed, TypedGit, TreeSet, Bounded, Within
<1> QED
  BY <1>1, CheckoutInvariance, PTL

\* However often setup failed, a launcher died, or the checkout was removed and
\* placed again, a session runs in a bound checkout whose setup succeeded, or whose
\* launcher died before it left the marker (run/launch/worktree.py,
\* run_pending_setup).
THEOREM SessionsArePrepared == Che!Spec => []Che!SessionIsPrepared
<1>1. CInv => Che!SessionIsPrepared
  BY DEF CInv, Che!SessionIsPrepared, Setups
<1> QED
  BY <1>1, CheckoutInvariance, PTL

\* Whatever is pushed, committed, switched or wiped meanwhile, no step but a wipe's
\* deletion takes a commit off a local branch, and only a forced wipe removes a dirty
\* checkout (_restore_checkout; git.py, worktree_remove; wipe_cmd.py).
THEOREM WorkStays == Che!Spec => [][Che!WorkIsKept]_Che!vars
<1>1. CInv /\ [Che!Next]_Che!vars => [Che!WorkIsKept]_Che!vars
  BY StepKeepsWork DEF CInv
<1> QED
  BY <1>1, CheckoutInvariance, PTL DEF Che!Spec

-----------------------------------------------------------------------------
(* The documentation library of a checkout.                                *)

CONSTANTS Proc, Slots, MaxCommands
VARIABLES docs, src, mirror, aside, stage, tree, site, remote, lock, self, swept, count

Lib == INSTANCE Library

Steps == {"idle", "probe", "claim", "crawl", "fetch", "write", "index", "publish", "displace",
          "swap", "record", "sweep", "delete", "inventory", "page", "apply", "mkdir", "clone",
          "catalog", "look", "rmtree", "pull", "source", "deletetree"}
DocSet == [rev : Slots \cup {0}, added : Slots \cup {0}, base : Nat, print : Nat,
           evidence : {"none", "weak", "strong"}, checked : BOOLEAN, drifted : BOOLEAN]
SrcSet == [added : Nat, pinned : BOOLEAN, head : Int, checked : BOOLEAN, drifted : BOOLEAN]
CmdSet == [at : Steps, replace : BOOLEAN, slot : Slots \cup {0}, previous : Slots \cup {0},
           doc : DocSet, print : Nat, src : SrcSet, fresh : BOOLEAN, pin : BOOLEAN,
           saw : BOOLEAN]
StageSet == [state : {"absent", "claimed", "partial", "full", "moved"}, by : SUBSET Proc]
CloneSet == [state : {"absent", "empty", "ok"}, head : Nat, edit : {"clean", "dirty", "ahead"},
             detached : BOOLEAN]
LibTyped ==
  /\ docs \in DocSet /\ src \in SrcSet /\ tree \in CloneSet
  /\ mirror \in Slots \cup {0} /\ aside \subseteq Slots
  /\ stage \in [Slots -> StageSet] /\ self \in [Proc -> CmdSet]
  /\ \A p \in Proc : self[p].at = "apply" => self[p].src.head \in Nat
  /\ site \in Nat \ {0} /\ remote \in Nat \ {0} /\ lock \in Proc \cup {0} /\ swept \in BOOLEAN
Apart == Slots \subseteq Nat \ {0} /\ Proc \subseteq Nat \ {0}

\* Who is in the middle of something holds the lock.
Holding == {"displace", "swap", "record", "sweep", "delete", "pull", "deletetree"}
Locked == \A p \in Proc : self[p].at \in Holding => lock = p

\* A staging directory that was claimed is crawled into by one command.
Crawling == {"crawl", "fetch", "write", "index", "publish", "displace", "swap", "record", "sweep"}
Claimed == \A p \in Proc : self[p].at \in Crawling =>
  /\ self[p].slot \in Slots
  /\ \A q \in Proc \ {p} : self[q].at \in Crawling => self[q].slot # self[p].slot
Written(p, state) == stage[self[p].slot].state = state /\ stage[self[p].slot].by = {p}
Crawled == \A p \in Proc :
  /\ self[p].at \in {"crawl", "fetch", "write"} =>
        stage[self[p].slot].state = "claimed" /\ stage[self[p].slot].by = {}
  /\ self[p].at = "index" => Written(p, "partial")
  /\ self[p].at \in {"publish", "displace", "swap"} => Written(p, "full")
  /\ self[p].at \in {"record", "sweep"} => Written(p, "moved")

\* What lies in the mirror, or aside, or is catalogued was moved there whole.
Whole ==
  /\ \A r \in Slots : stage[r].state = "absent" => stage[r].by = {}
  /\ \A r \in Slots : stage[r].state \in {"full", "moved"} => \E p \in Proc : stage[r].by = {p}
  /\ mirror # 0 => stage[mirror].state = "moved"
  /\ \A r \in aside : stage[r].state = "moved"
  /\ docs.rev = 0 <=> docs.added = 0
  /\ Lib!Catalogued => stage[docs.rev].state = "moved"
  /\ Lib!RevisionsKept

\* The middle of a publication: what is displaced is still there, and not catalogued anew.
Swapping == \A p \in Proc :
  /\ self[p].at \in {"swap", "record"} => self[p].previous \in aside \cup {0}
  /\ self[p].at = "swap" => mirror = 0
  /\ self[p].at \in {"record", "sweep"} =>
        mirror = self[p].slot /\ self[p].previous # self[p].slot
  /\ self[p].at = "record" => docs.rev # self[p].slot /\ self[p].slot \notin aside
  /\ self[p].at = "sweep" => docs.rev = self[p].slot
  /\ self[p].at = "delete" => ~ Lib!Catalogued

MirrorInv == Claimed /\ Crawled /\ Whole /\ Swapping

-----------------------------------------------------------------------------
LEMMA LibConstants ==
    /\ Apart => Lib!NoDocs \in DocSet
    /\ Lib!NoSrc \in SrcSet /\ Lib!NoTree \in CloneSet
    /\ Apart => Lib!Idle \in CmdSet
<1>1. Apart => Lib!NoDocs \in DocSet
  BY DEF Lib!NoDocs, DocSet, Apart
<1>2. Lib!NoSrc \in SrcSet
  BY DEF Lib!NoSrc, SrcSet
<1>3. Lib!NoTree \in CloneSet
  BY DEF Lib!NoTree, CloneSet
<1>4. Apart => Lib!Idle \in CmdSet
  BY <1>1, <1>2 DEF Lib!Idle, CmdSet, Steps
<1> QED
  BY <1>1, <1>2, <1>3, <1>4

\* The moves of a command.
OthersKeep(p) == \A q \in Proc \ {p} : self'[q] = self[q]
LEMMA ToFields ==
    ASSUME self \in [Proc -> CmdSet], NEW p \in Proc, NEW at \in Steps, Lib!To(p, at)
    PROVE  /\ self' \in [Proc -> CmdSet] /\ self'[p].at = at /\ OthersKeep(p)
           /\ self'[p].slot = self[p].slot /\ self'[p].previous = self[p].previous
           /\ self'[p].doc = self[p].doc /\ self'[p].print = self[p].print
           /\ self'[p].src = self[p].src /\ self'[p].fresh = self[p].fresh
           /\ self'[p].pin = self[p].pin /\ self'[p].saw = self[p].saw
<1>1. PICK v : v = [self[p] EXCEPT !.at = at]
  OBVIOUS
<1>2. self' = [self EXCEPT ![p] = v]
  BY <1>1 DEF Lib!To
<1>3. /\ v \in CmdSet /\ v.at = at /\ v.slot = self[p].slot /\ v.previous = self[p].previous
      /\ v.doc = self[p].doc /\ v.print = self[p].print
      /\ v.src = self[p].src /\ v.fresh = self[p].fresh
      /\ v.pin = self[p].pin /\ v.saw = self[p].saw
  BY <1>1 DEF CmdSet
<1> QED
  BY <1>2, <1>3 DEF OthersKeep

LEMMA EndFields ==
    ASSUME Apart, self \in [Proc -> CmdSet], NEW p \in Proc, Lib!End(p)
    PROVE  self' \in [Proc -> CmdSet] /\ self'[p].at = "idle" /\ OthersKeep(p)
<1>1. Lib!Idle.at = "idle"
  BY DEF Lib!Idle
<1> QED
  BY <1>1, LibConstants DEF Lib!End, OthersKeep

LEMMA StartFields ==
    ASSUME Apart, self \in [Proc -> CmdSet], NEW p \in Proc, NEW s \in CmdSet, Lib!Start(p, s)
    PROVE  self' \in [Proc -> CmdSet] /\ self'[p] = s /\ OthersKeep(p) /\ self[p].at = "idle"
  BY DEF Lib!Start, OthersKeep

LEMMA FirstFreeFree ==
    ASSUME Apart, Lib!FreeSlots # {}
    PROVE  Lib!FirstFree \in Lib!FreeSlots
<1>0. Lib!FreeSlots \subseteq Nat
  BY DEF Lib!FreeSlots, Apart
<1> DEFINE R == OpToRel(<, Nat)
<1>1. IsWellFoundedOn(R, Nat)
  BY NatLessThanWellFounded
<1>2. \A x, y \in Nat : <<x, y>> \in R <=> x < y
  BY DEF OpToRel
<1> HIDE DEF R
<1>3. PICK l \in Lib!FreeSlots : \A k \in Lib!FreeSlots : ~ (<<k, l>> \in R)
  BY <1>0, <1>1, WFMin, Zenon
<1>4. ASSUME NEW k \in Lib!FreeSlots PROVE l <= k
  <2>1. l \in Nat /\ k \in Nat /\ ~ (<<k, l>> \in R)
    BY <1>0, <1>3
  <2>2. ~ (k < l)
    BY <1>2, <2>1
  <2> QED
    BY <2>1, <2>2
<1>5. \E x \in Lib!FreeSlots : \A y \in Lib!FreeSlots : x <= y
  BY <1>3, <1>4
<1> QED
  BY <1>5 DEF Lib!FirstFree

LEMMA PlannedOutcome ==
    ASSUME Apart, LibTyped, NEW p \in Proc, NEW replace \in BOOLEAN, Lib!Planned(p, replace)
    PROVE  self' \in [Proc -> CmdSet] /\ self'[p].at = "probe" /\ OthersKeep(p)
<1>1. Lib!FirstFree \in Slots
  BY FirstFreeFree DEF Lib!Planned, Lib!FreeSlots
<1>2. PICK v : v = [Lib!Idle EXCEPT !.at = "probe", !.replace = replace, !.slot = Lib!FirstFree]
  OBVIOUS
<1>3. v \in CmdSet /\ v.at = "probe"
  BY <1>1, <1>2, LibConstants DEF CmdSet, Steps
<1> QED
  BY <1>2, <1>3, StartFields DEF Lib!Planned, LibTyped

LEMMA AddOutcome ==
    ASSUME Apart, LibTyped, NEW p \in Proc, NEW pin \in BOOLEAN, Lib!AddSource(p, pin)
    PROVE  /\ self' \in [Proc -> CmdSet] /\ OthersKeep(p)
           /\ self'[p].at \in {"mkdir", "catalog"} /\ self'[p].src = src
           /\ self'[p].fresh = (tree.state = "absent")
           /\ self'[p].fresh = FALSE => self'[p].at = "catalog"
<1>1. PICK f \in BOOLEAN, a \in {"mkdir", "catalog"} :
          f = (tree.state = "absent") /\ a = IF f THEN "mkdir" ELSE "catalog"
  OBVIOUS
<1>2. PICK v : v = [Lib!Idle EXCEPT !.at = a, !.src = src, !.fresh = f, !.pin = pin]
  OBVIOUS
<1>3. v \in CmdSet /\ v.at = a /\ v.src = src /\ v.fresh = f
  BY <1>1, <1>2, LibConstants, ZenonT(60) DEF CmdSet, Steps, LibTyped
<1>4. Lib!Start(p, v)
  BY <1>1, <1>2 DEF Lib!AddSource
<1> QED
  BY <1>1, <1>3, <1>4, StartFields DEF LibTyped

LEMMA BeginOutcome ==
    ASSUME Apart, LibTyped, NEW p \in Proc
    PROVE  /\ Lib!RemoveDocs(p) =>
                self' \in [Proc -> CmdSet] /\ OthersKeep(p) /\ self'[p].at = "delete"
           /\ Lib!RemoveSource(p) =>
                 self' \in [Proc -> CmdSet] /\ OthersKeep(p) /\ self'[p].at = "deletetree"
           /\ Lib!Refresh(p) =>
                self' \in [Proc -> CmdSet] /\ OthersKeep(p) /\ self'[p].at = "pull"
           /\ Lib!CheckDocs(p) => /\ self' \in [Proc -> CmdSet] /\ OthersKeep(p)
                                  /\ self'[p].at = "inventory" /\ self'[p].doc = docs
           /\ Lib!CheckSource(p) => /\ self' \in [Proc -> CmdSet] /\ OthersKeep(p)
                                    /\ self'[p].at = "source" /\ self'[p].src = src
                                    /\ self'[p].print = remote
           /\ \A r \in Slots : Lib!Adopt(p, r) =>
                 self' \in [Proc -> CmdSet] /\ OthersKeep(p) /\ self'[p].at = "idle"
<1>1. ASSUME NEW a \in Steps
      PROVE  [Lib!Idle EXCEPT !.at = a] \in CmdSet /\ [Lib!Idle EXCEPT !.at = a].at = a
  BY LibConstants DEF CmdSet
<1>2. ASSUME Lib!RemoveDocs(p)
      PROVE self' \in [Proc -> CmdSet] /\ OthersKeep(p) /\ self'[p].at = "delete"
  BY <1>1, <1>2, StartFields, ZenonT(60) DEF Lib!RemoveDocs, LibTyped, Steps
<1>3. ASSUME Lib!RemoveSource(p)
      PROVE self' \in [Proc -> CmdSet] /\ OthersKeep(p) /\ self'[p].at = "deletetree"
  BY <1>1, <1>3, StartFields, ZenonT(60) DEF Lib!RemoveSource, LibTyped, Steps
<1>4. ASSUME Lib!Refresh(p)
      PROVE  self' \in [Proc -> CmdSet] /\ OthersKeep(p) /\ self'[p].at = "pull"
  BY <1>1, <1>4, StartFields, ZenonT(60) DEF Lib!Refresh, LibTyped, Steps
<1>5. ASSUME Lib!CheckDocs(p) PROVE /\ self' \in [Proc -> CmdSet] /\ OthersKeep(p)
                                    /\ self'[p].at = "inventory" /\ self'[p].doc = docs
  <2>1. PICK v : v = [Lib!Idle EXCEPT !.at = "inventory", !.doc = docs]
    OBVIOUS
  <2>2. v \in CmdSet /\ v.at = "inventory" /\ v.doc = docs
    BY <2>1, LibConstants DEF CmdSet, Steps, LibTyped
  <2> QED
    BY <1>5, <2>1, <2>2, StartFields DEF Lib!CheckDocs, LibTyped
<1>6. ASSUME Lib!CheckSource(p) PROVE /\ self' \in [Proc -> CmdSet] /\ OthersKeep(p)
                                      /\ self'[p].at = "source" /\ self'[p].src = src
                                      /\ self'[p].print = remote
  <2>1. PICK v : v = [Lib!Idle EXCEPT !.at = "source", !.src = src, !.print = remote]
    OBVIOUS
  <2>2. v \in CmdSet /\ v.at = "source" /\ v.src = src /\ v.print = remote
    BY <2>1, LibConstants DEF CmdSet, Steps, LibTyped
  <2> QED
    BY <1>6, <2>1, <2>2, StartFields DEF Lib!CheckSource, LibTyped
<1>7. ASSUME NEW r \in Slots, Lib!Adopt(p, r)
      PROVE self' \in [Proc -> CmdSet] /\ OthersKeep(p) /\ self'[p].at = "idle"
  <2>1. Lib!Idle.at = "idle"
    BY DEF Lib!Idle
  <2> QED
    BY <1>7, <2>1, LibConstants, StartFields DEF Lib!Adopt, LibTyped
<1> QED
  BY <1>2, <1>3, <1>4, <1>5, <1>6, <1>7

\* What a command remembers on the way.
LEMMA ClaimOutcome ==
    ASSUME Apart, LibTyped, NEW p \in Proc, Lib!Claim(p)
    PROVE  \E r \in Lib!FreeSlots :
             /\ self' \in [Proc -> CmdSet] /\ OthersKeep(p)
             /\ self'[p].at = "crawl" /\ self'[p].slot = r
             /\ stage' = [stage EXCEPT ![r].state = "claimed"]
<1>1. PICK r \in Lib!FreeSlots :
          /\ stage' = [stage EXCEPT ![r].state = "claimed"]
          /\ self' = [self EXCEPT ![p].at = "crawl", ![p].slot = r]
  BY DEF Lib!Claim, Lib!Claimable
<1>2. PICK v : v = [self[p] EXCEPT !.at = "crawl", !.slot = r]
  OBVIOUS
<1>3. v \in CmdSet /\ v.at = "crawl" /\ v.slot = r
  BY <1>2, ZenonT(60) DEF CmdSet, Steps, LibTyped, Lib!FreeSlots
<1>4. self' = [self EXCEPT ![p] = v]
  BY <1>1, <1>2 DEF LibTyped
<1>5. /\ self' \in [Proc -> CmdSet] /\ OthersKeep(p)
      /\ self'[p].at = "crawl" /\ self'[p].slot = r
  BY <1>3, <1>4 DEF LibTyped, OthersKeep
<1> QED
  BY <1>1, <1>5

LEMMA InventoryOutcome ==
    ASSUME Apart, LibTyped, NEW p \in Proc, Lib!Inventory(p)
    PROVE  /\ self' \in [Proc -> CmdSet] /\ OthersKeep(p) /\ self'[p].at = "page"
           /\ self'[p].doc = self[p].doc /\ self'[p].print \in {0, site}
<1>1. PICK seen \in {0, site} : self' = [self EXCEPT ![p].at = "page", ![p].print = seen]
  BY DEF Lib!Inventory, Lib!Fingerprints
<1>2. PICK v : v = [self[p] EXCEPT !.at = "page", !.print = seen]
  OBVIOUS
<1>0. self[p] \in CmdSet /\ seen \in Nat
  BY DEF LibTyped
<1>3. v \in CmdSet /\ v.at = "page" /\ v.print = seen /\ v.doc = self[p].doc
  BY <1>0, <1>2 DEF CmdSet, Steps
<1>4. self' = [self EXCEPT ![p] = v]
  BY <1>1, <1>2 DEF LibTyped
<1> QED
  BY <1>3, <1>4 DEF LibTyped, OthersKeep

LEMMA PageOutcome ==
    ASSUME Apart, LibTyped, NEW p \in Proc, Lib!Page(p)
    PROVE  /\ self' \in [Proc -> CmdSet] /\ OthersKeep(p)
           /\ \/ self'[p].at = "idle"
              \/ /\ self'[p].at = "apply" /\ self'[p].doc = self[p].doc
                 /\ self'[p].print = self[p].print /\ self'[p].src.head \in {0, site}
<1>1. CASE Lib!End(p)
  BY <1>1, EndFields DEF LibTyped
<1>2. CASE \E page \in Lib!Answers :
             self' = [self EXCEPT ![p].at = "apply", ![p].src = [Lib!NoSrc EXCEPT !.head = page]]
  <2>1. PICK page \in {0, site} :
             self' = [self EXCEPT ![p].at = "apply", ![p].src = [Lib!NoSrc EXCEPT !.head = page]]
    BY <1>2 DEF Lib!Answers
  <2>2. PICK e : e = [Lib!NoSrc EXCEPT !.head = page]
    OBVIOUS
  <2>3. e \in SrcSet /\ e.head = page
    BY <2>2, LibConstants DEF SrcSet, LibTyped
  <2>4. PICK v : v = [self[p] EXCEPT !.at = "apply", !.src = e]
    OBVIOUS
  <2>5. /\ v \in CmdSet /\ v.at = "apply" /\ v.src = e
        /\ v.doc = self[p].doc /\ v.print = self[p].print
    BY <2>3, <2>4, ZenonT(60) DEF CmdSet, Steps, LibTyped
  <2>6. self' = [self EXCEPT ![p] = v]
    BY <2>1, <2>2, <2>4 DEF LibTyped
  <2> QED
    BY <2>3, <2>5, <2>6 DEF LibTyped, OthersKeep
<1> QED
  BY <1>1, <1>2 DEF Lib!Page

LEMMA DisplaceOutcome ==
    ASSUME Apart, LibTyped, NEW p \in Proc, Lib!Displace(p)
    PROVE  /\ self' \in [Proc -> CmdSet] /\ OthersKeep(p)
           /\ \/ self'[p].at = "idle" /\ UNCHANGED <<mirror, aside>> /\ lock' = 0
              \/ /\ self'[p].at = "swap" /\ self'[p].slot = self[p].slot
                 /\ self'[p].previous = mirror /\ mirror' = 0
                 /\ aside' = aside \cup ({mirror} \ {0}) /\ lock' = lock
<1>1. CASE Lib!End(p) /\ Lib!Release(p) /\ UNCHANGED <<mirror, aside>>
  BY <1>1, EndFields DEF LibTyped, Lib!Release
<1>2. CASE /\ mirror' = 0 /\ aside' = aside \cup Lib!Kept(mirror) /\ lock' = lock
           /\ self' = [self EXCEPT ![p].at = "swap", ![p].previous = mirror]
  <2>1. PICK v : v = [self[p] EXCEPT !.at = "swap", !.previous = mirror]
    OBVIOUS
  <2>2. v \in CmdSet /\ v.at = "swap" /\ v.slot = self[p].slot /\ v.previous = mirror
    BY <2>1, ZenonT(60) DEF CmdSet, Steps, LibTyped
  <2>3. self' = [self EXCEPT ![p] = v]
    BY <1>2, <2>1 DEF LibTyped
  <2> QED
    BY <1>2, <2>2, <2>3, ZenonT(60) DEF LibTyped, OthersKeep, Lib!Kept
<1> QED
  BY <1>1, <1>2 DEF Lib!Displace

LEMMA LookedOutcome ==
    ASSUME Apart, LibTyped, NEW p \in Proc, Lib!Look(p)
    PROVE  /\ self' \in [Proc -> CmdSet] /\ OthersKeep(p)
           /\ \/ self'[p].at = "idle"
              \/ /\ self'[p].at = "rmtree" /\ self'[p].src = self[p].src
                 /\ self'[p].fresh = self[p].fresh
                 /\ src = self[p].src /\ self'[p].saw
<1>1. CASE Lib!End(p)
  BY <1>1, EndFields DEF LibTyped
<1>2. CASE /\ ~ Lib!CataloguedMeanwhile(p)
           /\ self' = [self EXCEPT ![p].at = "rmtree", ![p].saw = src = self[p].src]
  <2>1. src = self[p].src
    BY <1>2 DEF Lib!CataloguedMeanwhile
  <2>2. PICK v : v = [self[p] EXCEPT !.at = "rmtree", !.saw = TRUE]
    OBVIOUS
  <2>3. v \in CmdSet /\ v.at = "rmtree" /\ v.src = self[p].src /\ v.saw /\ v.fresh = self[p].fresh
    BY <2>2, ZenonT(60) DEF CmdSet, Steps, LibTyped
  <2>4. self' = [self EXCEPT ![p] = v]
    BY <1>2, <2>1, <2>2 DEF LibTyped
  <2> QED
    BY <2>1, <2>3, <2>4 DEF LibTyped, OthersKeep
<1> QED
  BY <1>1, <1>2 DEF Lib!Look

\* The same, for the moves that only change where a command is.
LEMMA PlainMoves ==
    ASSUME Apart, LibTyped, NEW p \in Proc,
           Lib!End(p) \/ (\E at \in Steps : Lib!To(p, at))
    PROVE  self' \in [Proc -> CmdSet] /\ OthersKeep(p)
  BY EndFields, ToFields DEF LibTyped

LEMMA MovesTyped ==
    ASSUME Apart, LibTyped, NEW p \in Proc, Lib!Command(p)
    PROVE  self' \in [Proc -> CmdSet] /\ OthersKeep(p)
<1> DEFINE Goal == self' \in [Proc -> CmdSet] /\ OthersKeep(p)
<1> HIDE DEF Goal
<1>0. Lib!End(p) \/ (\E at \in Steps : Lib!To(p, at)) => Goal
  BY PlainMoves DEF Goal
<1>1. ASSUME Lib!PlanAdd(p) \/ Lib!PlanRefresh(p) PROVE Goal
  BY <1>1, PlannedOutcome DEF Lib!PlanAdd, Lib!PlanRefresh, Goal
<1>2. ASSUME \E pin \in BOOLEAN : Lib!AddSource(p, pin) PROVE Goal
  BY <1>2, AddOutcome DEF Goal
<1>3. ASSUME \/ Lib!RemoveDocs(p) \/ Lib!RemoveSource(p) \/ Lib!Refresh(p)
             \/ Lib!CheckDocs(p) \/ Lib!CheckSource(p)
             \/ \E r \in Slots : Lib!Adopt(p, r)
      PROVE Goal
  BY <1>3, BeginOutcome DEF Goal
<1>4. ASSUME Lib!Claim(p) \/ Lib!Inventory(p) \/ Lib!Page(p) \/ Lib!Displace(p) \/ Lib!Look(p)
      PROVE  Goal
  BY <1>4, ClaimOutcome, InventoryOutcome, PageOutcome, DisplaceOutcome, LookedOutcome DEF Goal
<1>5. ASSUME \/ Lib!ProbeSeed(p) \/ Lib!Crawl(p) \/ Lib!Discover(p) \/ Lib!WritePages(p)
             \/ Lib!WriteIndex(p)
      PROVE Goal
  BY <1>0, <1>5 DEF Lib!ProbeSeed, Lib!Redirects, Lib!Crawl, Lib!Discover, Lib!WritePages,
     Lib!WriteIndex, Steps
<1>6. ASSUME \/ Lib!Publish(p) \/ Lib!Swap(p) \/ Lib!Record(p) \/ Lib!Sweep(p)
             \/ Lib!DeleteMirror(p) \/ Lib!ApplyDocs(p)
      PROVE Goal
  BY <1>0, <1>6
  DEF Lib!Publish, Lib!Swap, Lib!Record, Lib!Sweep, Lib!DeleteMirror, Lib!ApplyDocs, Steps
<1>7. ASSUME \/ Lib!Mkdir(p) \/ Lib!Clone(p) \/ Lib!RecordSource(p) \/ Lib!RecordBusy(p)
             \/ Lib!Rmtree(p)
      PROVE Goal
  BY <1>0, <1>7 DEF Lib!Mkdir, Lib!Clone, Lib!RecordSource, Lib!RecordBusy, Lib!Rmtree, Steps
<1>8. ASSUME \/ Lib!RefreshCheckout(p) \/ Lib!ApplySource(p) \/ Lib!DeleteTree(p)
             \/ Lib!GiveUp(p) \/ Lib!Killed(p)
      PROVE Goal
  BY <1>0, <1>8
  DEF Lib!RefreshCheckout, Lib!ApplySource, Lib!DeleteTree, Lib!GiveUp, Lib!Killed, Steps
<1> QED
  BY <1>1, <1>2, <1>3, <1>4, <1>5, <1>6, <1>7, <1>8 DEF Lib!Command, Goal

\* Who comes to hold the lock took it.
LEMMA LockedKept ==
    ASSUME Apart, LibTyped, Locked, Lib!Next
    PROVE  lock' \in Proc \cup {0} /\ Locked'
<1> DEFINE Goal == lock' \in Proc \cup {0} /\ Locked'
<1>0. ASSUME NEW p \in Proc, self' \in [Proc -> CmdSet], OthersKeep(p),
             \/ lock' = lock /\ (self'[p].at \in Holding => self[p].at \in Holding)
             \/ lock' \in {p, 0} /\ lock = 0 /\ (self'[p].at \in Holding => lock' = p)
             \/ lock' = 0 /\ lock = p /\ self'[p].at \notin Holding
      PROVE  Goal
  BY <1>0 DEF Locked, LibTyped, OthersKeep, Apart
<1> HIDE DEF Goal
<1>1. ASSUME Lib!Move PROVE Goal
  BY <1>1 DEF Goal, Lib!Move, Locked, LibTyped
<1>2. ASSUME NEW p \in Proc, Lib!Command(p) PROVE Goal
  <2>0. self' \in [Proc -> CmdSet] /\ OthersKeep(p)
    BY <1>2, MovesTyped
  <2>e. Lib!End(p) => self'[p].at = "idle"
    BY EndFields DEF LibTyped
  <2>t. \A at \in Steps : Lib!To(p, at) => self'[p].at = at
    BY ToFields DEF LibTyped
  <2>1. ASSUME Lib!PlanAdd(p) \/ Lib!PlanRefresh(p) PROVE Goal
    <3>1. self'[p].at = "probe" /\ lock' = lock
      BY <2>1, PlannedOutcome DEF Lib!PlanAdd, Lib!PlanRefresh, Lib!Planned
    <3> QED
      BY <1>0, <2>0, <3>1 DEF Holding
  <2>2. ASSUME \E pin \in BOOLEAN : Lib!AddSource(p, pin) PROVE Goal
    <3>1. self'[p].at \in {"mkdir", "catalog"} /\ lock' = lock
      BY <2>2, AddOutcome DEF Lib!AddSource
    <3> QED
      BY <1>0, <2>0, <3>1 DEF Holding
  <2>3. ASSUME Lib!RemoveDocs(p) \/ Lib!RemoveSource(p) \/ Lib!Refresh(p) PROVE Goal
    BY <1>0, <2>0, <2>3 DEF Lib!RemoveDocs, Lib!RemoveSource, Lib!Refresh, Lib!TakeLock
  <2>4. ASSUME Lib!CheckDocs(p) \/ Lib!CheckSource(p) \/ \E r \in Slots : Lib!Adopt(p, r)
        PROVE  Goal
    <3>1. self'[p].at \in {"inventory", "source", "idle"} /\ lock' = lock
      BY <2>4, BeginOutcome DEF Lib!CheckDocs, Lib!CheckSource, Lib!Adopt
    <3> QED
      BY <1>0, <2>0, <3>1 DEF Holding
  <2>5. ASSUME Lib!Claim(p) \/ Lib!Inventory(p) \/ Lib!Page(p) \/ Lib!Look(p) PROVE Goal
    <3>1. self'[p].at \in {"crawl", "page", "apply", "idle", "rmtree"}
      BY <2>5, ClaimOutcome, InventoryOutcome, PageOutcome, LookedOutcome
    <3>2. lock' = lock
      BY <2>5 DEF Lib!Claim, Lib!Inventory, Lib!Page, Lib!Look
    <3> QED
      BY <1>0, <2>0, <3>1, <3>2 DEF Holding
  <2>6. ASSUME Lib!Displace(p) PROVE Goal
    <3>1. self[p].at \in Holding /\ lock = p
      BY <2>6 DEF Lib!Displace, Holding, Locked
    <3> QED
      BY <1>0, <2>0, <2>6, <3>1, DisplaceOutcome DEF Holding
  <2>7. ASSUME \/ Lib!ProbeSeed(p) \/ Lib!Crawl(p) \/ Lib!Discover(p) \/ Lib!WritePages(p)
               \/ Lib!WriteIndex(p)
        PROVE Goal
    <3>1. self'[p].at \in {"idle", "claim", "fetch", "write", "index", "publish"} /\ lock' = lock
      BY <2>7, <2>e, <2>t DEF Lib!ProbeSeed, Lib!Redirects, Lib!Crawl, Lib!Discover,
         Lib!WritePages, Lib!WriteIndex, Steps
    <3> QED
      BY <1>0, <2>0, <3>1 DEF Holding
  <2>8. ASSUME Lib!Publish(p) PROVE Goal
    BY <1>0, <2>0, <2>8, <2>e DEF Lib!Publish, Lib!TakeLock, Holding
  <2>9. ASSUME Lib!Swap(p) \/ Lib!Record(p) PROVE Goal
    <3>1. self[p].at \in Holding
      BY <2>9 DEF Lib!Swap, Lib!Record, Holding
    <3>2. lock' = lock \/ (lock' = 0 /\ lock = p /\ self'[p].at = "idle")
      BY <2>9, <2>e DEF Lib!Swap, Lib!Record, Lib!Release
    <3> QED
      BY <1>0, <2>0, <3>1, <3>2 DEF Holding
  <2>10. ASSUME Lib!Sweep(p) \/ Lib!DeleteMirror(p) \/ Lib!RefreshCheckout(p) \/ Lib!DeleteTree(p)
         PROVE  Goal
    <3>1. lock' = 0 /\ lock = p /\ self'[p].at = "idle"
      BY <2>10, <2>e
      DEF Lib!Sweep, Lib!DeleteMirror, Lib!RefreshCheckout, Lib!DeleteTree, Lib!Release
    <3> QED
      BY <1>0, <2>0, <3>1 DEF Holding
  <2>11. ASSUME Lib!ApplyDocs(p) \/ Lib!ApplySource(p) \/ Lib!GiveUp(p) \/ Lib!Rmtree(p)
         PROVE  Goal
    <3>1. lock' = lock /\ self'[p].at = "idle"
      BY <2>11, <2>e DEF Lib!ApplyDocs, Lib!ApplySource, Lib!GiveUp, Lib!Rmtree
    <3> QED
      BY <1>0, <2>0, <3>1 DEF Holding
  <2>12. ASSUME Lib!Mkdir(p) \/ Lib!Clone(p) \/ Lib!RecordSource(p) \/ Lib!RecordBusy(p)
         PROVE  Goal
    <3>1. self'[p].at \in {"clone", "idle", "catalog", "look"} /\ lock' = lock
      BY <2>12, <2>e, <2>t DEF Lib!Mkdir, Lib!Clone, Lib!RecordSource, Lib!RecordBusy, Steps
    <3> QED
      BY <1>0, <2>0, <3>1 DEF Holding
  <2>13. ASSUME Lib!Killed(p) PROVE Goal
    <3>1. self'[p].at = "idle" /\ lock' = IF lock = p THEN 0 ELSE lock
      BY <2>13, <2>e DEF Lib!Killed
    <3> QED
      BY <1>0, <2>0, <3>1 DEF Holding
  <2> QED
    BY <1>2, <2>1, <2>2, <2>3, <2>4, <2>5, <2>6, <2>7, <2>8, <2>9, <2>10, <2>11, <2>12, <2>13
    DEF Lib!Command
<1> QED
  BY <1>1, <1>2 DEF Lib!Next, Goal

-----------------------------------------------------------------------------
\* What the entries and the directories become.

LEMMA ProbedFields ==
    ASSUME Apart, NEW e \in DocSet, NEW print \in Nat, NEW page \in Nat
    PROVE  /\ Lib!Probed(e, print, page) \in DocSet
           /\ Lib!Probed(e, print, page).rev = e.rev /\ Lib!Probed(e, print, page).added = e.added
           /\ Lib!Probed(e, print, page).base = Lib!First(e.base, page)
           /\ Lib!Probed(e, print, page).print = Lib!First(e.print, print)
           /\ Lib!Probed(e, print, page).drifted =
                 IF page = 0 /\ print = 0 THEN e.drifted
                 ELSE \/ page # 0 /\ e.base \notin {0, page}
                      \/ print # 0 /\ e.print \notin {0, print}
                      \/ e.drifted /\ (page = 0 \/ (print = 0 /\ e.print # 0))
<1> DEFINE Moved == \/ page # 0 /\ e.base \notin {0, page}
                    \/ print # 0 /\ e.print \notin {0, print}
           Unobserved == page = 0 \/ (print = 0 /\ e.print # 0)
           Evidence == IF page # 0 THEN "strong" ELSE IF print # 0 THEN "weak" ELSE "none"
           Drifted == IF Evidence = "none" THEN e.drifted ELSE Moved \/ (e.drifted /\ Unobserved)
           B == Lib!First(e.base, page)
           T == Lib!First(e.print, print)
<1>1. Lib!Probed(e, print, page) =
         [e EXCEPT !.base = B, !.print = T, !.evidence = Evidence, !.checked = TRUE,
                   !.drifted = Drifted]
  BY Zenon DEF Lib!Probed
<1>2. B \in Nat /\ T \in Nat
  BY DEF Lib!First, DocSet
<1>3. Evidence \in {"none", "weak", "strong"} /\ (Evidence = "none" <=> page = 0 /\ print = 0)
  OBVIOUS
<1>4. e.drifted \in BOOLEAN
  BY DEF DocSet
<1>5. Drifted \in BOOLEAN
  BY <1>4
<1>6. Drifted = IF page = 0 /\ print = 0 THEN e.drifted ELSE Moved \/ (e.drifted /\ Unobserved)
  BY <1>3, Zenon
<1> HIDE DEF Drifted, Evidence, B, T
<1>8. PICK b \in Nat, t \in Nat, k \in {"none", "weak", "strong"}, d \in BOOLEAN :
          b = B /\ t = T /\ k = Evidence /\ d = Drifted
  BY <1>2, <1>3, <1>5, Zenon
<1>7. PICK v : v = [e EXCEPT !.base = b, !.print = t, !.evidence = k, !.checked = TRUE,
                             !.drifted = d]
  OBVIOUS
<1>9. /\ v \in DocSet /\ v.rev = e.rev /\ v.added = e.added
      /\ v.base = b /\ v.print = t /\ v.drifted = d
  <2>1. /\ b \in Nat /\ t \in Nat /\ k \in {"none", "weak", "strong"} /\ d \in BOOLEAN
        /\ e \in DocSet
    OBVIOUS
  <2> QED
    BY <1>7, <2>1 DEF DocSet
<1>10. Lib!Probed(e, print, page) = v
  BY <1>1, <1>7, <1>8, Zenon
<1>11. d = IF page = 0 /\ print = 0 THEN e.drifted ELSE Moved \/ (e.drifted /\ Unobserved)
  BY <1>6, <1>8, Zenon
<1> QED
  BY <1>8, <1>9, <1>10, <1>11, Zenon DEF B, T

LEMMA ApplyDocsOutcome ==
    ASSUME Apart, LibTyped, NEW p \in Proc, Lib!ApplyDocs(p)
    PROVE  LET e == self[p].doc
               page == self[p].src.head
               print == self[p].print
           IN  \/ docs' = docs
               \/ /\ Lib!Catalogued /\ docs' \in DocSet
                  /\ docs'.rev = docs.rev /\ docs'.added = docs.added
                  /\ docs.base = e.base /\ docs.print = e.print /\ docs.drifted = e.drifted
                  /\ docs'.base = Lib!First(e.base, page)
                  /\ docs'.print = Lib!First(e.print, print)
                  /\ docs'.drifted =
                       IF page = 0 /\ print = 0 THEN e.drifted
                       ELSE \/ page # 0 /\ e.base \notin {0, page}
                            \/ print # 0 /\ e.print \notin {0, print}
                            \/ e.drifted /\ (page = 0 \/ (print = 0 /\ e.print # 0))
<1> DEFINE e == self[p].doc
           page == self[p].src.head
           print == self[p].print
<1>1. e \in DocSet /\ page \in Nat /\ print \in Nat
  BY DEF LibTyped, CmdSet, Lib!ApplyDocs
<1>2. CASE docs' = docs
  BY <1>2
<1>3. CASE /\ Lib!Catalogued /\ [docs EXCEPT !.rev = 0] = [e EXCEPT !.rev = 0]
           /\ docs' = [Lib!Probed(e, print, page) EXCEPT !.rev = docs.rev]
  <2>1. /\ docs.added = e.added /\ docs.base = e.base /\ docs.print = e.print
        /\ docs.drifted = e.drifted
    <3>1. ASSUME NEW d \in DocSet
          PROVE  /\ [d EXCEPT !.rev = 0].added = d.added /\ [d EXCEPT !.rev = 0].base = d.base
                 /\ [d EXCEPT !.rev = 0].print = d.print
                 /\ [d EXCEPT !.rev = 0].drifted = d.drifted
      BY DEF DocSet
    <3>2. PICK x : x = [docs EXCEPT !.rev = 0] /\ x = [e EXCEPT !.rev = 0]
      BY <1>3
    <3>3. /\ x.added = docs.added /\ x.base = docs.base /\ x.print = docs.print
          /\ x.drifted = docs.drifted
      BY <3>1, <3>2, Zenon DEF LibTyped
    <3>4. /\ x.added = e.added /\ x.base = e.base /\ x.print = e.print
          /\ x.drifted = e.drifted
      BY <1>1, <3>1, <3>2, ZenonT(60)
    <3> QED
      BY <3>3, <3>4, Zenon
  <2>2. PICK w \in DocSet :
          /\ w = Lib!Probed(e, print, page) /\ w.added = e.added
          /\ w.base = Lib!First(e.base, page) /\ w.print = Lib!First(e.print, print)
          /\ w.drifted =
                       IF page = 0 /\ print = 0 THEN e.drifted
                       ELSE \/ page # 0 /\ e.base \notin {0, page}
                            \/ print # 0 /\ e.print \notin {0, print}
                            \/ e.drifted /\ (page = 0 \/ (print = 0 /\ e.print # 0))
    <3> HIDE DEF e, page, print
    <3> QED
      BY <1>1, ProbedFields, ZenonT(60)
  <2>4. PICK v : v = [w EXCEPT !.rev = docs.rev]
    OBVIOUS
  <2>5. docs.rev \in Slots \cup {0}
    BY DEF LibTyped, DocSet
  <2>6. /\ v \in DocSet /\ v.rev = docs.rev /\ v.added = w.added /\ v.base = w.base
        /\ v.print = w.print /\ v.drifted = w.drifted
    BY <2>4, <2>5 DEF DocSet
  <2>7. docs' = v
    BY <1>3, <2>2, <2>4, Zenon
  <2> HIDE DEF e, page, print
  <2> QED
    BY <1>3, <2>1, <2>2, <2>6, <2>7, Zenon DEF e, page, print
<1> QED
  <2>1. e = self[p].doc /\ ([e EXCEPT !.rev = 0] = [self[p].doc EXCEPT !.rev = 0])
    OBVIOUS
  <2> QED
    BY <1>2, <1>3, Zenon DEF Lib!ApplyDocs, Lib!Applicable

LEMMA PublishedFields ==
    ASSUME Apart, LibTyped, NEW p \in Proc, self[p].slot \in Slots
    PROVE  /\ Lib!Published(p) \in DocSet /\ Lib!Published(p).rev = self[p].slot
           /\ Lib!Published(p).added # 0 /\ ~ Lib!Published(p).drifted
           /\ Lib!Published(p).base = 0 /\ Lib!Published(p).print = 0
<1>1. PICK a \in Slots : a = IF Lib!Catalogued THEN docs.added ELSE self[p].slot
  BY DEF Lib!Catalogued, LibTyped, DocSet
<1>2. Lib!Published(p) = [Lib!NoDocs EXCEPT !.rev = self[p].slot, !.added = a]
  BY <1>1, Zenon DEF Lib!Published
<1>3. PICK r \in Slots : r = self[p].slot
  OBVIOUS
<1>4. PICK v : v = [Lib!NoDocs EXCEPT !.rev = r, !.added = a]
  OBVIOUS
<1>5. Lib!NoDocs \in DocSet /\ ~ Lib!NoDocs.drifted /\ Lib!NoDocs.base = 0 /\ Lib!NoDocs.print = 0
  BY LibConstants DEF Lib!NoDocs
<1>6. v \in DocSet /\ v.rev = r /\ v.added = a /\ ~ v.drifted /\ v.base = 0 /\ v.print = 0
  BY <1>4, <1>5 DEF DocSet
<1>7. a # 0
  BY DEF Apart
<1> QED
  BY <1>2, <1>3, <1>4, <1>6, <1>7, Zenon

LEMMA AdoptedFields ==
    ASSUME Apart, NEW r \in Slots
    PROVE  LET v == [Lib!NoDocs EXCEPT !.rev = r, !.added = r]
           IN  v \in DocSet /\ v.rev = r /\ v.added = r /\ ~ v.drifted
               /\ v.base = 0 /\ v.print = 0
<1>1. Lib!NoDocs \in DocSet /\ ~ Lib!NoDocs.drifted /\ Lib!NoDocs.base = 0 /\ Lib!NoDocs.print = 0
  BY LibConstants DEF Lib!NoDocs
<1> QED
  BY <1>1 DEF DocSet

LEMMA RepinnedFields ==
    ASSUME LibTyped
    PROVE  /\ Lib!Repinned(tree) \in CloneSet /\ Lib!Repinned(tree).state = tree.state
           /\ Lib!Repinned(tree).head = remote /\ Lib!Repinned(tree).edit = "clean"
<1>1. tree \in CloneSet /\ remote \in Nat
  BY DEF LibTyped
<1> QED
  BY <1>1 DEF Lib!Repinned, CloneSet

LEMMA HeadBound ==
    ASSUME NEW t \in CloneSet, NEW r \in Nat, t.head <= r
    PROVE  Lib!HeadOf(t) \in Int /\ Lib!HeadOf(t) <= r
  BY DEF Lib!HeadOf, CloneSet

\* What is recorded for a clone, and what becomes of the checkout meanwhile.
LEMMA RecordOutcome ==
    ASSUME Apart, LibTyped, tree.head <= remote, NEW p \in Proc, Lib!RecordSource(p)
    PROVE  /\ tree' \in CloneSet /\ tree'.state = tree.state /\ tree'.head <= remote
           /\ \/ src' = src
              \/ /\ src' \in SrcSet /\ src'.added # 0 /\ ~ src'.drifted /\ src'.head <= remote
                 /\ self[p].at = "catalog"
                 /\ \/ self[p].fresh
                    \/ src'.head = remote
                    \/ ~ Lib!SrcCatalogued
                 /\ ~ Lib!SrcCatalogued => Lib!IsCheckout
<1>1. PICK t : t = IF Lib!Repins(p) THEN Lib!Repinned(tree) ELSE tree
  OBVIOUS
<1>2. /\ t \in CloneSet /\ t.state = tree.state /\ t.head <= remote
      /\ Lib!Repins(p) => t.head = remote /\ t.edit = "clean"
  <2>1. tree \in CloneSet /\ remote \in Nat
    BY DEF LibTyped
  <2> QED
    BY <1>1, <2>1, RepinnedFields
<1>3. PICK a, h : a = (IF Lib!SrcCatalogued THEN src.added ELSE remote) /\ h = Lib!HeadOf(t)
  OBVIOUS
<1>4. a \in Nat /\ a # 0 /\ h \in Int /\ h <= remote
  <2>1. src.added \in Nat /\ remote \in Nat \ {0}
    BY DEF LibTyped, SrcSet
  <2>2. h \in Int /\ h <= remote
    BY <1>2, <1>3, <2>1, HeadBound
  <2> QED
    BY <1>3, <2>1, <2>2 DEF Lib!SrcCatalogued
<1>5. PICK pin \in BOOLEAN : pin = self[p].pin
  BY DEF LibTyped, CmdSet
<1>6. PICK v : v = [Lib!NoSrc EXCEPT !.added = a, !.pinned = pin, !.head = h]
  OBVIOUS
<1>7. v \in SrcSet /\ v.added = a /\ v.head = h /\ ~ v.drifted
  <2>1. Lib!NoSrc \in SrcSet /\ ~ Lib!NoSrc.drifted
    BY LibConstants DEF Lib!NoSrc
  <2> QED
    BY <1>4, <1>6, <2>1 DEF SrcSet
<1>8. PICK entry :
        entry = IF Lib!SrcCatalogued /\ ~self[p].fresh /\ ~Lib!Repins(p) THEN src ELSE v
  OBVIOUS
<1>9. entry = IF Lib!SrcCatalogued /\ ~self[p].fresh /\ ~Lib!Repins(p) THEN src
              ELSE [Lib!NoSrc EXCEPT !.added = IF Lib!SrcCatalogued THEN src.added ELSE remote,
                                     !.pinned = self[p].pin, !.head = Lib!HeadOf(t)]
  BY <1>3, <1>5, <1>6, <1>8, Zenon
<1>10. /\ src' \in {src, entry} /\ tree' \in {tree, t} /\ self[p].at = "catalog"
       /\ src' = src \/ Lib!Recordable(p)
  <2>1. \/ Lib!Recordable(p) /\ src' = entry /\ tree' = t
        \/ src' = src /\ tree' = t
        \/ src' = src /\ tree' = tree
    BY <1>1, <1>9, Zenon DEF Lib!RecordSource
  <2> QED
    BY <2>1 DEF Lib!RecordSource
<1>11. Lib!Repins(p) => h = remote
  BY <1>2, <1>3 DEF Lib!HeadOf
<1>12. tree \in CloneSet /\ tree.head <= remote
  BY DEF LibTyped
<1> QED
  BY <1>2, <1>4, <1>7, <1>8, <1>10, <1>11, <1>12 DEF Lib!Recordable

LEMMA RefreshOutcome ==
    ASSUME Apart, LibTyped, tree.head <= remote, NEW p \in Proc, Lib!RefreshCheckout(p)
    PROVE  /\ tree' \in CloneSet /\ tree'.state = tree.state /\ tree'.head <= remote
           /\ \/ src' = src
              \/ /\ src' \in SrcSet /\ src'.added = src.added /\ src'.head <= remote
                 /\ src'.drifted => src'.head < remote
                 /\ src'.drifted \/ src'.head = remote
<1>0. tree \in CloneSet /\ remote \in Nat \ {0} /\ src \in SrcSet
  BY DEF LibTyped
<1>1. CASE UNCHANGED <<src, tree>>
  BY <1>0, <1>1
<1>2. CASE ~ UNCHANGED <<src, tree>>
  <2>1. PICK t : t = IF tree.edit = "ahead" THEN tree ELSE [tree EXCEPT !.head = remote]
    OBVIOUS
  <2>2. t \in CloneSet /\ t.state = tree.state /\ t.head <= remote /\ t.edit = tree.edit
        /\ (tree.edit # "ahead" => t.head = remote)
    BY <1>0, <2>1 DEF CloneSet
  <2>3. PICK d \in BOOLEAN : d = (tree.edit = "ahead")
    OBVIOUS
  <2>8. PICK h : h = Lib!HeadOf(t)
    OBVIOUS
  <2>4. /\ h \in Int /\ h <= remote /\ (d => h < remote) /\ (~ d => h = remote)
    <3>1. d <=> t.edit = "ahead"
      BY <2>2, <2>3
    <3>2. h = IF t.edit = "ahead" THEN -1 ELSE t.head
      BY <2>8 DEF Lib!HeadOf
    <3>3. t.head \in Nat /\ remote \in Nat /\ 0 - 1 < remote
      BY <1>0, <2>2 DEF CloneSet
    <3>4. ~ d => h = remote
      BY <2>2, <3>1, <3>2
    <3>5. d => h = -1
      BY <3>1, <3>2
    <3> QED
      BY <3>3, <3>4, <3>5
  <2>5. PICK v : v = [src EXCEPT !.head = h, !.checked = TRUE, !.drifted = d]
    OBVIOUS
  <2>6. v \in SrcSet /\ v.added = src.added /\ v.head = h /\ v.drifted = d
    BY <1>0, <2>4, <2>5 DEF SrcSet
  <2>7. tree' = t /\ src' \in {src, v}
    <3>1. /\ tree' = t
          /\ \/ src' = [src EXCEPT !.head = Lib!HeadOf(t), !.checked = TRUE,
                                   !.drifted = tree.edit = "ahead"]
             \/ src' = src
      BY <1>2, <2>1, Zenon DEF Lib!RefreshCheckout
    <3>2. v = [src EXCEPT !.head = Lib!HeadOf(t), !.checked = TRUE, !.drifted = tree.edit = "ahead"]
      BY <2>3, <2>5, <2>8, Zenon
    <3> QED
      BY <3>1, <3>2, Zenon
  <2> QED
    BY <2>2, <2>4, <2>6, <2>7
<1> QED
  BY <1>1, <1>2

LEMMA ApplySourceOutcome ==
    ASSUME Apart, LibTyped, NEW p \in Proc, Lib!ApplySource(p)
    PROVE  \/ src' = src
           \/ /\ src' \in SrcSet /\ src'.added = src.added /\ src'.head = src.head
              /\ Lib!SrcCatalogued /\ src = self[p].src
              /\ src'.drifted = (src.head # self[p].print)
<1>1. CASE /\ Lib!SrcCatalogued /\ src = self[p].src
           /\ src' = [self[p].src EXCEPT !.checked = TRUE,
                                         !.drifted = self[p].src.head # self[p].print]
  <2>1. PICK d \in BOOLEAN : d = (src.head # self[p].print)
    OBVIOUS
  <2>2. PICK v : v = [src EXCEPT !.checked = TRUE, !.drifted = d]
    OBVIOUS
  <2>3. src \in SrcSet
    BY DEF LibTyped
  <2>4. v \in SrcSet /\ v.added = src.added /\ v.head = src.head /\ v.drifted = d
    BY <2>2, <2>3 DEF SrcSet
  <2>5. src' = v
    <3>1. src' = [src EXCEPT !.checked = TRUE, !.drifted = src.head # self[p].print]
      BY <1>1, Zenon
    <3> QED
      BY <2>1, <2>2, <3>1, Zenon
  <2> QED
    BY <1>1, <2>1, <2>4, <2>5
<1> QED
  BY <1>1 DEF Lib!ApplySource, Lib!Applicable

LEMMA CloneOutcome ==
    ASSUME Apart, LibTyped, NEW p \in Proc
    PROVE  /\ Lib!Mkdir(p) => tree' \in CloneSet /\ tree'.head \in {0, tree.head}
                              /\ (tree' = tree \/ tree.state = "absent")
           /\ Lib!Clone(p) => /\ tree' \in CloneSet /\ tree'.head \in {0, remote}
                              /\ \/ tree'.state = "ok" /\ self'[p].at = "catalog"
                                    /\ self'[p].src = self[p].src
                                    /\ self'[p].fresh = self[p].fresh
                                    /\ swept' = swept
                                 \/ self'[p].at = "idle" /\ swept' = (swept \/ Lib!SrcCatalogued)
<1>0. Lib!NoTree \in CloneSet /\ tree \in CloneSet /\ remote \in Nat /\ Lib!NoTree.head = 0
  BY LibConstants DEF LibTyped, Lib!NoTree
<1>1. ASSUME Lib!Mkdir(p) PROVE /\ tree' \in CloneSet /\ tree'.head \in {0, tree.head}
                                /\ (tree' = tree \/ tree.state = "absent")
  <2>1. /\ [Lib!NoTree EXCEPT !.state = "empty"] \in CloneSet
        /\ [Lib!NoTree EXCEPT !.state = "empty"].head = 0
    BY <1>0 DEF CloneSet
  <2>2. tree.head \in Nat
    BY <1>0 DEF CloneSet
  <2> QED
    BY <1>0, <1>1, <2>1, <2>2 DEF Lib!Mkdir
<1>2. ASSUME Lib!Clone(p)
      PROVE /\ tree' \in CloneSet /\ tree'.head \in {0, remote}
            /\ \/ tree'.state = "ok" /\ self'[p].at = "catalog"
                  /\ self'[p].src = self[p].src /\ self'[p].fresh = self[p].fresh
                  /\ swept' = swept
               \/ self'[p].at = "idle" /\ swept' = (swept \/ Lib!SrcCatalogued)
  <2>1. PICK pin \in BOOLEAN : pin = self[p].pin
    BY DEF LibTyped, CmdSet
  <2>2. PICK v : v = [Lib!NoTree EXCEPT !.state = "ok", !.head = remote, !.detached = pin]
    OBVIOUS
  <2>3. v \in CloneSet /\ v.state = "ok" /\ v.head = remote
    BY <1>0, <2>2 DEF CloneSet
  <2>4. \/ tree' = v /\ Lib!To(p, "catalog") /\ swept' = swept
        \/ tree' = Lib!NoTree /\ Lib!End(p) /\ swept' = (swept \/ Lib!SrcCatalogued)
    BY <1>2, <2>1, <2>2, Zenon DEF Lib!Clone
  <2>5. Lib!To(p, "catalog") => /\ self'[p].at = "catalog"
                                /\ self'[p].src = self[p].src /\ self'[p].fresh = self[p].fresh
    BY ToFields DEF LibTyped, Steps
  <2>6. Lib!End(p) => self'[p].at = "idle"
    BY EndFields DEF LibTyped
  <2> QED
    BY <1>0, <2>3, <2>4, <2>5, <2>6
<1> QED
  BY <1>1, <1>2

-----------------------------------------------------------------------------
\* Which actions concern the mirror, and which the clone.

OnMirror(p) == \/ Lib!Claim(p) \/ Lib!WritePages(p) \/ Lib!WriteIndex(p) \/ Lib!Displace(p)
               \/ Lib!Swap(p) \/ Lib!Record(p)
               \/ Lib!Sweep(p) \/ Lib!RemoveDocs(p) \/ Lib!DeleteMirror(p) \/ Lib!ApplyDocs(p)
               \/ \E r \in Slots : Lib!Adopt(p, r)
OnClone(p) == \/ Lib!Mkdir(p) \/ Lib!Clone(p) \/ Lib!RecordSource(p) \/ Lib!Rmtree(p)
              \/ Lib!RefreshCheckout(p)
              \/ Lib!ApplySource(p) \/ Lib!RemoveSource(p) \/ Lib!DeleteTree(p)
OnNeither(p) == \/ Lib!PlanAdd(p) \/ Lib!PlanRefresh(p) \/ Lib!ProbeSeed(p) \/ Lib!Crawl(p)
                \/ Lib!Discover(p)
                \/ Lib!Publish(p) \/ Lib!CheckDocs(p) \/ Lib!Inventory(p) \/ Lib!Page(p)
                \/ Lib!RecordBusy(p)
                \/ Lib!Look(p) \/ Lib!Refresh(p) \/ Lib!CheckSource(p) \/ Lib!GiveUp(p)
                \/ Lib!Killed(p)
                \/ \E pin \in BOOLEAN : Lib!AddSource(p, pin)

LEMMA Parted ==
    ASSUME NEW p \in Proc, Lib!Command(p)
    PROVE  /\ \/ OnMirror(p) /\ UNCHANGED Lib!cloneVars
              \/ OnClone(p) /\ UNCHANGED Lib!mirrorVars
              \/ OnNeither(p) /\ UNCHANGED Lib!mirrorVars /\ UNCHANGED Lib!cloneVars
           /\ UNCHANGED <<site, remote>>
<1> DEFINE Goal == /\ \/ OnMirror(p) /\ UNCHANGED Lib!cloneVars
                      \/ OnClone(p) /\ UNCHANGED Lib!mirrorVars
                      \/ OnNeither(p) /\ UNCHANGED Lib!mirrorVars /\ UNCHANGED Lib!cloneVars
                   /\ UNCHANGED <<site, remote>>
<1>1. ASSUME \/ Lib!Claim(p) \/ Lib!WritePages(p) \/ Lib!WriteIndex(p) \/ Lib!Displace(p)
             \/ Lib!Swap(p) \/ Lib!Record(p)
      PROVE  Goal
  BY <1>1, Zenon DEF OnMirror, Lib!Claim, Lib!WritePages, Lib!WriteIndex, Lib!Displace, Lib!Swap,
     Lib!Record, Lib!Upstream
<1>2. ASSUME \/ Lib!Sweep(p) \/ Lib!RemoveDocs(p) \/ Lib!DeleteMirror(p) \/ Lib!ApplyDocs(p)
             \/ \E r \in Slots : Lib!Adopt(p, r)
      PROVE  Goal
  BY <1>2, Zenon DEF OnMirror, Lib!Sweep, Lib!RemoveDocs, Lib!DeleteMirror, Lib!ApplyDocs,
     Lib!Adopt, Lib!Upstream
<1>3. ASSUME Lib!Mkdir(p) \/ Lib!Clone(p) \/ Lib!RecordSource(p) \/ Lib!Rmtree(p) PROVE Goal
  BY <1>3, Zenon DEF OnClone, Lib!Mkdir, Lib!Clone, Lib!RecordSource, Lib!Rmtree, Lib!Upstream
<1>4. ASSUME \/ Lib!RefreshCheckout(p) \/ Lib!ApplySource(p) \/ Lib!RemoveSource(p)
             \/ Lib!DeleteTree(p)
      PROVE  Goal
  BY <1>4, Zenon DEF OnClone, Lib!RefreshCheckout, Lib!ApplySource, Lib!RemoveSource,
     Lib!DeleteTree, Lib!Upstream
<1>5. ASSUME \/ Lib!PlanAdd(p) \/ Lib!PlanRefresh(p) \/ Lib!ProbeSeed(p) \/ Lib!Crawl(p)
             \/ Lib!Discover(p)
      PROVE  Goal
  BY <1>5, Zenon DEF OnNeither, Lib!PlanAdd, Lib!PlanRefresh, Lib!Planned, Lib!ProbeSeed,
     Lib!Crawl, Lib!Discover, Lib!Upstream
<1>6. ASSUME \/ Lib!Publish(p) \/ Lib!CheckDocs(p) \/ Lib!Inventory(p) \/ Lib!Page(p)
             \/ Lib!RecordBusy(p)
      PROVE  Goal
  BY <1>6, Zenon DEF OnNeither, Lib!Publish, Lib!CheckDocs, Lib!Inventory, Lib!Page,
     Lib!RecordBusy, Lib!Upstream
<1>7. ASSUME \/ Lib!Look(p) \/ Lib!Refresh(p) \/ Lib!CheckSource(p) \/ Lib!GiveUp(p)
             \/ Lib!Killed(p)
             \/ \E pin \in BOOLEAN : Lib!AddSource(p, pin)
      PROVE  Goal
  BY <1>7, Zenon DEF OnNeither, Lib!Look, Lib!Refresh, Lib!CheckSource, Lib!GiveUp, Lib!Killed,
     Lib!AddSource, Lib!Upstream
<1> HIDE DEF Goal
<1>8. Goal
  BY <1>1, <1>2, <1>3, <1>4, <1>5, <1>6, <1>7, Zenon DEF Lib!Command
<1> QED
  BY <1>8, Zenon DEF Goal

\* The staging directories, one at a time.
LEMMA PutStage ==
    ASSUME LibTyped, NEW r \in Slots, NEW v \in StageSet, stage' = [stage EXCEPT ![r] = v]
    PROVE  /\ stage' \in [Slots -> StageSet] /\ stage'[r] = v
           /\ \A s \in Slots \ {r} : stage'[s] = stage[s]
  BY DEF LibTyped

LEMMA StageState ==
    ASSUME LibTyped, NEW r \in Slots, NEW k \in {"claimed", "full", "moved"},
           stage' = [stage EXCEPT ![r].state = k]
    PROVE  /\ stage' \in [Slots -> StageSet]
           /\ stage'[r].state = k /\ stage'[r].by = stage[r].by
           /\ \A s \in Slots \ {r} : stage'[s] = stage[s]
<1>1. PICK v : v = [stage[r] EXCEPT !.state = k]
  OBVIOUS
<1>2. v \in StageSet /\ v.state = k /\ v.by = stage[r].by
  BY <1>1 DEF LibTyped, StageSet
<1>3. stage' = [stage EXCEPT ![r] = v]
  BY <1>1, Zenon
<1> QED
  BY <1>2, <1>3, PutStage

LEMMA PagesOutcome ==
    ASSUME LibTyped, Claimed, Crawled, NEW p \in Proc, Lib!WritePages(p)
    PROVE  LET r == self[p].slot IN
           /\ r \in Slots /\ stage' \in [Slots -> StageSet]
           /\ stage'[r].state = "partial" /\ stage'[r].by = {p}
           /\ \A s \in Slots \ {r} : stage'[s] = stage[s]
<1> DEFINE r == self[p].slot
<1>1. r \in Slots /\ stage[r].state = "claimed" /\ stage[r].by = {}
  BY DEF Claimed, Crawled, Crawling, Lib!WritePages
<1>2. stage' = [stage EXCEPT ![r] = [state |-> IF stage[r].state = "full" THEN "full" ELSE "partial",
                                     by |-> stage[r].by \cup {p}]]
  BY DEF Lib!WritePages
<1>3. PICK k, b : k = (IF stage[r].state = "full" THEN "full" ELSE "partial")
                  /\ b = stage[r].by \cup {p}
  OBVIOUS
<1>4. k = "partial" /\ b = {p}
  BY <1>1, <1>3
<1>5. stage' = [stage EXCEPT ![r] = [state |-> k, by |-> b]]
  BY <1>2, <1>3, Zenon
<1>6. PICK v : v = [state |-> k, by |-> b]
  OBVIOUS
<1>7. v \in StageSet /\ v.state = "partial" /\ v.by = {p}
  BY <1>4, <1>6 DEF StageSet
<1>8. stage' = [stage EXCEPT ![r] = v]
  BY <1>5, <1>6, Zenon
<1> QED
  BY <1>1, <1>7, <1>8, PutStage

-----------------------------------------------------------------------------
MirrorTyped == /\ docs \in DocSet /\ mirror \in Slots \cup {0} /\ aside \subseteq Slots
               /\ stage \in [Slots -> StageSet]

\* A command that moves on to nothing that counts leaves the mirror as it is.
LEMMA QuietMirror ==
    ASSUME Apart, LibTyped, MirrorInv, NEW p \in Proc, OthersKeep(p), UNCHANGED Lib!mirrorVars,
           \/ self'[p].at \notin Crawling \cup {"delete"}
           \/ /\ self'[p].slot = self[p].slot
              /\ \/ self[p].at \in {"crawl", "fetch"} /\ self'[p].at \in {"fetch", "write"}
                 \/ self[p].at = "publish" /\ self'[p].at = "displace"
    PROVE  (MirrorTyped /\ MirrorInv)'
<1>0. UNCHANGED <<docs, mirror, aside, stage>>
  BY DEF Lib!mirrorVars
<1>1. MirrorTyped'
  BY <1>0 DEF MirrorTyped, LibTyped
<1>2. Claimed'
  BY DEF MirrorInv, Claimed, Crawling, OthersKeep
<1>3. Crawled'
  BY <1>0 DEF MirrorInv, Crawled, Written, Crawling, OthersKeep
<1>4. Whole'
  BY <1>0, Zenon DEF MirrorInv, Whole, Lib!RevisionsKept, Lib!Catalogued
<1>5. Swapping'
  BY <1>0 DEF MirrorInv, Swapping, Crawling, OthersKeep, Lib!Catalogued
<1> QED
  BY <1>1, <1>2, <1>3, <1>4, <1>5 DEF MirrorInv

LEMMA NeitherKeeps ==
    ASSUME Apart, LibTyped, MirrorInv, NEW p \in Proc, OnNeither(p) \/ OnClone(p), OthersKeep(p),
           UNCHANGED Lib!mirrorVars
    PROVE  (MirrorTyped /\ MirrorInv)'
<1> DEFINE Goal == (MirrorTyped /\ MirrorInv)'
<1> HIDE DEF Goal
<1>0. ASSUME self'[p].at \notin Crawling \cup {"delete"} PROVE Goal
  BY <1>0, QuietMirror DEF Goal
<1>e. Lib!End(p) => self'[p].at = "idle"
  BY EndFields DEF LibTyped
<1>t. \A at \in Steps : Lib!To(p, at) => self'[p].at = at /\ self'[p].slot = self[p].slot
  BY ToFields DEF LibTyped
<1>1. ASSUME Lib!PlanAdd(p) \/ Lib!PlanRefresh(p) PROVE Goal
  BY <1>0, <1>1, PlannedOutcome DEF Lib!PlanAdd, Lib!PlanRefresh, Crawling
<1>2. ASSUME Lib!ProbeSeed(p) PROVE Goal
  BY <1>0, <1>2, <1>e, <1>t DEF Lib!ProbeSeed, Lib!Redirects, Crawling, Steps
<1>3. ASSUME Lib!Crawl(p) \/ Lib!Discover(p) PROVE Goal
  <2>1. \/ self'[p].at = "idle"
        \/ /\ self'[p].slot = self[p].slot
           /\ self[p].at \in {"crawl", "fetch"} /\ self'[p].at \in {"fetch", "write"}
    BY <1>3, <1>e, <1>t DEF Lib!Crawl, Lib!Discover, Lib!Redirects, Steps
  <2> QED
    BY <1>0, <2>1, QuietMirror DEF Goal, Crawling
<1>4. ASSUME Lib!Publish(p) PROVE Goal
  <2>1. \/ self'[p].at = "idle"
        \/ /\ self'[p].slot = self[p].slot
           /\ self[p].at = "publish" /\ self'[p].at = "displace"
    BY <1>4, <1>e, <1>t DEF Lib!Publish, Steps
  <2> QED
    BY <1>0, <2>1, QuietMirror DEF Goal, Crawling
<1>5. ASSUME \/ Lib!CheckDocs(p) \/ Lib!CheckSource(p) \/ Lib!Refresh(p) \/ Lib!RemoveSource(p)
      PROVE  Goal
  BY <1>0, <1>5, BeginOutcome DEF Crawling
<1>6. ASSUME Lib!Inventory(p) \/ Lib!Page(p) \/ Lib!Look(p) PROVE Goal
  BY <1>0, <1>6, InventoryOutcome, PageOutcome, LookedOutcome DEF Crawling
<1>7. ASSUME \E pin \in BOOLEAN : Lib!AddSource(p, pin) PROVE Goal
  <2>1. self'[p].at \in {"mkdir", "catalog"}
    BY <1>7, AddOutcome
  <2> QED
    BY <1>0, <2>1 DEF Crawling
<1>8. ASSUME \/ Lib!RecordBusy(p) \/ Lib!Mkdir(p) \/ Lib!Clone(p) \/ Lib!RecordSource(p)
      PROVE  Goal
  <2>1. self'[p].at \in {"idle", "clone", "catalog", "look"}
    BY <1>8, <1>e, <1>t DEF Lib!RecordBusy, Lib!Mkdir, Lib!Clone, Lib!RecordSource, Steps
  <2> QED
    BY <1>0, <2>1 DEF Crawling
<1>9. ASSUME \/ Lib!GiveUp(p) \/ Lib!Killed(p) \/ Lib!Rmtree(p) \/ Lib!RefreshCheckout(p)
             \/ Lib!ApplySource(p)
             \/ Lib!DeleteTree(p)
      PROVE Goal
  <2>1. self'[p].at = "idle"
    BY <1>9, <1>e DEF Lib!GiveUp, Lib!Killed, Lib!Rmtree, Lib!RefreshCheckout, Lib!ApplySource,
       Lib!DeleteTree
  <2> QED
    BY <1>0, <2>1 DEF Crawling
<1> QED
  BY <1>1, <1>2, <1>3, <1>4, <1>5, <1>6, <1>7, <1>8, <1>9 DEF OnNeither, OnClone, Goal

\* A slot that changes is no one else's, and nothing that was moved away.
LEMMA SlotOwned ==
    ASSUME LibTyped, MirrorInv, NEW p \in Proc, self[p].at \in Crawling
    PROVE  /\ self[p].slot \in Slots
           /\ \A q \in Proc \ {p} : self[q].at \in Crawling =>
                 self[q].slot \in Slots \ {self[p].slot}
           /\ stage[self[p].slot].state # "moved" =>
                 /\ mirror # self[p].slot \/ mirror = 0
                 /\ self[p].slot \notin aside
                 /\ Lib!Catalogued => docs.rev # self[p].slot
<1>1. /\ self[p].slot \in Slots
      /\ \A q \in Proc \ {p} : self[q].at \in Crawling =>
                 self[q].slot \in Slots \ {self[p].slot}
  BY DEF MirrorInv, Claimed
<1>2. stage[self[p].slot].state # "moved" =>
                 /\ mirror # self[p].slot \/ mirror = 0
                 /\ self[p].slot \notin aside
                 /\ Lib!Catalogued => docs.rev # self[p].slot
  BY DEF MirrorInv, Whole
<1> QED
  BY <1>1, <1>2

\* A slot that is written on changes nothing but what its own command knows.
LEMMA SlotWritten ==
    ASSUME Apart, LibTyped, MirrorInv, NEW p \in Proc, OthersKeep(p), NEW r \in Slots,
           UNCHANGED <<docs, mirror, aside>>, stage' \in [Slots -> StageSet],
           \A s \in Slots \ {r} : stage'[s] = stage[s],
           stage[r].state # "moved",
           \A q \in Proc \ {p} : self[q].at \in Crawling => self[q].slot # r,
           self'[p].slot = r, stage'[r].state \notin {"absent", "moved"},
           \/ self'[p].at = "crawl" /\ stage'[r].state = "claimed" /\ stage'[r].by = {}
           \/ self'[p].at = "index" /\ stage'[r].state = "partial" /\ stage'[r].by = {p}
           \/ self'[p].at = "publish" /\ stage'[r].state = "full" /\ stage'[r].by = {p}
    PROVE  (MirrorTyped /\ MirrorInv)'
<1>0. docs' = docs /\ mirror' = mirror /\ aside' = aside
  OBVIOUS
<1>1. MirrorTyped'
  BY DEF MirrorTyped, LibTyped
<1>2. Claimed'
  BY DEF MirrorInv, Claimed, Crawling, OthersKeep
<1>3. Crawled'
  <2>1. ASSUME NEW q \in Proc \ {p}, self[q].at \in Crawling
        PROVE  stage'[self[q].slot] = stage[self[q].slot]
    BY <2>1 DEF MirrorInv, Claimed
  <2> QED
    BY <2>1, SMTT(60) DEF MirrorInv, Crawled, Written, Crawling, OthersKeep
<1>4. Whole'
  <2>1. \A s \in Slots : stage'[s].state \in {"full", "moved"} => \E q \in Proc : stage'[s].by = {q}
    BY DEF MirrorInv, Whole
  <2>2. \A s \in Slots : stage'[s].state = "absent" => stage'[s].by = {}
    BY DEF MirrorInv, Whole
  <2>3. \A s \in Slots : stage[s].state = "moved" => stage'[s].state = "moved"
    OBVIOUS
  <2>4. docs.rev \in Slots \cup {0} /\ mirror \in Slots \cup {0} /\ aside \subseteq Slots
    BY DEF LibTyped, DocSet
  <2> QED
    BY <1>0, <2>1, <2>2, <2>3, <2>4 DEF MirrorInv, Whole, Lib!RevisionsKept, Lib!Catalogued
<1>5. Swapping'
  BY <1>0 DEF MirrorInv, Swapping, Crawling, OthersKeep, Lib!Catalogued
<1> QED
  BY <1>1, <1>2, <1>3, <1>4, <1>5 DEF MirrorInv

LEMMA ClaimKeeps ==
    ASSUME Apart, LibTyped, MirrorInv, NEW p \in Proc, Lib!Claim(p)
    PROVE  (MirrorTyped /\ MirrorInv)'
<1>1. PICK r \in Lib!FreeSlots : /\ OthersKeep(p) /\ self'[p].at = "crawl" /\ self'[p].slot = r
                            /\ stage' = [stage EXCEPT ![r].state = "claimed"]
  BY ClaimOutcome
<1>2. r \in Slots /\ stage[r].state = "absent"
  BY DEF Lib!FreeSlots
<1>3. /\ stage' \in [Slots -> StageSet] /\ stage'[r].state = "claimed"
      /\ stage'[r].by = stage[r].by /\ \A s \in Slots \ {r} : stage'[s] = stage[s]
  BY <1>1, <1>2, StageState
<1>4. stage[r].by = {}
  BY <1>2 DEF MirrorInv, Whole
<1>5. \A q \in Proc : self[q].at \in Crawling => self[q].slot # r
  BY <1>2 DEF MirrorInv, Crawled, Written, Crawling
<1>6. UNCHANGED <<docs, mirror, aside>>
  BY DEF Lib!Claim
<1>7. /\ stage[r].state # "moved" /\ stage'[r].state \notin {"absent", "moved"}
      /\ stage'[r].by = {} /\ \A q \in Proc \ {p} : self[q].at \in Crawling => self[q].slot # r
  BY <1>2, <1>3, <1>4, <1>5
<1> QED
  BY <1>1, <1>2, <1>3, <1>6, <1>7, SlotWritten

LEMMA PagesKeep ==
    ASSUME Apart, LibTyped, MirrorInv, NEW p \in Proc, Lib!WritePages(p) \/ Lib!WriteIndex(p)
    PROVE  (MirrorTyped /\ MirrorInv)'
<1> DEFINE r == self[p].slot
<1>1. /\ self[p].at \in Crawling /\ stage[r].state # "moved"
  BY DEF Lib!WritePages, Lib!WriteIndex, MirrorInv, Crawled, Written, Crawling
<1>2. r \in Slots /\ \A q \in Proc \ {p} : self[q].at \in Crawling => self[q].slot # r
  BY <1>1, SlotOwned
<1>3. UNCHANGED <<docs, mirror, aside>>
  BY DEF Lib!WritePages, Lib!WriteIndex
<1>t. \A at \in Steps : Lib!To(p, at) =>
        self'[p].at = at /\ self'[p].slot = self[p].slot /\ OthersKeep(p)
  BY ToFields DEF LibTyped
<1>4. CASE Lib!WritePages(p)
  <2>1. self'[p].at = "index" /\ self'[p].slot = r /\ OthersKeep(p)
    BY <1>4, <1>t DEF Lib!WritePages, Steps
  <2>2. /\ stage' \in [Slots -> StageSet]
        /\ stage'[r].state = "partial" /\ stage'[r].by = {p}
        /\ \A s \in Slots \ {r} : stage'[s] = stage[s]
    BY <1>4, PagesOutcome DEF MirrorInv
  <2> QED
    BY <1>1, <1>2, <1>3, <2>1, <2>2, SlotWritten
<1>5. CASE Lib!WriteIndex(p)
  <2>1. self'[p].at = "publish" /\ self'[p].slot = r /\ OthersKeep(p)
    BY <1>5, <1>t, SMTT(60) DEF Lib!WriteIndex, Steps
  <2>2. /\ stage' \in [Slots -> StageSet]
        /\ stage'[r].state = "full" /\ stage'[r].by = stage[r].by
        /\ \A s \in Slots \ {r} : stage'[s] = stage[s]
    BY <1>2, <1>5, StageState DEF Lib!WriteIndex
  <2>3. stage[r].by = {p}
    BY <1>5 DEF Lib!WriteIndex, MirrorInv, Crawled, Written
  <2> QED
    BY <1>1, <1>2, <1>3, <2>1, <2>2, <2>3, SlotWritten
<1> QED
  BY <1>4, <1>5

\* The holder of the lock is alone in the middle of something.
LEMMA Alone ==
    ASSUME Apart, Locked, NEW p \in Proc, lock \in {0, p}, OthersKeep(p)
    PROVE  \A q \in Proc \ {p} : self[q].at \notin Holding /\ self'[q].at \notin Holding
  BY DEF Locked, OthersKeep, Apart

LEMMA DisplaceKeeps ==
    ASSUME Apart, LibTyped, Locked, MirrorInv, NEW p \in Proc, Lib!Displace(p)
    PROVE  (MirrorTyped /\ MirrorInv)'
<1> DEFINE r == self[p].slot
<1>0. /\ OthersKeep(p) /\ self[p].at = "displace" /\ lock = p /\ UNCHANGED <<docs, stage>>
  BY DisplaceOutcome DEF Lib!Displace, Locked, Holding
<1>1. CASE self'[p].at = "idle" /\ UNCHANGED <<mirror, aside>>
  <2>1. UNCHANGED Lib!mirrorVars
    BY <1>0, <1>1 DEF Lib!mirrorVars
  <2> QED
    BY <1>0, <1>1, <2>1, QuietMirror DEF Crawling
<1>2. CASE /\ self'[p].at = "swap" /\ self'[p].slot = r
           /\ self'[p].previous = mirror /\ mirror' = 0
           /\ aside' = aside \cup ({mirror} \ {0})
  <2>1. MirrorTyped'
    BY <1>0, <1>2 DEF MirrorTyped, LibTyped
  <2>2. Claimed'
    BY <1>0, <1>2 DEF MirrorInv, Claimed, Crawling, OthersKeep
  <2>3. Crawled'
    BY <1>0, <1>2 DEF MirrorInv, Crawled, Written, Crawling, OthersKeep
  <2>4. Whole'
    <3>1. \A s \in aside' : stage'[s].state = "moved"
      BY <1>0, <1>2 DEF MirrorInv, Whole
    <3>2. Lib!Catalogued' => docs'.rev \in aside'
      BY <1>0, <1>2 DEF MirrorInv, Whole, Lib!RevisionsKept, Lib!Catalogued
    <3> QED
      BY <1>0, <1>2, <3>1, <3>2 DEF MirrorInv, Whole, Lib!RevisionsKept, Lib!Catalogued
  <2>5. Swapping'
    <3>1. \A q \in Proc \ {p} : self'[q].at \notin Holding
      BY <1>0, Alone
    <3> QED
      BY <1>2, <3>1 DEF Swapping, Holding
  <2> QED
    BY <2>1, <2>2, <2>3, <2>4, <2>5 DEF MirrorInv
<1> QED
  BY <1>1, <1>2, DisplaceOutcome

\* The previous revision put back in place.
LEMMA RestoredWhole ==
    ASSUME Apart, LibTyped, MirrorInv, NEW p \in Proc, Lib!Restored(p), docs' = docs,
           self[p].previous \in aside \cup {0}, Lib!Catalogued => docs.rev \in aside
    PROVE  /\ mirror' \in Slots \cup {0} /\ aside' \subseteq Slots
           /\ Lib!RevisionsKept' /\ mirror' \in aside \cup {0} /\ aside' \subseteq aside
<1>1. mirror' = self[p].previous /\ aside' = aside \ {self[p].previous}
  BY DEF Lib!Restored
<1> QED
  BY <1>1 DEF Lib!RevisionsKept, Lib!Catalogued, LibTyped

LEMMA SwapKeeps ==
    ASSUME Apart, LibTyped, Locked, MirrorInv, NEW p \in Proc, Lib!Swap(p)
    PROVE  (MirrorTyped /\ MirrorInv)'
<1> DEFINE r == self[p].slot
<1>0. /\ self[p].at = "swap" /\ lock = p /\ docs' = docs
      /\ mirror = 0 /\ self[p].previous \in aside \cup {0} /\ Written(p, "full")
      /\ self[p].at \in Crawling
  BY DEF Lib!Swap, Locked, Holding, MirrorInv, Swapping, Crawled, Crawling
<1>1. /\ r \in Slots /\ r \notin aside /\ (Lib!Catalogued => docs.rev # r)
      /\ Lib!Catalogued => docs.rev \in aside
      /\ \A q \in Proc \ {p} : self[q].at \in Crawling => self[q].slot \in Slots \ {r}
  <2>1. stage[r].state # "moved" /\ docs.rev \in Slots \cup {0}
    BY <1>0 DEF Written, LibTyped, DocSet
  <2>2. Lib!Catalogued => docs.rev # 0
    BY DEF MirrorInv, Whole, Lib!Catalogued
  <2> QED
    BY <1>0, <2>1, <2>2, SlotOwned DEF MirrorInv, Whole, Lib!RevisionsKept
<1>2. CASE Lib!End(p) /\ Lib!Restored(p) /\ stage' = stage
  <2>0. self'[p].at = "idle" /\ OthersKeep(p)
    BY <1>2, EndFields DEF LibTyped
  <2>a. /\ mirror' \in Slots \cup {0} /\ aside' \subseteq Slots
        /\ Lib!RevisionsKept' /\ mirror' \in aside \cup {0} /\ aside' \subseteq aside
    BY <1>0, <1>1, <1>2, RestoredWhole
  <2>1. MirrorTyped'
    BY <1>0, <1>2, <2>a DEF MirrorTyped, LibTyped
  <2>2. Claimed'
    BY <2>0 DEF MirrorInv, Claimed, Crawling, OthersKeep
  <2>3. Crawled'
    BY <1>2, <2>0 DEF MirrorInv, Crawled, Written, Crawling, OthersKeep
  <2>4. Whole'
    BY <1>0, <1>2, <2>a DEF MirrorInv, Whole, Lib!Catalogued
  <2>5. Swapping'
    <3>1. \A q \in Proc \ {p} : self'[q].at \notin Holding
      BY <1>0, <2>0, Alone
    <3> QED
      BY <2>0, <3>1 DEF Swapping, Holding
  <2> QED
    BY <2>1, <2>2, <2>3, <2>4, <2>5 DEF MirrorInv
<1>3. CASE /\ mirror' = r /\ stage' = [stage EXCEPT ![r].state = "moved"] /\ Lib!To(p, "record")
           /\ aside' = aside
  <2>0. /\ self'[p].at = "record" /\ self'[p].slot = r /\ self'[p].previous = self[p].previous
        /\ OthersKeep(p)
    BY <1>3, ToFields, SMTT(60) DEF LibTyped, Steps
  <2>s. /\ stage' \in [Slots -> StageSet] /\ stage'[r].state = "moved" /\ stage'[r].by = {p}
        /\ \A s \in Slots \ {r} : stage'[s] = stage[s]
    BY <1>0, <1>1, <1>3, StageState DEF Written
  <2>1. MirrorTyped'
    BY <1>0, <1>1, <1>3, <2>s DEF MirrorTyped, LibTyped
  <2>2. Claimed'
    BY <1>0, <2>0 DEF MirrorInv, Claimed, Crawling, OthersKeep
  <2>3. Crawled'
    <3>1. \A q \in Proc \ {p} : self[q].at \in Crawling => stage'[self[q].slot] = stage[self[q].slot]
      BY <1>1, <2>s
    <3> QED
      BY <2>0, <2>s, <3>1, SMTT(60) DEF MirrorInv, Crawled, Written, Crawling, OthersKeep
  <2>4. Whole'
    <3>1. \A s \in Slots : stage[s].state = "moved" => stage'[s].state = "moved"
      BY <2>s
    <3>2. \A s \in Slots : stage'[s].state \in {"full", "moved"} => \E q \in Proc : stage'[s].by = {q}
      BY <2>s DEF MirrorInv, Whole
    <3>3. \A s \in Slots : stage'[s].state = "absent" => stage'[s].by = {}
      BY <2>s DEF MirrorInv, Whole
    <3>4. aside \subseteq Slots
      BY DEF LibTyped
    <3> QED
      BY <1>0, <1>1, <1>3, <2>s, <3>1, <3>2, <3>3, <3>4
      DEF MirrorInv, Whole, Lib!RevisionsKept, Lib!Catalogued
  <2>5. Swapping'
    <3>1. \A q \in Proc \ {p} : self'[q].at \notin Holding
      BY <1>0, <2>0, Alone
    <3>2. docs.rev # r /\ self[p].previous # r
      <4>1. r # 0
        BY <1>1 DEF Apart
      <4>2. ~ Lib!Catalogued => docs.rev = 0
        BY DEF MirrorInv, Whole, Lib!Catalogued
      <4> QED
        BY <1>0, <1>1, <4>1, <4>2
    <3> QED
      BY <1>0, <1>1, <1>3, <2>0, <3>1, <3>2 DEF Swapping, Holding
  <2> QED
    BY <2>1, <2>2, <2>3, <2>4, <2>5 DEF MirrorInv
<1> QED
  BY <1>2, <1>3 DEF Lib!Swap

LEMMA RecordKeeps ==
    ASSUME Apart, LibTyped, Locked, MirrorInv, NEW p \in Proc, Lib!Record(p)
    PROVE  (MirrorTyped /\ MirrorInv)'
<1> DEFINE r == self[p].slot
<1>0. /\ self[p].at = "record" /\ lock = p /\ mirror = r /\ r \notin aside /\ docs.rev # r
      /\ self[p].previous \in aside \cup {0} /\ self[p].previous # r /\ Written(p, "moved")
      /\ self[p].at \in Crawling
  BY DEF Lib!Record, Locked, Holding, MirrorInv, Swapping, Crawled, Crawling
<1>1. /\ r \in Slots
      /\ \A q \in Proc \ {p} : self[q].at \in Crawling => self[q].slot \in Slots \ {r}
  BY <1>0, SlotOwned
<1>2. Lib!Catalogued => docs.rev \in aside
  BY <1>0 DEF MirrorInv, Whole, Lib!RevisionsKept
<1>3. CASE docs' = Lib!Published(p) /\ Lib!To(p, "sweep") /\ UNCHANGED <<mirror, aside, stage>>
  <2>0. /\ self'[p].at = "sweep" /\ self'[p].slot = r /\ self'[p].previous = self[p].previous
        /\ OthersKeep(p)
    BY <1>3, ToFields DEF LibTyped, Steps
  <2>d. docs' \in DocSet /\ docs'.rev = r /\ docs'.added # 0
    BY <1>1, <1>3, PublishedFields
  <2>1. MirrorTyped'
    BY <1>3, <2>d DEF MirrorTyped, LibTyped
  <2>2. Claimed'
    BY <1>0, <2>0 DEF MirrorInv, Claimed, Crawling, OthersKeep
  <2>3. Crawled'
    BY <1>0, <1>3, <2>0 DEF MirrorInv, Crawled, Written, Crawling, OthersKeep
  <2>4. Whole'
    <3>1. r # 0 /\ stage[r].state = "moved"
      BY <1>0, <1>1 DEF Apart, Written
    <3> QED
      BY <1>0, <1>3, <2>d, <3>1 DEF MirrorInv, Whole, Lib!RevisionsKept, Lib!Catalogued
  <2>5. Swapping'
    <3>1. \A q \in Proc \ {p} : self'[q].at \notin Holding
      BY <1>0, <2>0, Alone
    <3> QED
      BY <1>0, <1>3, <2>0, <2>d, <3>1 DEF Swapping, Holding
  <2> QED
    BY <2>1, <2>2, <2>3, <2>4, <2>5 DEF MirrorInv
<1>4. CASE /\ Lib!End(p) /\ docs' = docs
           /\ \/ stage' = [stage EXCEPT ![r].state = "full"] /\ Lib!Restored(p)
              \/ aside' = aside /\ UNCHANGED <<mirror, stage>>
              \/ aside' = aside /\ mirror' = 0 /\ stage' = [stage EXCEPT ![r].state = "full"]
  <2>0. self'[p].at = "idle" /\ OthersKeep(p)
    BY <1>4, EndFields DEF LibTyped
  <2>a. /\ mirror' \in Slots \cup {0} /\ aside' \subseteq aside /\ Lib!RevisionsKept'
        /\ stage' = stage \/ mirror' \in aside \cup {0}
        /\ mirror' \in aside \cup {0, mirror}
    <3>1. CASE Lib!Restored(p)
      BY <1>0, <1>2, <1>4, <3>1, RestoredWhole
    <3>2. CASE aside' = aside /\ UNCHANGED <<mirror, stage>>
      BY <1>4, <3>2 DEF MirrorInv, Whole, Lib!RevisionsKept, Lib!Catalogued, LibTyped
    <3>3. CASE aside' = aside /\ mirror' = 0
      BY <1>2, <1>4, <3>3 DEF Lib!RevisionsKept, Lib!Catalogued
    <3> QED
      BY <1>4, <3>1, <3>2, <3>3
  <2>s. /\ stage' \in [Slots -> StageSet] /\ stage'[r].state \in {"full", "moved"}
        /\ stage'[r].by = {p} /\ \A s \in Slots \ {r} : stage'[s] = stage[s]
    <3>1. CASE stage' = [stage EXCEPT ![r].state = "full"]
      BY <1>0, <1>1, <3>1, StageState DEF Written
    <3>2. CASE stage' = stage
      BY <1>0, <3>2 DEF Written, LibTyped
    <3> QED
      BY <1>4, <3>1, <3>2, SMTT(60)
  <2>1. MirrorTyped'
    BY <1>4, <2>a, <2>s DEF MirrorTyped, LibTyped
  <2>2. Claimed'
    BY <2>0 DEF MirrorInv, Claimed, Crawling, OthersKeep
  <2>3. Crawled'
    <3>1. \A q \in Proc \ {p} : self[q].at \in Crawling => stage'[self[q].slot] = stage[self[q].slot]
      BY <1>1, <2>s
    <3> QED
      BY <2>0, <3>1 DEF MirrorInv, Crawled, Written, Crawling, OthersKeep
  <2>4. Whole'
    <3>1. \A s \in Slots \ {r} : stage[s].state = "moved" => stage'[s].state = "moved"
      BY <2>s
    <3>2. \A s \in Slots : stage'[s].state \in {"full", "moved"} => \E q \in Proc : stage'[s].by = {q}
      BY <2>s DEF MirrorInv, Whole
    <3>3. \A s \in Slots : stage'[s].state = "absent" => stage'[s].by = {}
      BY <2>s DEF MirrorInv, Whole
    <3>4. aside \subseteq Slots \ {r} /\ docs.rev \in Slots \cup {0}
      BY <1>0 DEF LibTyped, DocSet
    <3>5. \A s \in aside : stage'[s].state = "moved"
      BY <3>1, <3>4 DEF MirrorInv, Whole
    <3>6. mirror' # 0 => stage'[mirror'].state = "moved"
      <4>1. CASE stage' = stage
        BY <2>a, <3>5, <4>1 DEF MirrorInv, Whole
      <4> QED
        BY <2>a, <3>5, <4>1
    <3>7. Lib!Catalogued' => stage'[docs'.rev].state = "moved"
      BY <1>2, <1>4, <3>5 DEF Lib!Catalogued
    <3> QED
      BY <1>4, <2>a, <3>2, <3>3, <3>5, <3>6, <3>7 DEF MirrorInv, Whole
  <2>5. Swapping'
    <3>1. \A q \in Proc \ {p} : self'[q].at \notin Holding
      BY <1>0, <2>0, Alone
    <3> QED
      BY <2>0, <3>1 DEF Swapping, Holding
  <2> QED
    BY <2>1, <2>2, <2>3, <2>4, <2>5 DEF MirrorInv
<1> QED
  <2>1. \/ docs' = Lib!Published(p) /\ Lib!To(p, "sweep") /\ UNCHANGED <<mirror, aside, stage>>
        \/ /\ Lib!End(p) /\ docs' = docs
           /\ \/ stage' = [stage EXCEPT ![r].state = "full"] /\ Lib!Restored(p)
              \/ aside' = aside /\ UNCHANGED <<mirror, stage>>
              \/ aside' = aside /\ mirror' = 0 /\ stage' = [stage EXCEPT ![r].state = "full"]
    BY Zenon DEF Lib!Record
  <2> QED
    BY <1>3, <1>4, <2>1

\* A command that ends and takes away what is not catalogued.
LEMMA EndsKeep ==
    ASSUME Apart, LibTyped, Locked, MirrorInv, NEW p \in Proc, lock \in {0, p}, OthersKeep(p),
           self'[p].at = "idle" \/ (self'[p].at = "delete" /\ docs'.added = 0),
           docs' \in DocSet, docs'.rev = 0 <=> docs'.added = 0, stage' = stage,
           mirror' \in (aside \cup {0, mirror}), aside' \subseteq aside, Lib!RevisionsKept'
    PROVE  (MirrorTyped /\ MirrorInv)'
<1>1. MirrorTyped'
  BY DEF MirrorTyped, LibTyped
<1>2. Claimed'
  BY DEF MirrorInv, Claimed, Crawling, OthersKeep
<1>3. Crawled'
  BY DEF MirrorInv, Crawled, Written, Crawling, OthersKeep
<1>4. Whole'
  <2>1. docs'.rev # 0 => docs'.rev = mirror' \/ docs'.rev \in aside'
    BY DEF Lib!RevisionsKept, Lib!Catalogued
  <2>2. \A s \in aside \cup ({mirror} \ {0}) : stage[s].state = "moved"
    BY DEF MirrorInv, Whole
  <2>3. Lib!Catalogued' => stage'[docs'.rev].state = "moved"
    BY <2>1, <2>2 DEF Lib!Catalogued
  <2> QED
    BY <2>2, <2>3 DEF MirrorInv, Whole
<1>5. Swapping'
  <2>1. \A q \in Proc \ {p} : self'[q].at \notin Holding
    BY Alone
  <2> QED
    BY <2>1 DEF Swapping, Holding, Lib!Catalogued
<1> QED
  BY <1>1, <1>2, <1>3, <1>4, <1>5 DEF MirrorInv

LEMMA SweepKeeps ==
    ASSUME Apart, LibTyped, Locked, MirrorInv, NEW p \in Proc, Lib!Sweep(p)
    PROVE  (MirrorTyped /\ MirrorInv)'
<1>1. /\ self[p].at = "sweep" /\ lock = p /\ docs' = docs /\ mirror' = mirror /\ stage' = stage
      /\ aside' \subseteq aside
      /\ mirror = self[p].slot /\ docs.rev = self[p].slot
  BY DEF Lib!Sweep, Locked, Holding, MirrorInv, Swapping
<1>2. self'[p].at = "idle" /\ OthersKeep(p)
  BY EndFields DEF Lib!Sweep, LibTyped
<1>3. Lib!RevisionsKept'
  BY <1>1 DEF Lib!RevisionsKept
<1>4. docs' \in DocSet /\ (docs'.rev = 0 <=> docs'.added = 0)
  BY <1>1 DEF LibTyped, MirrorInv, Whole
<1> QED
  BY <1>1, <1>2, <1>3, <1>4, EndsKeep

LEMMA RemoveKeeps ==
    ASSUME \/ Apart, LibTyped, Locked, MirrorInv, NEW p \in Proc, Lib!RemoveDocs(p)
           \/ Lib!DeleteMirror(p)
    PROVE  (MirrorTyped /\ MirrorInv)'
<1>0. Lib!NoDocs \in DocSet /\ Lib!NoDocs.rev = 0 /\ Lib!NoDocs.added = 0
  BY LibConstants DEF Lib!NoDocs
<1>1. CASE Lib!RemoveDocs(p)
  <2>1. self'[p].at = "delete" /\ OthersKeep(p)
    BY <1>1, BeginOutcome
  <2>2. docs' = Lib!NoDocs /\ UNCHANGED <<mirror, aside, stage>> /\ lock = 0
    BY <1>1 DEF Lib!RemoveDocs, Lib!TakeLock
  <2>3. Lib!RevisionsKept'
    BY <1>0, <2>2 DEF Lib!RevisionsKept, Lib!Catalogued
  <2> QED
    BY <1>0, <2>1, <2>2, <2>3, EndsKeep
<1>2. CASE Lib!DeleteMirror(p)
  <2>1. self'[p].at = "idle" /\ OthersKeep(p)
    BY <1>2, EndFields DEF Lib!DeleteMirror, LibTyped
  <2>2. /\ self[p].at = "delete" /\ lock = p /\ UNCHANGED <<docs, aside, stage>>
        /\ mirror' \in {0, mirror} /\ docs.added = 0
    BY <1>2 DEF Lib!DeleteMirror, Locked, Holding, MirrorInv, Swapping, Lib!Catalogued
  <2>3. Lib!RevisionsKept'
    BY <2>2 DEF Lib!RevisionsKept, Lib!Catalogued
  <2>4. docs' \in DocSet /\ (docs'.rev = 0 <=> docs'.added = 0)
    BY <2>2 DEF LibTyped, MirrorInv, Whole
  <2> QED
    BY <2>1, <2>2, <2>3, <2>4, EndsKeep
<1> QED
  BY <1>1, <1>2

LEMMA ApplyKeeps ==
    ASSUME Apart, LibTyped, Locked, MirrorInv, NEW p \in Proc, Lib!ApplyDocs(p)
    PROVE  (MirrorTyped /\ MirrorInv)'
<1>1. self'[p].at = "idle" /\ OthersKeep(p)
  BY EndFields DEF Lib!ApplyDocs, LibTyped
<1>2. lock = 0 /\ UNCHANGED <<mirror, aside, stage>>
  BY DEF Lib!ApplyDocs
<1>3. docs' \in DocSet /\ docs'.rev = docs.rev /\ docs'.added = docs.added
  <2>1. docs \in DocSet
    BY DEF LibTyped
  <2> QED
    BY <2>1, ApplyDocsOutcome
<1>4. Lib!RevisionsKept' /\ (docs'.rev = 0 <=> docs'.added = 0)
  BY <1>2, <1>3 DEF MirrorInv, Whole, Lib!RevisionsKept, Lib!Catalogued
<1> QED
  BY <1>1, <1>2, <1>3, <1>4, EndsKeep

LEMMA AdoptKeeps ==
    ASSUME Apart, LibTyped, Locked, MirrorInv, NEW p \in Proc, NEW r \in Slots, Lib!Adopt(p, r)
    PROVE  (MirrorTyped /\ MirrorInv)'
<1>1. self'[p].at = "idle" /\ OthersKeep(p)
  BY BeginOutcome
<1>2. lock = 0 /\ stage' = stage /\ mirror' = r /\ aside' = aside \ {r}
      /\ r \in aside \cup {mirror}
  BY DEF Lib!Adopt, Lib!AdoptRenames, Lib!Adoptable
<1>3. docs' \in DocSet /\ docs'.rev = r /\ docs'.added = r
  BY AdoptedFields DEF Lib!Adopt
<1>4. r # 0
  BY DEF Apart
<1>5. Lib!RevisionsKept'
  BY <1>2, <1>3 DEF Lib!RevisionsKept
<1> QED
  BY <1>1, <1>2, <1>3, <1>4, <1>5, EndsKeep

LEMMA MirrorKept ==
    ASSUME Apart, LibTyped, Locked, MirrorInv, Lib!Next
    PROVE  (MirrorTyped /\ MirrorInv)'
<1>1. CASE Lib!Move
  <2>1. UNCHANGED <<docs, mirror, aside, stage, self>>
    BY <1>1 DEF Lib!Move, Lib!mirrorVars
  <2>2. MirrorTyped'
    BY <2>1 DEF MirrorTyped, LibTyped
  <2>3. MirrorInv'
    BY <2>1 DEF MirrorInv, Claimed, Crawled, Written, Whole, Lib!RevisionsKept, Swapping,
       Lib!Catalogued
  <2> QED
    BY <2>2, <2>3
<1>2. ASSUME NEW p \in Proc, Lib!Command(p) PROVE (MirrorTyped /\ MirrorInv)'
  <2>1. OthersKeep(p)
    BY <1>2, MovesTyped
  <2>2. \/ OnMirror(p)
        \/ (OnNeither(p) \/ OnClone(p)) /\ UNCHANGED Lib!mirrorVars
    BY <1>2, Parted
  <2> QED
    BY <2>1, <2>2, NeitherKeeps, ClaimKeeps, PagesKeep, DisplaceKeeps, SwapKeeps, RecordKeeps,
       SweepKeeps, RemoveKeeps, ApplyKeeps, AdoptKeeps DEF OnMirror
<1> QED
  BY <1>1, <1>2 DEF Lib!Next

-----------------------------------------------------------------------------
\* A recorded drift is a head that is behind what is served.
SrcSound(e, served) == e.head <= served /\ (e.drifted => e.added # 0 /\ e.head < served)
AskSound(c, served) == c.print <= served /\ c.src.head <= c.print
                       /\ (c.src.drifted => c.src.head < c.print)
Versions == /\ tree.head <= remote /\ SrcSound(src, remote)
            /\ \A p \in Proc : self[p].at = "source" => AskSound(self[p], remote)

\* A command that made the directory of the clone found none there.
Cloning == {"mkdir", "clone", "look", "rmtree"}
Cleaning == /\ Lib!CloneIsThere
            /\ \A p \in Proc :
                 /\ self[p].at \in Cloning => self[p].fresh
                 /\ self[p].at \in Cloning \cup {"catalog"} /\ self[p].fresh
                    /\ self[p].src.added # 0
                      => swept
                 /\ self[p].at = "rmtree" => self[p].saw
                 /\ self[p].at = "deletetree" => ~ Lib!SrcCatalogued
                 /\ self[p].at = "pull" => Lib!SrcCatalogued
CloneTyped == src \in SrcSet /\ tree \in CloneSet /\ swept \in BOOLEAN
CloneInv == Versions /\ Cleaning

\* Comparisons of what is known to be numbers.
LEMMA SoundGrows ==
    ASSUME NEW v \in Nat
    PROVE  /\ \A e \in SrcSet : SrcSound(e, v) => SrcSound(e, v + 1)
           /\ \A t \in CloneSet : t.head <= v => t.head <= v + 1
           /\ \A c \in CmdSet : AskSound(c, v) => AskSound(c, v + 1)
<1>1. \A e \in SrcSet : e.head \in Int
  BY DEF SrcSet
<1>2. \A t \in CloneSet : t.head \in Nat
  BY DEF CloneSet
<1>3. \A c \in CmdSet : c.print \in Nat
  BY DEF CmdSet
<1> QED
  BY <1>1, <1>2, <1>3 DEF SrcSound, AskSound

LEMMA AskAgain ==
    ASSUME NEW e \in SrcSet, NEW v \in Nat, SrcSound(e, v), NEW c \in CmdSet, c.src = e, c.print = v
    PROVE  AskSound(c, v)
  BY DEF SrcSound, AskSound

LEMMA AnswerSound ==
    ASSUME NEW e \in SrcSet, NEW c \in CmdSet, NEW v \in Nat, AskSound(c, v), c.src = e, e.added # 0,
           NEW x \in SrcSet, x.added = e.added, x.head = e.head, x.drifted = (e.head # c.print)
    PROVE  SrcSound(x, v)
<1>1. e.head \in Int /\ c.print \in Nat /\ x.head \in Int
  BY DEF SrcSet, CmdSet
<1>2. e.head <= c.print /\ c.print <= v
  BY DEF AskSound
<1>3. x.drifted => e.head < c.print
  <2>1. x.drifted => e.head # c.print
    BY Zenon
  <2> QED
    BY <1>1, <1>2, <2>1
<1> QED
  BY <1>1, <1>2, <1>3 DEF SrcSound

\* What a command does to the entry of the clone.
LEMMA SourceStep ==
    ASSUME Apart, LibTyped, Locked, CloneInv, NEW p \in Proc, Lib!Command(p)
    PROVE  \E e \in SrcSet, t \in CloneSet :
             /\ src' = e /\ tree' = t
             /\ SrcSound(e, remote) /\ t.head <= remote
             /\ \/ e = src
                \/ /\ e.added # 0 /\ self[p].at = "catalog" /\ Lib!RecordSource(p)
                   /\ ~ Lib!SrcCatalogued => Lib!IsCheckout
                   /\ self[p].fresh \/ e.head = remote \/ ~ Lib!SrcCatalogued
                \/ /\ e.added = src.added
                   /\ e.drifted \/ e.head = remote
                \/ /\ e.added = src.added /\ e.head = src.head /\ Lib!ApplySource(p)
                   /\ src.drifted => e.drifted
                \/ e.added = 0
<1>0. /\ src \in SrcSet /\ tree \in CloneSet /\ remote \in Nat /\ Lib!NoTree \in CloneSet
      /\ Lib!NoSrc \in SrcSet
      /\ SrcSound(src, remote) /\ tree.head <= remote
  BY LibConstants DEF LibTyped, CloneInv, Versions
<1>n. /\ Lib!NoTree.head <= remote /\ Lib!NoSrc.added = 0 /\ SrcSound(Lib!NoSrc, remote)
  BY <1>0 DEF Lib!NoTree, Lib!NoSrc, SrcSound
<1>1. CASE UNCHANGED <<src, tree>>
  <2>1. src' = src /\ tree' = tree
    BY <1>1
  <2> QED
    BY <1>0, <2>1
<1>2. CASE Lib!Mkdir(p) \/ Lib!Clone(p) \/ Lib!Rmtree(p) \/ Lib!DeleteTree(p)
  <2>1. src' = src
    BY <1>2 DEF Lib!Mkdir, Lib!Clone, Lib!Rmtree, Lib!DeleteTree
  <2>2. /\ tree' \in CloneSet /\ tree'.head \in {0, remote, tree.head}
    <3>1. Lib!NoTree.head = 0
      BY DEF Lib!NoTree
    <3> QED
      BY <1>0, <1>2, <3>1, CloneOutcome DEF Lib!Rmtree, Lib!DeleteTree
  <2>3. PICK t \in CloneSet : t = tree'
    BY <2>2
  <2>4. t.head <= remote
    BY <1>0, <2>2, <2>3
  <2> QED
    BY <1>0, <2>1, <2>3, <2>4
<1>3. CASE Lib!RecordSource(p)
  <2>1. /\ tree' \in CloneSet /\ tree'.head <= remote
        /\ \/ src' = src
           \/ /\ src' \in SrcSet /\ src'.added # 0 /\ ~ src'.drifted /\ src'.head <= remote
              /\ self[p].at = "catalog"
              /\ \/ self[p].fresh
                 \/ src'.head = remote
                 \/ ~ Lib!SrcCatalogued
              /\ ~ Lib!SrcCatalogued => Lib!IsCheckout
    BY <1>0, <1>3, RecordOutcome
  <2>2. PICK t \in CloneSet, e \in SrcSet : t = tree' /\ e = src'
    BY <1>0, <2>1
  <2>3. SrcSound(e, remote) /\ t.head <= remote
    BY <1>0, <2>1, <2>2 DEF SrcSound
  <2> QED
    BY <1>3, <2>1, <2>2, <2>3
<1>4. CASE Lib!RefreshCheckout(p)
  <2>1. /\ tree' \in CloneSet /\ tree'.head <= remote
        /\ \/ src' = src
           \/ /\ src' \in SrcSet /\ src'.added = src.added /\ src'.head <= remote
              /\ src'.drifted => src'.head < remote
              /\ src'.drifted \/ src'.head = remote
    BY <1>0, <1>4, RefreshOutcome
  <2>2. PICK t \in CloneSet, e \in SrcSet : t = tree' /\ e = src'
    BY <1>0, <2>1
  <2>3. src.added # 0
    BY <1>4 DEF Lib!RefreshCheckout, CloneInv, Cleaning, Lib!SrcCatalogued
  <2>4. SrcSound(e, remote) /\ t.head <= remote
    BY <1>0, <2>1, <2>2, <2>3 DEF SrcSound
  <2> QED
    BY <2>1, <2>2, <2>4
<1>5. CASE Lib!ApplySource(p)
  <2>1. tree' = tree
    BY <1>5 DEF Lib!ApplySource
  <2>2. CASE src' = src
    BY <1>0, <2>1, <2>2
  <2>3. CASE /\ src' \in SrcSet /\ src'.added = src.added /\ src'.head = src.head
             /\ Lib!SrcCatalogued /\ src = self[p].src
             /\ src'.drifted = (src.head # self[p].print)
    <3>1. AskSound(self[p], remote) /\ self[p] \in CmdSet
      BY <1>5 DEF Lib!ApplySource, CloneInv, Versions, LibTyped
    <3>2. PICK e \in SrcSet : e = src'
      BY <2>3
    <3>3. SrcSound(e, remote)
      BY <1>0, <2>3, <3>1, <3>2, AnswerSound DEF Lib!SrcCatalogued
    <3>4. src.drifted => e.drifted
      <4>1. src.drifted => src.head < self[p].print
        BY <2>3, <3>1 DEF AskSound
      <4>2. src.head \in Int /\ self[p].print \in Nat
        BY <1>0, <3>1 DEF SrcSet, CmdSet
      <4> QED
        <5>1. src.drifted => src.head # self[p].print
          BY <4>1, <4>2
        <5> QED
          BY <2>3, <3>2, <5>1, Zenon
    <3> QED
      BY <1>0, <1>5, <2>1, <2>3, <3>2, <3>3, <3>4
  <2> QED
    BY <1>5, <2>2, <2>3, ApplySourceOutcome
<1>6. CASE Lib!RemoveSource(p)
  <2>1. src' = Lib!NoSrc /\ tree' = tree
    BY <1>6 DEF Lib!RemoveSource
  <2> QED
    BY <1>0, <1>n, <2>1
<1>7. OnClone(p) \/ UNCHANGED <<src, tree>>
  <2>1. OnClone(p) \/ UNCHANGED Lib!cloneVars
    BY Parted
  <2> QED
    BY <2>1 DEF Lib!cloneVars
<1> QED
  BY <1>1, <1>2, <1>3, <1>4, <1>5, <1>6, <1>7, Zenon DEF OnClone

\* By which action a command comes where it is.
LEMMA Arrivals ==
    ASSUME Apart, LibTyped, NEW p \in Proc, Lib!Command(p)
    PROVE  /\ self'[p].at = "source" => Lib!CheckSource(p)
           /\ self'[p].at = "inventory" => Lib!CheckDocs(p)
           /\ self'[p].at = "page" => Lib!Inventory(p)
           /\ self'[p].at = "apply" => Lib!Page(p)
           /\ self'[p].at = "pull" => Lib!Refresh(p)
           /\ self'[p].at = "deletetree" => Lib!RemoveSource(p)
           /\ self'[p].at \in {"mkdir", "catalog"} =>
                Lib!Clone(p) \/ \E pin \in BOOLEAN : Lib!AddSource(p, pin)
           /\ self'[p].at = "clone" => Lib!Mkdir(p)
           /\ self'[p].at = "look" => Lib!RecordSource(p) \/ Lib!RecordBusy(p)
           /\ self'[p].at = "rmtree" => Lib!Look(p)
<1> DEFINE New == self'[p].at
           Asking == {"source", "inventory", "page", "apply", "pull", "deletetree", "mkdir", "catalog",
                      "clone", "look", "rmtree"}
<1>e. Lib!End(p) => New = "idle"
  BY EndFields DEF LibTyped
<1>t. \A at \in Steps : Lib!To(p, at) => New = at
  BY ToFields DEF LibTyped
<1>1. Lib!PlanAdd(p) \/ Lib!PlanRefresh(p) => New \notin Asking
  BY PlannedOutcome DEF Lib!PlanAdd, Lib!PlanRefresh
<1>2. (\E pin \in BOOLEAN : Lib!AddSource(p, pin)) => New \in {"mkdir", "catalog"}
  BY AddOutcome
<1>3. /\ Lib!RemoveDocs(p) \/ (\E r \in Slots : Lib!Adopt(p, r)) => New \notin Asking
      /\ Lib!RemoveSource(p) => New = "deletetree"
      /\ Lib!Refresh(p) => New = "pull"
      /\ Lib!CheckDocs(p) => New = "inventory"
      /\ Lib!CheckSource(p) => New = "source"
  BY BeginOutcome
<1>4. /\ Lib!Claim(p) \/ Lib!Displace(p) => New \notin Asking
      /\ Lib!Inventory(p) => New = "page"
      /\ Lib!Page(p) => New \in {"idle", "apply"}
      /\ Lib!Look(p) => New \in {"idle", "rmtree"}
  BY ClaimOutcome, InventoryOutcome, PageOutcome, LookedOutcome, DisplaceOutcome
<1>5. Lib!ProbeSeed(p) \/ Lib!Crawl(p) \/ Lib!Discover(p) \/ Lib!WritePages(p)
      \/ Lib!WriteIndex(p) \/ Lib!Publish(p)
      => New \notin Asking
  BY <1>e, <1>t DEF Lib!ProbeSeed, Lib!Redirects, Lib!Crawl, Lib!Discover, Lib!WritePages,
     Lib!WriteIndex, Lib!Publish, Steps
<1>6. Lib!Swap(p) \/ Lib!Record(p) \/ Lib!Sweep(p) \/ Lib!DeleteMirror(p) \/ Lib!ApplyDocs(p)
        => New \notin Asking
  BY <1>e, <1>t DEF Lib!Swap, Lib!Record, Lib!Sweep, Lib!DeleteMirror, Lib!ApplyDocs, Steps
<1>7. /\ Lib!Mkdir(p) => New \in {"idle", "clone"}
      /\ Lib!Clone(p) => New \in {"idle", "catalog"}
      /\ Lib!RecordSource(p) \/ Lib!RecordBusy(p) => New \in {"idle", "look"}
  BY <1>e, <1>t DEF Lib!Mkdir, Lib!Clone, Lib!RecordSource, Lib!RecordBusy, Steps
<1>8. Lib!Rmtree(p) \/ Lib!RefreshCheckout(p) \/ Lib!ApplySource(p) \/ Lib!DeleteTree(p)
      \/ Lib!GiveUp(p) \/ Lib!Killed(p)
      => New \notin Asking
  BY <1>e DEF Lib!Rmtree, Lib!RefreshCheckout, Lib!ApplySource, Lib!DeleteTree, Lib!GiveUp,
     Lib!Killed
<1> HIDE DEF New
<1>9. /\ New = "source" => Lib!CheckSource(p)
      /\ New = "inventory" => Lib!CheckDocs(p)
      /\ New = "page" => Lib!Inventory(p)
      /\ New = "apply" => Lib!Page(p)
      /\ New = "pull" => Lib!Refresh(p)
      /\ New = "deletetree" => Lib!RemoveSource(p)
      /\ New \in {"mkdir", "catalog"} =>
           Lib!Clone(p) \/ \E pin \in BOOLEAN : Lib!AddSource(p, pin)
      /\ New = "clone" => Lib!Mkdir(p)
      /\ New = "look" => Lib!RecordSource(p) \/ Lib!RecordBusy(p)
      /\ New = "rmtree" => Lib!Look(p)
  BY <1>1, <1>2, <1>3, <1>4, <1>5, <1>6, <1>7, <1>8, SMTT(60) DEF Lib!Command
<1> QED
  BY <1>9, Zenon DEF New

LEMMA VersionsKept ==
    ASSUME Apart, LibTyped, Locked, CloneInv, Lib!Next
    PROVE  CloneTyped' /\ Versions'
<1>0. /\ src \in SrcSet /\ tree \in CloneSet /\ remote \in Nat /\ swept \in BOOLEAN
      /\ SrcSound(src, remote) /\ tree.head <= remote
      /\ \A p \in Proc : self[p].at = "source" => AskSound(self[p], remote) /\ self[p] \in CmdSet
  BY DEF LibTyped, CloneInv, Versions
<1>1. CASE Lib!Move
  <2>1. UNCHANGED <<src, swept, self>>
    BY <1>1 DEF Lib!Move
  <2>2. CASE UNCHANGED <<remote, tree>>
    BY <1>0, <2>1, <2>2 DEF CloneTyped, Versions, SrcSound, AskSound
  <2>3. CASE remote' = remote + 1 /\ UNCHANGED <<site, tree>>
    <3>1. PICK v \in Nat : v = remote + 1
      BY <1>0
    <3>2. /\ SrcSound(src, v) /\ tree.head <= v
          /\ \A p \in Proc : self[p].at = "source" => AskSound(self[p], v)
      BY <1>0, <3>1, SoundGrows
    <3>3. remote' = v
      BY <2>3, <3>1
    <3> QED
      BY <1>0, <2>1, <2>3, <3>2, <3>3 DEF CloneTyped, Versions, SrcSound, AskSound
  <2>4. CASE /\ UNCHANGED <<site, remote>>
             /\ \E e \in {"dirty", "ahead"} : tree' = [tree EXCEPT !.edit = e]
    <3>1. PICK e \in {"dirty", "ahead"} : tree' = [tree EXCEPT !.edit = e]
      BY <2>4
    <3>2. PICK t : t = [tree EXCEPT !.edit = e]
      OBVIOUS
    <3>3. t \in CloneSet /\ t.head = tree.head
      BY <1>0, <3>2 DEF CloneSet
    <3>4. tree' = t
      BY <3>1, <3>2
    <3>5. tree' \in CloneSet /\ tree'.head = tree.head
      BY <3>3, <3>4
    <3> QED
      BY <1>0, <2>1, <2>4, <3>5 DEF CloneTyped, Versions, SrcSound, AskSound
  <2> QED
    BY <1>1, <2>2, <2>3, <2>4 DEF Lib!Move
<1>2. ASSUME NEW p \in Proc, Lib!Command(p) PROVE CloneTyped' /\ Versions'
  <2>1. PICK e \in SrcSet, t \in CloneSet :
             /\ src' = e /\ tree' = t /\ SrcSound(e, remote) /\ t.head <= remote
    BY <1>2, SourceStep
  <2>2. OthersKeep(p) /\ remote' = remote /\ self' \in [Proc -> CmdSet]
    BY <1>2, MovesTyped, Parted
  <2>3. swept' \in BOOLEAN
    <3>1. Lib!Clone(p) \/ Lib!Rmtree(p) \/ swept' = swept
      <4>1. OnClone(p) \/ UNCHANGED Lib!cloneVars
        BY <1>2, Parted
      <4>2. Lib!Mkdir(p) \/ Lib!RecordSource(p) \/ Lib!RefreshCheckout(p)
            \/ Lib!ApplySource(p) \/ Lib!RemoveSource(p)
            \/ Lib!DeleteTree(p) => swept' = swept
        BY DEF Lib!Mkdir, Lib!RecordSource, Lib!RefreshCheckout, Lib!ApplySource,
           Lib!RemoveSource, Lib!DeleteTree
      <4> QED
        BY <4>1, <4>2 DEF OnClone, Lib!cloneVars
    <3> QED
      BY <1>0, <3>1 DEF Lib!Clone, Lib!Rmtree
  <2>4. self'[p].at = "source" => AskSound(self'[p], remote)
    <3>1. CASE Lib!CheckSource(p)
      <4>1. PICK c \in CmdSet : c = self'[p] /\ c.src = src /\ c.print = remote
        BY <2>2, <3>1, BeginOutcome
      <4>2. AskSound(c, remote)
        BY <1>0, <4>1, AskAgain
      <4> QED
        BY <4>1, <4>2
    <3>2. CASE ~ Lib!CheckSource(p)
      BY <1>2, <3>2, Arrivals
    <3> QED
      BY <3>1, <3>2
  <2>5. \A q \in Proc \ {p} : self'[q].at = "source" => AskSound(self'[q], remote)
    BY <1>0, <2>2 DEF OthersKeep
  <2>6. CloneTyped'
    BY <2>1, <2>3 DEF CloneTyped
  <2>7. tree'.head <= remote /\ SrcSound(src', remote)
    BY <2>1
  <2> QED
    BY <2>2, <2>4, <2>5, <2>6, <2>7 DEF Versions
<1> QED
  BY <1>1, <1>2 DEF Lib!Next

LEMMA CleaningKept ==
    ASSUME Apart, LibTyped, Locked, CloneInv, Lib!Next
    PROVE  Cleaning'
<1>1. CASE Lib!Move
  <2>1. UNCHANGED <<src, swept, self>>
    BY <1>1 DEF Lib!Move
  <2>2. tree'.state = tree.state
    <3>1. CASE \E e \in {"dirty", "ahead"} : tree' = [tree EXCEPT !.edit = e]
      <4>1. PICK e \in {"dirty", "ahead"} : tree' = [tree EXCEPT !.edit = e]
        BY <3>1
      <4>2. PICK t : t = [tree EXCEPT !.edit = e]
        OBVIOUS
      <4>3. t.state = tree.state
        BY <4>2 DEF LibTyped, CloneSet
      <4> QED
        BY <4>1, <4>2, <4>3, Zenon
    <3> QED
      BY <1>1, <3>1 DEF Lib!Move
  <2> QED
    BY <2>1, <2>2, Zenon DEF CloneInv, Cleaning, Lib!CloneIsThere, Lib!SrcCatalogued
<1>2. ASSUME NEW p \in Proc, Lib!Command(p) PROVE Cleaning'
  <2>1. PICK e \in SrcSet, t \in CloneSet :
             /\ src' = e /\ tree' = t
             /\ e.added # 0 => Lib!SrcCatalogued \/ (Lib!RecordSource(p) /\ Lib!IsCheckout)
    <3>1. PICK e \in SrcSet, t \in CloneSet :
             /\ src' = e /\ tree' = t
             /\ \/ e = src
                \/ Lib!RecordSource(p) /\ (~ Lib!SrcCatalogued => Lib!IsCheckout)
                \/ e.added = src.added
                \/ e.added = 0
      BY <1>2, SourceStep
    <3> QED
      BY <3>1 DEF Lib!SrcCatalogued
  <2>2. OthersKeep(p) /\ self' \in [Proc -> CmdSet]
    BY <1>2, MovesTyped
  <2>3. OnClone(p) \/ UNCHANGED <<src, tree, swept>>
    <3>1. OnClone(p) \/ UNCHANGED Lib!cloneVars
      BY <1>2, Parted
    <3> QED
      BY <3>1 DEF Lib!cloneVars
  <2>n. Lib!NoTree.state = "absent"
    BY DEF Lib!NoTree
  <2>4. (swept => swept') /\ (Lib!Clone(p) \/ Lib!Rmtree(p) \/ swept' = swept)
    <3>1. Lib!Mkdir(p) \/ Lib!RecordSource(p) \/ Lib!RefreshCheckout(p) \/ Lib!ApplySource(p)
          \/ Lib!RemoveSource(p)
          \/ Lib!DeleteTree(p) => swept' = swept
      BY DEF Lib!Mkdir, Lib!RecordSource, Lib!RefreshCheckout, Lib!ApplySource, Lib!RemoveSource,
         Lib!DeleteTree
    <3>2. Lib!Clone(p) \/ Lib!Rmtree(p) \/ swept' = swept
      BY <2>3, <3>1 DEF OnClone
    <3>3. Lib!Clone(p) => (swept => swept')
      BY Zenon DEF Lib!Clone
    <3>4. Lib!Rmtree(p) => (swept => swept')
      BY Zenon DEF Lib!Rmtree
    <3>5. swept' = swept => (swept => swept')
      OBVIOUS
    <3> QED
      BY <3>2, <3>3, <3>4, <3>5, Zenon
  <2>5. Lib!SrcCatalogued' /\ tree'.state # "ok" => swept'
    <3>0. Lib!SrcCatalogued' => Lib!SrcCatalogued \/ (Lib!RecordSource(p) /\ Lib!IsCheckout)
      BY <2>1 DEF Lib!SrcCatalogued
    <3>i. Lib!SrcCatalogued /\ tree.state # "ok" => swept
      BY DEF CloneInv, Cleaning, Lib!CloneIsThere
    <3>1. CASE Lib!Mkdir(p)
      <4>1. tree' = tree \/ tree.state = "absent"
        BY <3>1, CloneOutcome
      <4>2. src' = src /\ swept' = swept
        BY <3>1 DEF Lib!Mkdir
      <4> QED
        BY <3>i, <4>1, <4>2 DEF Lib!SrcCatalogued
    <3>2. CASE Lib!Clone(p)
      <4>1. tree'.state = "ok" \/ swept' = (swept \/ Lib!SrcCatalogued)
        BY <3>2, CloneOutcome
      <4>2. src' = src
        BY <3>2 DEF Lib!Clone
      <4> QED
        BY <4>1, <4>2 DEF Lib!SrcCatalogued
    <3>3. CASE Lib!Rmtree(p)
      <4>1. /\ src' = src /\ swept' = (swept \/ (self[p].saw /\ src # self[p].src))
            /\ self[p].at = "rmtree"
        BY <3>3 DEF Lib!Rmtree
      <4>2. self[p].saw /\ (self[p].src.added # 0 => swept)
        BY <4>1 DEF CloneInv, Cleaning, Cloning
      <4> QED
        BY <4>1, <4>2 DEF Lib!SrcCatalogued
    <3>4. CASE Lib!DeleteTree(p)
      BY <3>4 DEF Lib!DeleteTree, CloneInv, Cleaning, Lib!SrcCatalogued
    <3>5. CASE Lib!RecordSource(p)
      <4>1. tree'.state = tree.state
        BY <3>5, RecordOutcome DEF CloneInv, Versions
      <4> QED
        BY <2>4, <3>0, <3>i, <4>1 DEF Lib!IsCheckout
    <3>6. CASE Lib!RefreshCheckout(p)
      <4>1. tree'.state = tree.state
        BY <3>6, RefreshOutcome DEF CloneInv, Versions
      <4>2. ~ Lib!RecordSource(p)
        BY <3>6 DEF Lib!RefreshCheckout, Lib!RecordSource
      <4> QED
        BY <2>4, <3>0, <3>i, <4>1, <4>2
    <3>7. CASE Lib!ApplySource(p) \/ Lib!RemoveSource(p)
      <4>1. tree' = tree
        BY <3>7 DEF Lib!ApplySource, Lib!RemoveSource
      <4> QED
        BY <2>4, <3>0, <3>i, <4>1 DEF Lib!IsCheckout
    <3>8. CASE UNCHANGED <<src, tree, swept>>
      BY <3>8, <3>i DEF Lib!SrcCatalogued
    <3> QED
      BY <2>3, <3>1, <3>2, <3>3, <3>4, <3>5, <3>6, <3>7, <3>8 DEF OnClone
  <2>6. src' # src => lock \in {0, p}
    BY <2>3 DEF OnClone, Lib!Mkdir, Lib!Clone, Lib!RecordSource, Lib!Rmtree, Lib!RefreshCheckout,
       Lib!ApplySource, Lib!RemoveSource,
       Lib!DeleteTree, Lib!TakeLock, Lib!Release
  <2>7. ASSUME NEW q \in Proc \ {p}
        PROVE  /\ self'[q].at \in Cloning => self'[q].fresh
               /\ self'[q].at \in Cloning \cup {"catalog"} /\ self'[q].fresh
                  /\ self'[q].src.added # 0
                    => swept'
               /\ self'[q].at = "rmtree" => self'[q].saw
               /\ self'[q].at = "deletetree" => ~ Lib!SrcCatalogued'
               /\ self'[q].at = "pull" => Lib!SrcCatalogued'
    <3>1. self'[q] = self[q]
      BY <2>2 DEF OthersKeep
    <3>2. self[q].at \in {"deletetree", "pull"} => src' = src
      BY <2>6 DEF Locked, Holding, Apart
    <3> QED
      BY <2>4, <3>1, <3>2 DEF CloneInv, Cleaning, Lib!SrcCatalogued
  <2>8. /\ self'[p].at \in Cloning => self'[p].fresh
        /\ self'[p].at \in Cloning \cup {"catalog"} /\ self'[p].fresh /\ self'[p].src.added # 0
             => swept'
        /\ self'[p].at = "rmtree" => self'[p].saw
        /\ self'[p].at = "deletetree" => ~ Lib!SrcCatalogued'
        /\ self'[p].at = "pull" => Lib!SrcCatalogued'
    <3>t. \A at \in Steps : Lib!To(p, at) => /\ self'[p].at = at /\ self'[p].src = self[p].src
                                             /\ self'[p].fresh = self[p].fresh
      BY ToFields DEF LibTyped
    <3>e. Lib!End(p) => self'[p].at = "idle"
      BY EndFields DEF LibTyped
    <3>p. /\ self[p].at \in Cloning => self[p].fresh
          /\ self[p].at \in Cloning \cup {"catalog"} /\ self[p].fresh /\ self[p].src.added # 0 => swept
      BY DEF CloneInv, Cleaning
    <3>1. CASE \E pin \in BOOLEAN : Lib!AddSource(p, pin)
      <4>1. /\ self'[p].at \in {"mkdir", "catalog"} /\ self'[p].src = src
            /\ self'[p].fresh = (tree.state = "absent")
            /\ self'[p].fresh = FALSE => self'[p].at = "catalog"
        BY <3>1, AddOutcome
      <4>2. self'[p] \in CmdSet
        BY <2>2
      <4>3. self'[p].fresh \in BOOLEAN
        BY <4>2 DEF CmdSet
      <4>4. src.added # 0 /\ tree.state = "absent" => swept
        BY DEF CloneInv, Cleaning, Lib!CloneIsThere, Lib!SrcCatalogued
      <4> QED
        BY <2>4, <4>1, <4>3, <4>4 DEF Cloning
    <3>2. CASE Lib!Clone(p) \/ Lib!Mkdir(p)
      <4>1. \/ self'[p].at = "idle"
            \/ /\ self'[p].at \in {"clone", "catalog"} /\ self'[p].src = self[p].src
               /\ self'[p].fresh = self[p].fresh
        BY <3>2, <3>t, <3>e, CloneOutcome DEF Lib!Mkdir, Steps
      <4>2. self[p].at \in Cloning
        BY <3>2 DEF Lib!Clone, Lib!Mkdir, Cloning
      <4> QED
        BY <2>4, <3>p, <4>1, <4>2 DEF Cloning
    <3>3. CASE Lib!RecordSource(p) \/ Lib!RecordBusy(p)
      <4>1. \/ self'[p].at = "idle"
            \/ /\ self'[p].at = "look" /\ self'[p].src = self[p].src
               /\ self'[p].fresh = self[p].fresh /\ self[p].fresh
        BY <3>3, <3>t, <3>e DEF Lib!RecordSource, Lib!RecordBusy, Steps
      <4>2. self[p].at = "catalog"
        BY <3>3 DEF Lib!RecordSource, Lib!RecordBusy, Lib!Busy
      <4> QED
        BY <2>4, <3>p, <4>1, <4>2 DEF Cloning
    <3>4. CASE Lib!Look(p)
      <4>1. \/ self'[p].at = "idle"
            \/ /\ self'[p].at = "rmtree" /\ self'[p].src = self[p].src
               /\ self'[p].fresh = self[p].fresh /\ self'[p].saw
        BY <3>4, LookedOutcome
      <4>2. self[p].at \in Cloning
        BY <3>4 DEF Lib!Look, Cloning
      <4> QED
        BY <2>4, <3>p, <4>1, <4>2 DEF Cloning
    <3>5. CASE Lib!Refresh(p)
      <4>1. self'[p].at = "pull"
        BY <3>5, BeginOutcome
      <4>2. Lib!SrcCatalogued /\ src' = src
        BY <3>5 DEF Lib!Refresh, Lib!Refreshable, Lib!cloneVars
      <4> QED
        BY <4>1, <4>2 DEF Cloning, Lib!SrcCatalogued
    <3>6. CASE Lib!RemoveSource(p)
      <4>1. self'[p].at = "deletetree"
        BY <3>6, BeginOutcome
      <4>2. src'.added = 0
        BY <3>6 DEF Lib!RemoveSource, Lib!NoSrc
      <4> QED
        BY <4>1, <4>2 DEF Cloning, Lib!SrcCatalogued
    <3> QED
      BY <1>2, <3>1, <3>2, <3>3, <3>4, <3>5, <3>6, Arrivals DEF Cloning
  <2> QED
    BY <2>5, <2>7, <2>8 DEF Cleaning, Lib!CloneIsThere
<1> QED
  BY <1>1, <1>2 DEF Lib!Next

-----------------------------------------------------------------------------
\* A drift of the mirror is a marker that is older than what is served, and what a
\* probe brings is not older than what it started from.
Behind(e, served) == \/ e.base # 0 /\ e.base < served
                     \/ e.print # 0 /\ e.print < served
DocSound(e, served) == /\ e.base <= served /\ e.print <= served
                       /\ e.drifted => e.added # 0 /\ Behind(e, served)
PrintSeen(c, served) == c.print <= served /\ (c.print = 0 \/ c.doc.print <= c.print)
PageSeen(c, served) == c.src.head <= served /\ (c.src.head = 0 \/ c.doc.base <= c.src.head)
PrintTells(c) == c.doc.print # 0 /\ (c.print = 0 \/ c.print # c.doc.print)
PageTells(c) == c.doc.base # 0 /\ (c.src.head = 0 \/ c.src.head # c.doc.base)
AtPage(c, served) ==
  /\ PrintSeen(c, served)
  /\ c.doc.drifted => (c.doc.base # 0 /\ c.doc.base < served) \/ PrintTells(c)
AtApply(c, served) ==
  /\ PrintSeen(c, served) /\ PageSeen(c, served)
  /\ c.doc.drifted => PageTells(c) \/ PrintTells(c)
Asked(c, served) == /\ c.at \in {"inventory", "page", "apply"} => DocSound(c.doc, served)
                    /\ c.at = "page" => AtPage(c, served)
                    /\ c.at = "apply" => AtApply(c, served)
ProbeInv == DocSound(docs, site) /\ \A p \in Proc : Asked(self[p], site)

LEMMA DocNumbers ==
    /\ \A e \in DocSet : e.base \in Nat /\ e.print \in Nat
    /\ \A c \in CmdSet : c.print \in Nat /\ c.doc \in DocSet /\ c.src.head \in Int
  BY DEF DocSet, CmdSet, SrcSet

LEMMA AskedGrows ==
    ASSUME NEW v \in Nat
    PROVE  /\ \A e \in DocSet : DocSound(e, v) => DocSound(e, v + 1)
           /\ \A c \in CmdSet : Asked(c, v) => Asked(c, v + 1)
<1>1. ASSUME NEW e \in DocSet, DocSound(e, v) PROVE DocSound(e, v + 1)
  <2>1. e.base \in Nat /\ e.print \in Nat
    BY DocNumbers
  <2> QED
    BY <1>1, <2>1 DEF DocSound, Behind
<1>2. ASSUME NEW c \in CmdSet, Asked(c, v) PROVE Asked(c, v + 1)
  <2>1. /\ c.doc \in DocSet /\ c.print \in Nat /\ c.src.head \in Int
        /\ c.doc.base \in Nat /\ c.doc.print \in Nat
    BY DocNumbers
  <2>2. c.at \in {"inventory", "page", "apply"} => DocSound(c.doc, v + 1)
    BY <1>1, <1>2, <2>1 DEF Asked
  <2>3. c.at = "page" => AtPage(c, v + 1)
    BY <1>2, <2>1 DEF Asked, AtPage, PrintSeen, PrintTells
  <2>4. c.at = "apply" => AtApply(c, v + 1)
    BY <1>2, <2>1 DEF Asked, AtApply, PrintSeen, PrintTells, PageSeen, PageTells
  <2> QED
    BY <2>2, <2>3, <2>4 DEF Asked
<1> QED
  BY <1>1, <1>2

\* The two observations, taken of what is served at the time.
LEMMA PrintTaken ==
    ASSUME NEW v \in Nat, NEW c \in CmdSet, DocSound(c.doc, v),
           NEW d \in CmdSet, d.at = "page", d.doc = c.doc, d.print \in {0, v}
    PROVE  Asked(d, v)
<1>1. /\ c.doc \in DocSet /\ c.doc.base \in Nat /\ c.doc.print \in Nat
  BY DocNumbers
<1>2. AtPage(d, v)
  BY <1>1 DEF AtPage, PrintSeen, PrintTells, DocSound, Behind
<1> QED
  BY <1>2 DEF Asked

LEMMA PageTaken ==
    ASSUME NEW v \in Nat, NEW c \in CmdSet, DocSound(c.doc, v), AtPage(c, v),
           NEW d \in CmdSet, d.at = "apply", d.doc = c.doc, d.print = c.print, d.src.head \in {0, v}
    PROVE  Asked(d, v)
<1>1. /\ c.doc \in DocSet /\ c.doc.base \in Nat /\ c.doc.print \in Nat /\ c.print \in Nat
  BY DocNumbers
<1>2. AtApply(d, v)
  BY <1>1 DEF AtApply, AtPage, PrintSeen, PrintTells, PageSeen, PageTells, DocSound
<1> QED
  BY <1>2 DEF Asked

LEMMA AnswerTold ==
    ASSUME NEW v \in Nat, NEW c \in CmdSet, c.src.head \in Nat, DocSound(c.doc, v), AtApply(c, v),
           NEW x \in DocSet, x.added # 0, x.base = Lib!First(c.doc.base, c.src.head),
           x.print = Lib!First(c.doc.print, c.print),
           x.drifted = IF c.src.head = 0 /\ c.print = 0 THEN c.doc.drifted
                       ELSE \/ c.src.head # 0 /\ c.doc.base \notin {0, c.src.head}
                            \/ c.print # 0 /\ c.doc.print \notin {0, c.print}
                            \/ c.doc.drifted /\ (c.src.head = 0 \/ (c.print = 0 /\ c.doc.print # 0))
    PROVE  DocSound(x, v) /\ (c.doc.drifted => x.drifted)
<1>1. PICK b \in Nat, t \in Nat, page \in Nat, seen \in Nat :
          b = c.doc.base /\ t = c.doc.print /\ page = c.src.head /\ seen = c.print
  BY DocNumbers
<1>2. PICK d \in BOOLEAN : d = c.doc.drifted
  BY DocNumbers DEF DocSet
<1>3. PICK n \in BOOLEAN : n = x.drifted
  BY DEF DocSet
<1>4. n <=> IF page = 0 /\ seen = 0 THEN d
            ELSE \/ page # 0 /\ b \notin {0, page}
                 \/ seen # 0 /\ t \notin {0, seen}
                 \/ d /\ (page = 0 \/ (seen = 0 /\ t # 0))
  <2>1. n = IF page = 0 /\ seen = 0 THEN d
            ELSE \/ page # 0 /\ b \notin {0, page}
                 \/ seen # 0 /\ t \notin {0, seen}
                 \/ d /\ (page = 0 \/ (seen = 0 /\ t # 0))
    BY <1>1, <1>2, <1>3, Zenon
  <2> QED
    BY <2>1
<1>5. /\ b <= v /\ t <= v /\ (d => (b # 0 /\ b < v) \/ (t # 0 /\ t < v))
      /\ seen <= v /\ (seen = 0 \/ t <= seen) /\ page <= v /\ (page = 0 \/ b <= page)
      /\ d => \/ b # 0 /\ (page = 0 \/ page # b)
              \/ t # 0 /\ (seen = 0 \/ seen # t)
  BY <1>1, <1>2 DEF DocSound, Behind, AtApply, PrintSeen, PageSeen, PageTells, PrintTells
<1>6. d => n
  BY <1>4, <1>5
<1>7. PICK b1 \in Nat, t1 \in Nat : /\ b1 = x.base /\ t1 = x.print
                                  /\ b1 = (IF b = 0 THEN page ELSE b)
                                  /\ t1 = (IF t = 0 THEN seen ELSE t)
  BY <1>1 DEF Lib!First
<1>8. b1 <= v /\ t1 <= v
  BY <1>5, <1>7
<1>9. n => (b1 # 0 /\ b1 < v) \/ (t1 # 0 /\ t1 < v)
  BY <1>4, <1>5, <1>7
<1>10. DocSound(x, v)
  BY <1>3, <1>7, <1>8, <1>9 DEF DocSound, Behind
<1> QED
  BY <1>2, <1>3, <1>6, <1>10

\* What a command does to the entry of the mirror.
LEMMA DocStep ==
    ASSUME Apart, LibTyped, Locked, MirrorInv, ProbeInv, NEW p \in Proc, Lib!Command(p)
    PROVE  /\ DocSound(docs', site)
           /\ docs.drifted => \/ docs'.drifted
                             \/ docs'.rev # docs.rev
<1>0. /\ docs \in DocSet /\ DocSound(docs, site) /\ site \in Nat
      /\ docs.drifted => docs.rev \in Slots /\ docs.rev # 0
  BY DEF LibTyped, ProbeInv, DocSound, MirrorInv, Whole, DocSet
<1>1. CASE docs' = docs
  BY <1>0, <1>1
<1>2. CASE Lib!ApplyDocs(p) /\ docs' # docs
  <2>1. self[p] \in CmdSet /\ self[p].at = "apply" /\ self[p].src.head \in Nat
    BY <1>2 DEF LibTyped, Lib!ApplyDocs
  <2>2. DocSound(self[p].doc, site) /\ AtApply(self[p], site)
    BY <2>1 DEF ProbeInv, Asked
  <2>3. /\ docs' \in DocSet /\ docs'.added = docs.added /\ docs.added # 0
        /\ docs.drifted = self[p].doc.drifted
        /\ docs'.base = Lib!First(self[p].doc.base, self[p].src.head)
        /\ docs'.print = Lib!First(self[p].doc.print, self[p].print)
        /\ docs'.drifted =
                       IF self[p].src.head = 0 /\ self[p].print = 0 THEN self[p].doc.drifted
                       ELSE \/ self[p].src.head # 0 /\ self[p].doc.base \notin {0, self[p].src.head}
                            \/ self[p].print # 0 /\ self[p].doc.print \notin {0, self[p].print}
                            \/ /\ self[p].doc.drifted
                               /\ self[p].src.head = 0 \/ (self[p].print = 0 /\ self[p].doc.print # 0)
    BY <1>2, ApplyDocsOutcome, Zenon DEF Lib!Catalogued
  <2>4. PICK x \in DocSet : x = docs'
    BY <2>3
  <2>5. x.added # 0
    BY <2>3, <2>4
  <2>6. DocSound(x, site) /\ (self[p].doc.drifted => x.drifted)
    BY <1>0, <2>1, <2>2, <2>3, <2>4, <2>5, AnswerTold
  <2> QED
    BY <2>3, <2>4, <2>6
<1>3. CASE Lib!Record(p) /\ docs' # docs
  <2>1. self[p].at = "record" /\ docs' = Lib!Published(p)
    BY <1>3 DEF Lib!Record
  <2>2. self[p].slot \in Slots /\ docs.rev # self[p].slot
    BY <2>1 DEF MirrorInv, Claimed, Crawling, Swapping
  <2>3. docs'.rev = self[p].slot /\ ~ docs'.drifted /\ docs'.base = 0 /\ docs'.print = 0
    BY <2>1, <2>2, PublishedFields
  <2> QED
    BY <1>0, <2>2, <2>3 DEF DocSound
<1>4. CASE Lib!RemoveDocs(p)
  <2>1. docs'.rev = 0 /\ ~ docs'.drifted /\ docs'.base = 0 /\ docs'.print = 0
    BY <1>4 DEF Lib!RemoveDocs, Lib!NoDocs
  <2> QED
    BY <1>0, <2>1 DEF DocSound
<1>5. CASE \E r \in Slots : Lib!Adopt(p, r)
  <2>1. PICK r \in Slots : Lib!Adopt(p, r)
    BY <1>5
  <2>2. ~ docs'.drifted /\ docs'.base = 0 /\ docs'.print = 0
    BY <2>1, AdoptedFields DEF Lib!Adopt
  <2>3. ~ docs.drifted
    BY <1>0, <2>1 DEF Lib!Adopt, Lib!Catalogued, DocSound
  <2> QED
    BY <1>0, <2>2, <2>3 DEF DocSound
<1> QED
  <2>1. \/ docs' = docs \/ Lib!ApplyDocs(p) \/ Lib!Record(p) \/ Lib!RemoveDocs(p)
        \/ \E r \in Slots : Lib!Adopt(p, r)
    <3>1. OnMirror(p) \/ docs' = docs
      BY Parted DEF Lib!mirrorVars
    <3>2. Lib!Claim(p) \/ Lib!WritePages(p) \/ Lib!WriteIndex(p) \/ Lib!Displace(p)
          \/ Lib!Swap(p) \/ Lib!Sweep(p)
          \/ Lib!DeleteMirror(p) => docs' = docs
      BY DEF Lib!Claim, Lib!WritePages, Lib!WriteIndex, Lib!Displace, Lib!Swap, Lib!Sweep,
         Lib!DeleteMirror
    <3> QED
      BY <3>1, <3>2 DEF OnMirror
  <2> QED
    BY <1>1, <1>2, <1>3, <1>4, <1>5, <2>1

LEMMA ProbesKept ==
    ASSUME Apart, LibTyped, Locked, MirrorInv, ProbeInv, Lib!Next
    PROVE  ProbeInv'
<1>0. /\ docs \in DocSet /\ DocSound(docs, site) /\ site \in Nat
      /\ \A p \in Proc : self[p] \in CmdSet /\ Asked(self[p], site)
  BY DEF LibTyped, ProbeInv
<1>1. CASE Lib!Move
  <2>1. docs' = docs /\ self' = self
    BY <1>1 DEF Lib!Move, Lib!mirrorVars
  <2>2. PICK v \in Nat : v = site + 1
    BY <1>0
  <2>3. DocSound(docs, v) /\ \A p \in Proc : Asked(self[p], v)
    BY <1>0, <2>2, AskedGrows
  <2>4. site' \in {site, v}
    BY <1>1, <2>2 DEF Lib!Move
  <2>5. CASE site' = site
    BY <1>0, <2>1, <2>5, Zenon DEF ProbeInv
  <2>6. CASE site' = v
    BY <2>1, <2>3, <2>6, Zenon DEF ProbeInv
  <2> QED
    BY <2>4, <2>5, <2>6
<1>2. ASSUME NEW p \in Proc, Lib!Command(p) PROVE ProbeInv'
  <2>1. OthersKeep(p) /\ self' \in [Proc -> CmdSet] /\ site' = site
    BY <1>2, MovesTyped, Parted
  <2>2. DocSound(docs', site)
    BY <1>2, DocStep
  <2>3. Asked(self'[p], site)
    <3>0. PICK d \in CmdSet : d = self'[p]
      BY <2>1
    <3>1. CASE d.at = "inventory"
      <4>1. d.doc = docs
        BY <1>2, <3>0, <3>1, Arrivals, BeginOutcome
      <4> QED
        BY <1>0, <3>0, <3>1, <4>1 DEF Asked
    <3>2. CASE d.at = "page"
      <4>1. Lib!Inventory(p)
        BY <1>2, <3>0, <3>2, Arrivals
      <4>2. d.doc = self[p].doc /\ d.print \in {0, site}
        BY <3>0, <4>1, InventoryOutcome
      <4>3. DocSound(self[p].doc, site)
        BY <1>0, <4>1 DEF Lib!Inventory, Asked
      <4> QED
        BY <1>0, <3>0, <3>2, <4>2, <4>3, PrintTaken
    <3>3. CASE d.at = "apply"
      <4>1. Lib!Page(p)
        BY <1>2, <3>0, <3>3, Arrivals
      <4>2. d.doc = self[p].doc /\ d.print = self[p].print /\ d.src.head \in {0, site}
        BY <3>0, <3>3, <4>1, PageOutcome
      <4>3. DocSound(self[p].doc, site) /\ AtPage(self[p], site)
        BY <1>0, <4>1 DEF Lib!Page, Asked
      <4> QED
        BY <1>0, <3>0, <3>3, <4>2, <4>3, PageTaken
    <3>4. CASE d.at \notin {"inventory", "page", "apply"}
      BY <3>0, <3>4 DEF Asked
    <3> QED
      BY <3>1, <3>2, <3>3, <3>4
  <2>4. \A q \in Proc \ {p} : Asked(self'[q], site)
    BY <1>0, <2>1 DEF OthersKeep
  <2> QED
    BY <2>1, <2>2, <2>3, <2>4 DEF ProbeInv
<1> QED
  BY <1>1, <1>2 DEF Lib!Next

-----------------------------------------------------------------------------
LibInv == LibTyped /\ Locked /\ MirrorInv /\ CloneInv /\ ProbeInv

LEMMA StepTyped ==
    ASSUME Apart, LibInv, Lib!Next
    PROVE  LibTyped'
<1>1. MirrorTyped' /\ CloneTyped' /\ lock' \in Proc \cup {0}
  BY MirrorKept, VersionsKept, LockedKept DEF LibInv
<1>2. site' \in Nat \ {0} /\ remote' \in Nat \ {0}
  <2>1. \/ Lib!Move \/ UNCHANGED <<site, remote>>
    BY Parted DEF Lib!Next
  <2>2. PICK s \in Nat \ {0}, r \in Nat \ {0} : s = site /\ r = remote
    BY DEF LibInv, LibTyped
  <2>3. s + 1 \in Nat \ {0} /\ r + 1 \in Nat \ {0}
    BY <2>2
  <2>4. site' \in {s, s + 1} /\ remote' \in {r, r + 1}
    BY <2>1, <2>2 DEF Lib!Move
  <2> QED
    BY <2>2, <2>3, <2>4
<1>3. /\ self' \in [Proc -> CmdSet]
      /\ \A p \in Proc : self'[p].at = "apply" => self'[p].src.head \in Nat
  <2>1. CASE Lib!Move
    BY <2>1 DEF Lib!Move, LibInv, LibTyped
  <2>2. ASSUME NEW p \in Proc, Lib!Command(p)
        PROVE  /\ self' \in [Proc -> CmdSet]
               /\ \A q \in Proc : self'[q].at = "apply" => self'[q].src.head \in Nat
    <3>1. OthersKeep(p) /\ self' \in [Proc -> CmdSet]
      BY <2>2, MovesTyped DEF LibInv
    <3>2. self'[p].at = "apply" => self'[p].src.head \in Nat
      BY <2>2, Arrivals, PageOutcome DEF LibInv, LibTyped
    <3> QED
      BY <3>1, <3>2 DEF OthersKeep, LibInv, LibTyped
  <2> QED
    BY <2>1, <2>2 DEF Lib!Next
<1> QED
  BY <1>1, <1>2, <1>3 DEF LibTyped, MirrorTyped, CloneTyped

LEMMA LibraryStep == Apart => (LibInv /\ [Lib!Next]_Lib!vars => LibInv')
<1>1. ASSUME Apart, LibInv, Lib!Next PROVE LibInv'
  BY <1>1, StepTyped, LockedKept, MirrorKept, VersionsKept, CleaningKept, ProbesKept
  DEF LibInv, CloneInv
<1>2. ASSUME LibInv, UNCHANGED Lib!vars PROVE LibInv'
  <2>1. UNCHANGED <<docs, src, mirror, aside, stage, tree, site, remote, lock, self, swept>>
    BY <1>2 DEF Lib!vars
  <2>2. LibTyped' /\ Locked'
    BY <1>2, <2>1 DEF LibInv, LibTyped, Locked
  <2>3. MirrorInv'
    BY <1>2, <2>1 DEF LibInv, MirrorInv, Claimed, Crawled, Written, Whole, Lib!RevisionsKept,
       Swapping, Lib!Catalogued
  <2>4. CloneInv'
    BY <1>2, <2>1 DEF LibInv, CloneInv, Versions, Cleaning, Lib!CloneIsThere, Lib!SrcCatalogued,
       SrcSound, AskSound
  <2>5. ProbeInv'
    BY <1>2, <2>1, Zenon DEF LibInv, ProbeInv
  <2> QED
    BY <2>2, <2>3, <2>4, <2>5 DEF LibInv
<1> QED
  BY <1>1, <1>2

LEMMA LibraryInit == Apart /\ Lib!Init => LibInv
<1> SUFFICES ASSUME Apart, Lib!Init PROVE LibInv
  OBVIOUS
<1>0. /\ docs = Lib!NoDocs /\ src = Lib!NoSrc /\ mirror = 0 /\ aside = {} /\ tree = Lib!NoTree
      /\ stage = [r \in Slots |-> [state |-> "absent", by |-> {}]]
      /\ site = 1 /\ remote = 1 /\ lock = 0 /\ swept = FALSE /\ self = [p \in Proc |-> Lib!Idle]
  BY DEF Lib!Init
<1>1. LibTyped
  <2>1. [state |-> "absent", by |-> {}] \in StageSet
    BY DEF StageSet
  <2>2. docs \in DocSet /\ src \in SrcSet /\ tree \in CloneSet
    BY <1>0, LibConstants
  <2>3. stage \in [Slots -> StageSet]
    BY <1>0, <2>1
  <2>4. self \in [Proc -> CmdSet]
    BY <1>0, LibConstants
  <2>5. \A p \in Proc : self[p].at # "apply"
    BY <1>0 DEF Lib!Idle
  <2>6. mirror = 0 /\ aside = {} /\ site = 1 /\ remote = 1 /\ lock = 0 /\ swept = FALSE
    BY <1>0, Zenon
  <2>7. site \in Nat \ {0} /\ remote \in Nat \ {0}
    BY <2>6
  <2>8. mirror \in Slots \cup {0} /\ aside \subseteq Slots /\ lock \in Proc \cup {0}
    BY <2>6
  <2>9. swept \in BOOLEAN
    BY <2>6, Zenon
  <2> QED
    BY <2>2, <2>3, <2>4, <2>5, <2>7, <2>8, <2>9 DEF LibTyped
<1>2. \A p \in Proc : self[p].at = "idle"
  BY <1>0 DEF Lib!Idle
<1>3. Locked
  BY <1>2 DEF Locked, Holding
<1>4. MirrorInv
  <2>1. docs.rev = 0 /\ docs.added = 0
    BY <1>0 DEF Lib!NoDocs
  <2>2. \A r \in Slots : stage[r].state = "absent" /\ stage[r].by = {}
    BY <1>0
  <2> QED
    BY <1>0, <1>2, <2>1, <2>2
    DEF MirrorInv, Claimed, Crawled, Crawling, Whole, Lib!RevisionsKept, Lib!Catalogued, Swapping
<1>5. CloneInv
  <2>1. src.added = 0 /\ src.head = 0 /\ ~ src.drifted /\ tree.head = 0
    BY <1>0 DEF Lib!NoSrc, Lib!NoTree
  <2>2. Versions
    BY <1>0, <1>2, <2>1 DEF Versions, SrcSound
  <2>3. Cleaning
    BY <1>2, <2>1 DEF Cleaning, Cloning, Lib!CloneIsThere, Lib!SrcCatalogued
  <2> QED
    BY <2>2, <2>3 DEF CloneInv
<1>6. ProbeInv
  <2>1. docs.base = 0 /\ docs.print = 0 /\ ~ docs.drifted
    BY <1>0 DEF Lib!NoDocs
  <2> QED
    BY <1>0, <1>2, <2>1 DEF ProbeInv, DocSound, Asked
<1> QED
  BY <1>1, <1>3, <1>4, <1>5, <1>6 DEF LibInv

LEMMA LibraryInvariance == ASSUME Apart PROVE Lib!Spec => []LibInv
<1>1. Lib!Init => LibInv
  BY LibraryInit
<1>2. LibInv /\ [Lib!Next]_Lib!vars => LibInv'
  BY LibraryStep
<1> QED
  BY <1>1, <1>2, PTL DEF Lib!Spec

\* However many commands run at once, and whatever fails, is killed or moves upstream between
\* two of their steps, the revision a catalog entry was written for is on disk, in place or
\* displaced; what is published was written by one crawl, to the end; and a catalogued clone is
\* there unless a clean-up of another command deleted it (ops.py, _commit_publish, _rolled_back
\* and remove; docs_session.py, claim_staging_dir; source.py, add_source and _clone_fresh).
THEOREM LibraryIsWhole == ASSUME Apart PROVE Lib!Spec => []Lib!LibraryHolds
<1>1. LibInv => Lib!LibraryHolds
  <2> SUFFICES ASSUME LibInv PROVE Lib!LibraryHolds
    OBVIOUS
  <2>1. Lib!RevisionsKept
    BY DEF LibInv, MirrorInv, Whole
  <2>2. Lib!OneCrawl
    <3>1. Lib!Catalogued => docs.rev \in Slots
      BY DEF LibInv, LibTyped, DocSet, MirrorInv, Whole, Lib!Catalogued
    <3> QED
      BY <3>1 DEF Lib!OneCrawl, LibInv, MirrorInv, Whole
  <2>3. Lib!CloneIsThere
    BY DEF LibInv, CloneInv, Cleaning
  <2> QED
    BY <2>1, <2>2, <2>3 DEF Lib!LibraryHolds
<1> QED
  BY <1>1, LibraryInvariance, PTL

\* Catalog, mirror, staging, lock and commands keep their types (library/catalog.py; ops.py).
THEOREM LibraryTypeCorrect == ASSUME Apart PROVE Lib!Spec => []Lib!TypeOK
<1>1. LibInv => Lib!TypeOK
  BY DEF LibInv, LibTyped, DocSet, CmdSet, Lib!TypeOK
<1> QED
  BY <1>1, LibraryInvariance, PTL

LEMMA StepRemembersDrift == ASSUME Apart, LibInv, Lib!Next PROVE Lib!DriftIsNotForgotten
<1>1. CASE Lib!Move
  BY <1>1 DEF Lib!Move, Lib!mirrorVars, Lib!DriftIsNotForgotten
<1>2. ASSUME NEW p \in Proc, Lib!Command(p) PROVE Lib!DriftIsNotForgotten
  <2>1. docs.drifted /\ docs'.rev = docs.rev /\ docs'.added = docs.added => docs'.drifted
    BY <1>2, DocStep DEF LibInv
  <2>2. src.drifted /\ src'.head = src.head /\ src'.added = src.added =>
       src'.drifted \/ \E q \in Proc : self[q].at = "catalog" /\ self[q].fresh /\ src' # src
    <3>1. src.drifted => src.added # 0 /\ src.head # remote
      <4>1. src.head \in Int /\ remote \in Nat
        BY DEF LibInv, LibTyped, SrcSet
      <4> QED
        BY <4>1 DEF LibInv, CloneInv, Versions, SrcSound
    <3>2. PICK e \in SrcSet : /\ src' = e
                /\ \/ e = src
                   \/ /\ self[p].at = "catalog"
                      /\ self[p].fresh \/ e.head = remote \/ ~ Lib!SrcCatalogued
                   \/ e.drifted \/ e.head = remote
                   \/ src.drifted => e.drifted
                   \/ e.added = 0
      BY <1>2, SourceStep DEF LibInv
    <3> QED
      BY <3>1, <3>2 DEF Lib!SrcCatalogued
  <2> QED
    BY <2>1, <2>2 DEF Lib!DriftIsNotForgotten
<1> QED
  BY <1>1, <1>2 DEF Lib!Next

\* No late answer of an older probe clears the drift that a later one found: drift goes with the
\* revision or the checkout it was found for (check.py, _apply and _probe_docs; source.py,
\* _refresh_checkout).
THEOREM DriftIsRemembered == ASSUME Apart PROVE Lib!Spec => [][Lib!DriftIsNotForgotten]_Lib!vars
<1>1. LibInv /\ [Lib!Next]_Lib!vars => [Lib!DriftIsNotForgotten]_Lib!vars
  BY StepRemembersDrift
<1> QED
  BY <1>1, LibraryInvariance, PTL DEF Lib!Spec

-----------------------------------------------------------------------------
(* The convergence of a checkout: init and doctor --fix.                   *)

CONSTANTS PerkVersions, Files, Skills, MaxEvents, MaxBefore
VARIABLES have, recorded, config, legacy, skill, fragment, delivered, ext, fixer, tidy, tally

Cvg == INSTANCE Convergence WITH Versions <- PerkVersions, self <- fixer, calm <- tidy, n <- tally

Stages == {"idle", "ext", "files", "look", "seed", "migrate", "skills", "sync", "record",
           "recheck"}
Contents == {Cvg!Absent, Cvg!Edited} \cup (PerkVersions \X (Cvg!Choices \cup {"any"}))
FixerSet == [at : Stages, cmd : {"", "init", "fix"}, v : PerkVersions \cup {0},
             todo : SUBSET Cvg!FileSet, fix : SUBSET {"config", "ext"}, alone : BOOLEAN,
             admitted : Nat, skip : BOOLEAN, failed : BOOLEAN]
Places == Cvg!Choices \cup {"none"}
\* Versions are numbered, 0 stands for an absent file, and the pin is one of the files.
PinFile == PerkVersions \subseteq Nat \ {0} /\ "pin" \in Cvg!FileSet
CvgTyped ==
  /\ have \in [Cvg!FileSet -> Contents] /\ recorded \in [Cvg!FileSet -> Contents]
  /\ config \in Places /\ legacy \in Places
  /\ fragment \subseteq Skills /\ delivered \subseteq Skills /\ ext \in PerkVersions \cup {0}
  /\ skill \in [Skills -> {"none", "good", "bad"}]
  /\ fixer \in [Proc -> FixerSet]
  /\ \A p \in Proc : fixer[p].at # "idle" =>
       /\ fixer[p].v \in PerkVersions /\ fixer[p].cmd # ""
       /\ fixer[p].at = "recheck" => fixer[p].cmd = "fix"
  /\ tidy \in [v : PerkVersions \cup {0}, k : Nat]

\* A command that nobody interfered with is the only one, and found no newer pin.
Undisturbed == \A p \in Proc : fixer[p].at # "idle" /\ fixer[p].alone =>
  /\ \A q \in Proc \ {p} : fixer[q].at = "idle"
  /\ Cvg!Pinned <= fixer[p].v

\* A template is not about to be seeded beside a configuration at its old place.
Seeding == \A p \in Proc :
  fixer[p].at = "seed" /\ ~ fixer[p].skip => config # "none" \/ legacy = "none"

\* What a complete run of doctor --fix leaves, but for the settings.
Migrated == config # "none" /\ (legacy = "none" \/ config # legacy)
SkillsListed == Cvg!Bad = {} => fragment = Cvg!Good
Linked == Cvg!Bad = {} => Cvg!Good \subseteq delivered
Recorded(v) == \A f \in Cvg!FileSet : recorded[f] = Cvg!Desired(f, v)
OnceFixed(v) ==
  /\ v \in PerkVersions /\ Cvg!ManagedFails(v) \subseteq {"settings"} /\ ext = v
  /\ Migrated /\ SkillsListed /\ Linked /\ Recorded(v)
Tidy ==
  /\ tidy.k = 0 <=> tidy.v = 0
  /\ tidy.k # 0 => /\ OnceFixed(tidy.v)
                   /\ \A p \in Proc : fixer[p].at # "idle" =>
                        fixer[p].cmd = "fix" /\ fixer[p].v = tidy.v
  /\ tidy.k >= 2 => Cvg!ManagedFails(tidy.v) = {}

\* How far an undisturbed run has come.
Progress(p) == fixer[p].cmd = "fix" /\ fixer[p].alone /\ ~ fixer[p].failed =>
  LET at == fixer[p].at
      v == fixer[p].v IN
  /\ at = "ext" => "ext" \in fixer[p].fix \/ ext = v
  /\ at \in {"ext", "files"} =>
       /\ Cvg!ManagedFails(v) \subseteq fixer[p].todo
       /\ "config" \in fixer[p].fix <=> config = "none"
  /\ at \notin {"idle", "ext"} => ext = v
  /\ at \in {"look", "seed", "migrate"} => Cvg!ManagedFails(v) = {}
  /\ at \in {"look", "seed"} => config = "none"
  /\ at = "seed" => (fixer[p].skip <=> legacy # "none")
  /\ at = "migrate" => config # "none" \/ legacy # "none"
  /\ at \in {"skills", "sync", "record", "recheck"} =>
       /\ Migrated /\ Cvg!ManagedFails(v) \subseteq {"settings"}
       /\ tidy.k # 0 => Cvg!ManagedFails(v) = {}
  /\ at \in {"sync", "record", "recheck"} => SkillsListed
  /\ at \in {"record", "recheck"} => Linked
  /\ at = "recheck" => Recorded(v)
Converging == \A p \in Proc : Progress(p)

CvgInv == CvgTyped /\ Undisturbed /\ Seeding /\ Tidy /\ Converging

-----------------------------------------------------------------------------
LEMMA PinNumber ==
    ASSUME PinFile, CvgTyped
    PROVE  Cvg!Pinned \in Nat /\ PerkVersions \subseteq Nat \ {0}
<1>1. have["pin"] \in Contents
  BY DEF PinFile, CvgTyped
<1>2. \A x \in Contents : x[1] \in PerkVersions \cup {0}
  BY DEF Contents, Cvg!Absent, Cvg!Edited
<1>3. Cvg!Pinned \in PerkVersions \cup {0}
  BY <1>1, <1>2, Zenon DEF Cvg!Pinned
<1>4. PerkVersions \subseteq Nat \ {0}
  BY Zenon DEF PinFile
<1> QED
  BY <1>3, <1>4

LEMMA DesiredContent ==
    ASSUME PinFile, CvgTyped
    PROVE  \A v \in PerkVersions : \A f \in Cvg!FileSet :
             /\ Cvg!Desired(f, v) \in Contents /\ Cvg!Desired(f, v)[1] = v
             /\ Cvg!Desired(f, v) # Cvg!Absent
<1> SUFFICES ASSUME NEW v \in PerkVersions, NEW f \in Cvg!FileSet
             PROVE  /\ Cvg!Desired(f, v) \in Contents /\ Cvg!Desired(f, v)[1] = v
                    /\ Cvg!Desired(f, v) # Cvg!Absent
  OBVIOUS
<1>1. v # 0
  BY DEF PinFile
<1>2. Cvg!Selected \in Cvg!Choices
  BY DEF Cvg!Selected, CvgTyped, Places, Cvg!Choices
<1>3. PICK c \in Cvg!Choices \cup {"any"} : Cvg!Desired(f, v) = <<v, c>>
  BY <1>2 DEF Cvg!Desired, Cvg!Made
<1> QED
  BY <1>1, <1>3 DEF Contents, Cvg!Absent

\* The steps of a command.
Untouched(p) == \A q \in Proc \ {p} : fixer'[q] = fixer[q]
Steady(p) == /\ fixer'[p].cmd = fixer[p].cmd /\ fixer'[p].v = fixer[p].v
             /\ fixer'[p].fix = fixer[p].fix /\ fixer'[p].alone = fixer[p].alone
LEMMA WentOn ==
    ASSUME fixer \in [Proc -> FixerSet], NEW p \in Proc, NEW at \in Stages, Cvg!Go(p, at)
    PROVE  /\ fixer' \in [Proc -> FixerSet] /\ fixer'[p].at = at /\ Untouched(p) /\ Steady(p)
           /\ fixer'[p].failed = fixer[p].failed /\ fixer'[p].skip = fixer[p].skip
           /\ fixer'[p].todo = fixer[p].todo
<1>1. PICK r : r = [fixer[p] EXCEPT !.at = at]
  OBVIOUS
<1>2. fixer' = [fixer EXCEPT ![p] = r]
  BY <1>1 DEF Cvg!Go
<1>3. /\ r \in FixerSet /\ r.at = at /\ r.cmd = fixer[p].cmd /\ r.v = fixer[p].v
      /\ r.fix = fixer[p].fix /\ r.alone = fixer[p].alone /\ r.failed = fixer[p].failed
      /\ r.skip = fixer[p].skip /\ r.todo = fixer[p].todo
  BY <1>1, ZenonT(60) DEF FixerSet
<1> QED
  BY <1>2, <1>3 DEF Untouched, Steady

LEMMA Ended ==
    ASSUME fixer \in [Proc -> FixerSet], NEW p \in Proc, fixer' = [fixer EXCEPT ![p] = Cvg!Idle]
    PROVE  /\ fixer' \in [Proc -> FixerSet] /\ Untouched(p)
           /\ fixer'[p].at = "idle" /\ fixer'[p].cmd = ""
<1>1. Cvg!Idle \in FixerSet /\ Cvg!Idle.at = "idle" /\ Cvg!Idle.cmd = ""
  BY DEF Cvg!Idle, FixerSet, Stages
<1> QED
  BY <1>1 DEF Untouched

\* What is shown of a step that leaves the record of undisturbed runs alone.
LEMMA StepKept ==
    ASSUME PinFile, CvgInv, CvgTyped', NEW p \in Proc, fixer[p].at # "idle",
           Untouched(p), fixer'[p].at = "idle" \/ Steady(p), tidy' = tidy,
           Cvg!Pinned' = Cvg!Pinned \/ Cvg!Pinned' = fixer[p].v,
           fixer'[p].at = "seed" /\ ~ fixer'[p].skip => (config # "none" \/ legacy = "none")',
           config # "none" \/ legacy = "none" => (config # "none" \/ legacy = "none")',
           tidy.k # 0 /\ fixer[p].cmd = "fix" /\ fixer[p].v = tidy.v => OnceFixed(tidy.v)',
           tidy.k >= 2 /\ fixer[p].cmd = "fix" /\ fixer[p].v = tidy.v
             => Cvg!ManagedFails(tidy.v)' = {},
           Progress(p)'
    PROVE  CvgInv'
<1>1. \A q \in Proc \ {p} : fixer[q].at = "idle" \/ ~ fixer[q].alone
  BY DEF CvgInv, Undisturbed
<1>2. Undisturbed'
  <2>1. ASSUME fixer'[p].at # "idle", fixer'[p].alone
        PROVE  (\A q \in Proc \ {p} : fixer'[q].at = "idle") /\ Cvg!Pinned' <= fixer'[p].v
    <3>1. Steady(p) /\ fixer[p].alone
      BY <2>1 DEF Steady
    <3>2. (\A q \in Proc \ {p} : fixer[q].at = "idle") /\ Cvg!Pinned <= fixer[p].v
      BY <3>1 DEF CvgInv, Undisturbed
    <3>3. fixer[p].v \in Nat
      BY PinNumber DEF CvgInv, CvgTyped
    <3> QED
      BY <3>1, <3>2, <3>3 DEF Untouched, Steady
  <2> QED
    BY <1>1, <2>1 DEF Undisturbed, Untouched
<1>3. Seeding'
  BY DEF CvgInv, Seeding, Untouched
<1>4. Converging'
  <2>1. ASSUME NEW q \in Proc \ {p} PROVE Progress(q)'
    <3>1. fixer'[q] = fixer[q]
      BY DEF Untouched
    <3>2. fixer'[q].alone => fixer'[q].at = "idle"
      BY <1>1, <3>1
    <3> QED
      BY <3>2 DEF Progress
  <2> QED
    BY <2>1 DEF Converging
<1>5. Tidy'
  <2>1. tidy.k # 0 => fixer[p].cmd = "fix" /\ fixer[p].v = tidy.v
    BY DEF CvgInv, Tidy
  <2>2. \A q \in Proc : tidy.k # 0 /\ fixer'[q].at # "idle" =>
          fixer'[q].cmd = "fix" /\ fixer'[q].v = tidy.v
    BY <2>1 DEF CvgInv, Tidy, Untouched, Steady
  <2>3. tidy.k \in Nat
    BY DEF CvgInv, CvgTyped
  <2>4. tidy.k # 0 => OnceFixed(tidy.v)'
    BY <2>1
  <2>5. tidy.k >= 2 => tidy.k # 0
    BY <2>3
  <2>6. tidy.k >= 2 => Cvg!ManagedFails(tidy.v)' = {}
    BY <2>1, <2>5
  <2>7. tidy.k = 0 <=> tidy.v = 0
    BY DEF CvgInv, Tidy
  <2> QED
    BY <2>2, <2>4, <2>6, <2>7 DEF Tidy
<1> QED
  BY <1>2, <1>3, <1>4, <1>5 DEF CvgInv

\* What depends on the files and the configuration stays with them.
LEMMA Unmoved ==
    ASSUME UNCHANGED <<have, config, legacy>>
    PROVE  /\ \A f, v : Cvg!Desired(f, v)' = Cvg!Desired(f, v)
           /\ \A v : Cvg!ManagedFails(v)' = Cvg!ManagedFails(v)
           /\ recorded' = recorded => \A v : Recorded(v)' = Recorded(v)
           /\ Migrated' = Migrated /\ Cvg!Pinned' = Cvg!Pinned
           /\ skill' = skill => Cvg!Bad' = Cvg!Bad /\ Cvg!Good' = Cvg!Good
           /\ skill' = skill /\ fragment' = fragment => SkillsListed' = SkillsListed
           /\ skill' = skill /\ delivered' = delivered => Linked' = Linked
  BY DEF Cvg!Desired, Cvg!Made, Cvg!Selected, Cvg!ManagedFails, Recorded, Migrated, SkillsListed,
     Linked, Cvg!Bad, Cvg!Good, Cvg!Pinned

LEMMA CalmStays ==
    ASSUME CvgInv, UNCHANGED <<have, recorded, tidy>>, UNCHANGED Cvg!local
    PROVE  /\ tidy.k # 0 => OnceFixed(tidy.v)'
           /\ tidy.k >= 2 => Cvg!ManagedFails(tidy.v)' = {}
<1>1. \A v : Cvg!ManagedFails(v)' = Cvg!ManagedFails(v) /\ OnceFixed(v)' = OnceFixed(v)
  BY Unmoved DEF Cvg!local, OnceFixed
<1> QED
  BY <1>1 DEF CvgInv, Tidy

LEMMA LookKept ==
    ASSUME PinFile, CvgInv, NEW p \in Proc, Cvg!LookConfig(p)
    PROVE  CvgInv'
<1> DEFINE skips == config = "none" /\ legacy # "none"
<1>1. PICK r : r = [fixer[p] EXCEPT !.at = "seed", !.skip = skips]
  OBVIOUS
<1>2. fixer' = [fixer EXCEPT ![p] = r]
  BY <1>1 DEF Cvg!LookConfig
<1>3. fixer[p] \in FixerSet /\ skips \in BOOLEAN
  BY DEF CvgInv, CvgTyped
<1>4. /\ r \in FixerSet /\ r.at = "seed" /\ r.cmd = fixer[p].cmd /\ r.v = fixer[p].v
      /\ r.fix = fixer[p].fix /\ r.alone = fixer[p].alone /\ r.failed = fixer[p].failed
      /\ r.skip = skips
  BY <1>1, <1>3 DEF FixerSet, Stages
<1>5. /\ fixer' \in [Proc -> FixerSet] /\ fixer'[p] = r /\ Untouched(p) /\ Steady(p)
  BY <1>2, <1>4 DEF CvgInv, CvgTyped, Untouched, Steady
<1>6. fixer[p].at = "look" /\ UNCHANGED <<have, recorded, tidy>> /\ UNCHANGED Cvg!local
  BY DEF Cvg!LookConfig
<1>7. CvgTyped'
  BY <1>5, <1>6, <1>4, ZenonT(60) DEF CvgInv, CvgTyped, Cvg!local, Untouched
<1>8. Progress(p)'
  <2>1. Progress(p)
    BY DEF CvgInv, Converging
  <2>2. Cvg!ManagedFails(fixer[p].v)' = Cvg!ManagedFails(fixer[p].v)
    BY <1>4, <1>5, <1>6, Unmoved DEF Cvg!local
  <2> QED
    BY <1>4, <1>5, <1>6, <2>1, <2>2 DEF Progress, Cvg!local
<1>9. (tidy.k # 0 => OnceFixed(tidy.v)') /\ (tidy.k >= 2 => Cvg!ManagedFails(tidy.v)' = {})
  BY <1>6, CalmStays
<1>11. /\ Cvg!Pinned' = Cvg!Pinned
       /\ config # "none" \/ legacy = "none" => (config # "none" \/ legacy = "none")'
  BY <1>6 DEF Cvg!Pinned, Cvg!local
<1>12. fixer'[p].at = "seed" /\ ~ fixer'[p].skip => (config # "none" \/ legacy = "none")'
  BY <1>4, <1>5, <1>6 DEF Cvg!local
<1> HIDE DEF skips
<1> QED
  BY <1>5, <1>6, <1>7, <1>8, <1>9, <1>11, <1>12, StepKept, Zenon

\* The next file, or on to the configuration.
LEMMA ConvergeKept ==
    ASSUME PinFile, CvgInv, NEW p \in Proc, Cvg!Converge(p)
    PROVE  CvgInv'
<1>0. /\ fixer[p].at = "files" /\ UNCHANGED <<recorded, tidy>> /\ UNCHANGED Cvg!local
      /\ fixer \in [Proc -> FixerSet] /\ fixer[p] \in FixerSet /\ fixer[p].v \in PerkVersions
  BY DEF Cvg!Converge, CvgInv, CvgTyped
<1>1. Progress(p)
  BY DEF CvgInv, Converging
<1>2. CASE fixer[p].todo = {}
  <2>1. PICK at \in {"look", "migrate"} :
          /\ Cvg!Go(p, at) /\ (at = "look" <=> "config" \in fixer[p].fix)
    BY <1>2 DEF Cvg!Converge
  <2>2. have' = have
    BY <1>2 DEF Cvg!Converge
  <2>3. /\ fixer' \in [Proc -> FixerSet] /\ fixer'[p].at = at /\ Untouched(p) /\ Steady(p)
        /\ fixer'[p].failed = fixer[p].failed
    BY <1>0, <2>1, WentOn DEF Stages
  <2>4. CvgTyped'
    BY <1>0, <2>2, <2>3, ZenonT(60) DEF CvgInv, CvgTyped, Cvg!local, Untouched, Steady
  <2>5. Progress(p)'
    <3>1. Cvg!ManagedFails(fixer[p].v)' = Cvg!ManagedFails(fixer[p].v)
      BY <1>0, <2>2, <2>3, Unmoved DEF Cvg!local, Steady
    <3> QED
      BY <1>0, <1>1, <1>2, <2>1, <2>2, <2>3, <3>1 DEF Progress, Cvg!local, Steady
  <2>6. (tidy.k # 0 => OnceFixed(tidy.v)') /\ (tidy.k >= 2 => Cvg!ManagedFails(tidy.v)' = {})
    BY <1>0, <2>2, CalmStays
  <2>8. Cvg!Pinned' = Cvg!Pinned /\ config' = config /\ legacy' = legacy /\ fixer'[p].at # "seed"
    BY <1>0, <2>2, <2>3 DEF Cvg!Pinned, Cvg!local
  <2> QED
    BY <1>0, <2>3, <2>4, <2>5, <2>6, <2>8, StepKept
<1>3. CASE fixer[p].todo # {}
  <2>1. PICK f \in fixer[p].todo : /\ have' = [have EXCEPT ![f] = Cvg!Desired(f, fixer[p].v)]
                                   /\ fixer' = [fixer EXCEPT ![p].todo = @ \ {f}]
    <3>1. PICK i \in DOMAIN Files :
            /\ Files[i] \in fixer[p].todo
            /\ have' = [have EXCEPT ![Files[i]] = Cvg!Desired(Files[i], fixer[p].v)]
            /\ fixer' = [fixer EXCEPT ![p].todo = @ \ {Files[i]}]
      BY <1>3 DEF Cvg!Converge
    <3> QED
      BY <3>1
  <2>f. f \in Cvg!FileSet
    BY <1>0, <2>1 DEF FixerSet
  <2>2. PICK r : r = [fixer[p] EXCEPT !.todo = fixer[p].todo \ {f}]
    OBVIOUS
  <2>3. /\ r \in FixerSet /\ r.at = "files" /\ r.cmd = fixer[p].cmd /\ r.v = fixer[p].v
        /\ r.fix = fixer[p].fix /\ r.alone = fixer[p].alone /\ r.failed = fixer[p].failed
        /\ r.todo = fixer[p].todo \ {f}
    BY <1>0, <2>2 DEF FixerSet
  <2>4. fixer' \in [Proc -> FixerSet] /\ fixer'[p] = r /\ Untouched(p) /\ Steady(p)
    BY <1>0, <2>1, <2>2, <2>3 DEF Untouched, Steady
  <2>5. Cvg!Desired(f, fixer[p].v) \in Contents /\ Cvg!Desired(f, fixer[p].v)[1] = fixer[p].v
    BY <1>0, <2>f, DesiredContent DEF CvgInv
  <2>6. /\ have' \in [Cvg!FileSet -> Contents] /\ have'[f] = Cvg!Desired(f, fixer[p].v)
        /\ \A g \in Cvg!FileSet \ {f} : have'[g] = have[g]
    BY <2>1, <2>5, <2>f DEF CvgInv, CvgTyped
  <2>7. CvgTyped'
    BY <1>0, <2>3, <2>4, <2>6, ZenonT(60) DEF CvgInv, CvgTyped, Cvg!local, Untouched
  <2>8. Cvg!ManagedFails(fixer[p].v)' = Cvg!ManagedFails(fixer[p].v) \ {f}
    BY <2>3, <2>4, <2>6, <2>f, <1>0
    DEF Cvg!ManagedFails, Cvg!Desired, Cvg!Made, Cvg!Selected, Cvg!local
  <2>9. Progress(p)'
    BY <1>0, <1>1, <2>3, <2>4, <2>8 DEF Progress, Cvg!local
  <2>10. ASSUME fixer[p].v = tidy.v
         PROVE  Cvg!ManagedFails(tidy.v)' \subseteq Cvg!ManagedFails(tidy.v)
    BY <2>8, <2>10, <2>3, <2>4, <1>0 DEF Cvg!ManagedFails
  <2>11. tidy.k # 0 /\ fixer[p].v = tidy.v => OnceFixed(tidy.v)'
    <3>1. tidy.k # 0 => OnceFixed(tidy.v)
      BY DEF CvgInv, Tidy
    <3>2. Recorded(tidy.v) => Recorded(tidy.v)'
      BY <1>0 DEF Recorded, Cvg!Desired, Cvg!Made, Cvg!Selected, Cvg!local
    <3>3. Migrated' = Migrated /\ SkillsListed' = SkillsListed /\ Linked' = Linked /\ ext' = ext
      BY <1>0 DEF Migrated, SkillsListed, Linked, Cvg!local, Cvg!Bad, Cvg!Good
    <3> QED
      BY <1>0, <2>10, <3>1, <3>2, <3>3 DEF OnceFixed
  <2>12. tidy.k >= 2 /\ fixer[p].v = tidy.v => Cvg!ManagedFails(tidy.v)' = {}
    BY <2>10 DEF CvgInv, Tidy
  <2>13. Cvg!Pinned' = Cvg!Pinned \/ Cvg!Pinned' = fixer[p].v
    BY <2>5, <2>6 DEF Cvg!Pinned, PinFile
  <2>14. config' = config /\ legacy' = legacy /\ fixer'[p].at # "seed"
    BY <1>0, <2>3, <2>4 DEF Cvg!local
  <2> QED
    BY <1>0, <2>4, <2>7, <2>9, <2>11, <2>12, <2>13, <2>14, StepKept
<1> QED
  BY <1>2, <1>3

LEMMA SeedKept ==
    ASSUME PinFile, CvgInv, NEW p \in Proc, Cvg!SeedConfig(p)
    PROVE  CvgInv'
<1>0. /\ fixer[p].at = "seed"
      /\ UNCHANGED <<have, recorded, legacy, skill, fragment, delivered, ext, tidy>>
      /\ fixer \in [Proc -> FixerSet] /\ fixer[p].v \in PerkVersions /\ Progress(p)
      /\ config' = IF ~ fixer[p].skip /\ config = "none" THEN "default" ELSE config
  BY DEF Cvg!SeedConfig, CvgInv, CvgTyped, Converging
<1>1. PICK at \in {"record", "migrate"} :
        Cvg!Go(p, at) /\ (at = "migrate" <=> fixer[p].cmd # "init")
  BY DEF Cvg!SeedConfig
<1>2. /\ fixer' \in [Proc -> FixerSet] /\ fixer'[p].at = at /\ Untouched(p) /\ Steady(p)
      /\ fixer'[p].failed = fixer[p].failed
  BY <1>0, <1>1, WentOn DEF Stages
<1>3. CvgTyped'
  BY <1>0, <1>1, <1>2, ZenonT(60) DEF CvgInv, CvgTyped, Untouched, Steady, Places, Cvg!Choices
<1>4. Cvg!Selected' = Cvg!Selected /\ (config # "none" => config' = config)
  BY <1>0 DEF Cvg!Selected
<1>5. /\ \A f, v : Cvg!Desired(f, v)' = Cvg!Desired(f, v)
      /\ \A v : Cvg!ManagedFails(v)' = Cvg!ManagedFails(v)
      /\ \A v : Recorded(v)' = Recorded(v)
  BY <1>0, <1>4 DEF Cvg!Desired, Cvg!Made, Cvg!ManagedFails, Recorded
<1>6. Progress(p)'
  BY <1>0, <1>1, <1>2, <1>5 DEF Progress, Steady
<1>7. tidy.k # 0 => OnceFixed(tidy.v)'
  <2>1. tidy.k # 0 => OnceFixed(tidy.v)
    BY DEF CvgInv, Tidy
  <2>2. Migrated => Migrated'
    BY <1>0, <1>4 DEF Migrated
  <2>3. SkillsListed' = SkillsListed /\ Linked' = Linked
    BY <1>0 DEF SkillsListed, Linked, Cvg!Bad, Cvg!Good
  <2> QED
    BY <1>0, <1>5, <2>1, <2>2, <2>3 DEF OnceFixed
<1>8. tidy.k >= 2 => Cvg!ManagedFails(tidy.v)' = {}
  BY <1>0, <1>5 DEF CvgInv, Tidy
<1>9. Cvg!Pinned' = Cvg!Pinned /\ tidy' = tidy
  BY <1>0 DEF Cvg!Pinned
<1>10. config # "none" \/ legacy = "none" => (config # "none" \/ legacy = "none")'
  BY <1>0, <1>4
<1> QED
  BY <1>0, <1>2, <1>3, <1>6, <1>7, <1>8, <1>9, <1>10, StepKept

LEMMA MigrateKept ==
    ASSUME PinFile, CvgInv, NEW p \in Proc, Cvg!Migrate(p)
    PROVE  CvgInv'
<1>0. /\ fixer[p].at = "migrate" /\ Cvg!Go(p, "skills")
      /\ UNCHANGED <<have, recorded, skill, fragment, delivered, ext, tidy>>
      /\ fixer \in [Proc -> FixerSet] /\ fixer[p].v \in PerkVersions /\ Progress(p)
      /\ config \in Places /\ legacy \in Places
  BY DEF Cvg!Migrate, CvgInv, CvgTyped, Converging
<1>1. /\ fixer' \in [Proc -> FixerSet] /\ fixer'[p].at = "skills" /\ Untouched(p) /\ Steady(p)
      /\ fixer'[p].failed = fixer[p].failed
  BY <1>0, WentOn DEF Stages
<1>2. \/ /\ config' = config /\ legacy' = legacy
         /\ legacy = "none" \/ (config # "none" /\ config # legacy)
      \/ /\ config' = legacy /\ legacy' = "none"
         /\ legacy # "none" /\ (config = "none" \/ config = legacy)
  BY DEF Cvg!Migrate
<1>3. CvgTyped'
  BY <1>0, <1>1, <1>2, ZenonT(60) DEF CvgInv, CvgTyped, Untouched, Steady, Places
<1>4. SkillsListed' = SkillsListed /\ Linked' = Linked /\ Cvg!Pinned' = Cvg!Pinned
  BY <1>0 DEF SkillsListed, Linked, Cvg!Bad, Cvg!Good, Cvg!Pinned
<1>5. Migrated => config' = config /\ legacy' = legacy
  BY <1>2 DEF Migrated
<1>6. config' = config => /\ \A v : Cvg!ManagedFails(v)' = Cvg!ManagedFails(v)
                          /\ \A v : Recorded(v)' = Recorded(v)
  BY <1>0 DEF Cvg!ManagedFails, Recorded, Cvg!Desired, Cvg!Made, Cvg!Selected
<1>7. \A v : Cvg!ManagedFails(v)' \subseteq Cvg!ManagedFails(v) \cup {"settings"}
  BY <1>0 DEF Cvg!ManagedFails, Cvg!Desired, Cvg!Made
<1>8. tidy.k # 0 => /\ OnceFixed(tidy.v) /\ OnceFixed(tidy.v)'
                    /\ Cvg!ManagedFails(tidy.v)' = Cvg!ManagedFails(tidy.v) /\ config' = config
  <2>1. tidy.k # 0 => OnceFixed(tidy.v)
    BY DEF CvgInv, Tidy
  <2>2. OnceFixed(tidy.v) => config' = config /\ legacy' = legacy
    BY <1>5 DEF OnceFixed
  <2>3. config' = config /\ legacy' = legacy => Migrated' = Migrated
    BY DEF Migrated
  <2> QED
    BY <1>0, <1>4, <1>6, <2>1, <2>2, <2>3 DEF OnceFixed
<1>9. Progress(p)'
  <2> SUFFICES ASSUME fixer[p].cmd = "fix", fixer[p].alone, ~ fixer[p].failed
               PROVE  /\ ext = fixer[p].v /\ Migrated'
                      /\ Cvg!ManagedFails(fixer[p].v)' \subseteq {"settings"}
                      /\ tidy.k # 0 => Cvg!ManagedFails(fixer[p].v)' = {}
    BY <1>0, <1>1 DEF Progress, Steady
  <2>1. /\ ext = fixer[p].v /\ Cvg!ManagedFails(fixer[p].v) = {}
        /\ config # "none" \/ legacy # "none"
    BY <1>0 DEF Progress
  <2>2. Migrated'
    BY <1>2, <2>1 DEF Migrated
  <2>3. PICK w : w = fixer[p].v
    OBVIOUS
  <2>4. Cvg!ManagedFails(w)' \subseteq {"settings"} /\ (tidy.k # 0 => Cvg!ManagedFails(w)' = {})
    BY <1>6, <1>7, <1>8, <2>1, <2>3
  <2> QED
    BY <1>1, <2>1, <2>2, <2>3, <2>4 DEF Steady
<1>10. tidy.k >= 2 => Cvg!ManagedFails(tidy.v)' = {}
  <2>1. tidy.k \in Nat
    BY DEF CvgInv, CvgTyped
  <2>2. tidy.k >= 2 => tidy.k # 0 /\ Cvg!ManagedFails(tidy.v) = {}
    BY <2>1 DEF CvgInv, Tidy
  <2> QED
    BY <1>0, <1>8, <2>2, Zenon
<1>11. config # "none" \/ legacy = "none" => (config # "none" \/ legacy = "none")'
  BY <1>2
<1> QED
  BY <1>0, <1>1, <1>3, <1>4, <1>8, <1>9, <1>10, <1>11, StepKept

LEMMA RecordKept ==
    ASSUME PinFile, CvgInv, NEW p \in Proc, Cvg!Record(p)
    PROVE  CvgInv'
<1>0. /\ fixer[p].at = "record" /\ UNCHANGED <<have, tidy>> /\ UNCHANGED Cvg!local
      /\ recorded' = [f \in Cvg!FileSet |-> Cvg!Desired(f, fixer[p].v)]
      /\ fixer \in [Proc -> FixerSet] /\ fixer[p].v \in PerkVersions /\ Progress(p)
      /\ fixer[p].cmd \in {"init", "fix"}
  BY DEF Cvg!Record, CvgInv, CvgTyped, Converging, FixerSet
<1>1. PICK at \in {"skills", "recheck"} :
        Cvg!Go(p, at) /\ (at = "skills" <=> fixer[p].cmd = "init")
  BY DEF Cvg!Record
<1>2. /\ fixer' \in [Proc -> FixerSet] /\ fixer'[p].at = at /\ Untouched(p) /\ Steady(p)
      /\ fixer'[p].failed = fixer[p].failed
  BY <1>0, <1>1, WentOn DEF Stages
<1>3. /\ \A f, v : Cvg!Desired(f, v)' = Cvg!Desired(f, v)
      /\ \A v : Cvg!ManagedFails(v)' = Cvg!ManagedFails(v)
      /\ Migrated' = Migrated /\ SkillsListed' = SkillsListed /\ Linked' = Linked
      /\ Cvg!Pinned' = Cvg!Pinned
  BY <1>0, Unmoved DEF Cvg!local
<1>4. Recorded(fixer[p].v)'
  BY <1>0, <1>2, <1>3 DEF Recorded, Steady
<1>5. recorded' \in [Cvg!FileSet -> Contents]
  BY <1>0, DesiredContent DEF CvgInv
<1>6. CvgTyped'
  BY <1>0, <1>1, <1>2, <1>5, ZenonT(60) DEF CvgInv, CvgTyped, Cvg!local, Untouched, Steady
<1>7. Progress(p)'
  BY <1>0, <1>1, <1>2, <1>3, <1>4 DEF Progress, Steady, Cvg!local
<1>8. tidy.k # 0 /\ fixer[p].v = tidy.v => OnceFixed(tidy.v)'
  BY <1>0, <1>2, <1>3, <1>4 DEF CvgInv, Tidy, OnceFixed, Cvg!local, Steady
<1>9. tidy.k >= 2 => Cvg!ManagedFails(tidy.v)' = {}
  BY <1>0, <1>3 DEF CvgInv, Tidy
<1>10. config' = config /\ legacy' = legacy /\ fixer'[p].at # "seed"
  BY <1>0, <1>2 DEF Cvg!local
<1> QED
  BY <1>0, <1>2, <1>3, <1>6, <1>7, <1>8, <1>9, <1>10, StepKept

LEMMA SkillsKept ==
    ASSUME PinFile, CvgInv, NEW p \in Proc, Cvg!ConvergeSkills(p)
    PROVE  CvgInv'
<1>0. /\ fixer[p].at = "skills"
      /\ UNCHANGED <<have, recorded, config, legacy, skill, delivered, ext, tidy>>
      /\ fixer \in [Proc -> FixerSet] /\ fixer[p] \in FixerSet /\ fixer[p].v \in PerkVersions
      /\ Progress(p)
  BY DEF Cvg!ConvergeSkills, CvgInv, CvgTyped, Converging
<1>1. PICK resolved \in BOOLEAN :
        /\ fragment' = IF resolved THEN Cvg!FragmentWanted ELSE fragment
        /\ fixer' = [fixer EXCEPT ![p].at = "sync", ![p].failed = @ \/ ~resolved]
  BY DEF Cvg!ConvergeSkills
<1>2. PICK r : r = [fixer[p] EXCEPT !.at = "sync", !.failed = fixer[p].failed \/ ~resolved]
  OBVIOUS
<1>f. (fixer[p].failed \/ ~resolved) \in BOOLEAN
  OBVIOUS
<1>3. /\ r \in FixerSet /\ r.at = "sync" /\ r.cmd = fixer[p].cmd /\ r.v = fixer[p].v
      /\ r.fix = fixer[p].fix /\ r.alone = fixer[p].alone
      /\ r.failed = (fixer[p].failed \/ ~resolved)
  BY <1>0, <1>2, <1>f DEF FixerSet, Stages
<1>4. fixer' = [fixer EXCEPT ![p] = r]
  BY <1>1, <1>2
<1>5. fixer' \in [Proc -> FixerSet] /\ fixer'[p] = r /\ Untouched(p) /\ Steady(p)
  BY <1>0, <1>3, <1>4 DEF Untouched, Steady
<1>6. /\ \A f, v : Cvg!Desired(f, v)' = Cvg!Desired(f, v)
      /\ \A v : Cvg!ManagedFails(v)' = Cvg!ManagedFails(v) /\ Recorded(v)' = Recorded(v)
      /\ Migrated' = Migrated /\ Linked' = Linked /\ Cvg!Pinned' = Cvg!Pinned
      /\ Cvg!Bad' = Cvg!Bad /\ Cvg!Good' = Cvg!Good
  BY <1>0, Unmoved DEF Cvg!local
<1>7. fragment' \subseteq Skills /\ (SkillsListed => SkillsListed') /\ (resolved => SkillsListed')
  BY <1>1, <1>6 DEF SkillsListed, Cvg!FragmentWanted, CvgInv, CvgTyped, Cvg!Good
<1>8. CvgTyped'
  BY <1>0, <1>3, <1>5, <1>7, ZenonT(60) DEF CvgInv, CvgTyped, Untouched
<1>9. Progress(p)'
  BY <1>0, <1>3, <1>5, <1>6, <1>7 DEF Progress
<1>10. tidy.k # 0 => OnceFixed(tidy.v)'
  BY <1>0, <1>6, <1>7 DEF CvgInv, Tidy, OnceFixed
<1>11. tidy.k >= 2 => Cvg!ManagedFails(tidy.v)' = {}
  BY <1>0, <1>6 DEF CvgInv, Tidy
<1> QED
  BY <1>0, <1>3, <1>5, <1>6, <1>8, <1>9, <1>10, <1>11, StepKept

LEMMA SyncKept ==
    ASSUME PinFile, CvgInv, NEW p \in Proc, Cvg!SyncSkills(p)
    PROVE  CvgInv'
<1>0. /\ fixer[p].at = "sync"
      /\ UNCHANGED <<have, recorded, config, legacy, skill, fragment, ext, tidy>>
      /\ fixer \in [Proc -> FixerSet] /\ fixer[p] \in FixerSet /\ fixer[p].v \in PerkVersions
      /\ Progress(p)
  BY DEF Cvg!SyncSkills, CvgInv, CvgTyped, Converging
<1>1. /\ \A f, v : Cvg!Desired(f, v)' = Cvg!Desired(f, v)
      /\ \A v : Cvg!ManagedFails(v)' = Cvg!ManagedFails(v) /\ Recorded(v)' = Recorded(v)
      /\ Migrated' = Migrated /\ SkillsListed' = SkillsListed /\ Cvg!Pinned' = Cvg!Pinned
      /\ Cvg!Bad' = Cvg!Bad /\ Cvg!Good' = Cvg!Good
  BY <1>0, Unmoved DEF Cvg!local
<1>2. /\ delivered' \subseteq Skills
      /\ SkillsListed /\ (Linked \/ delivered' = fragment) => Linked'
  BY <1>0, <1>1 DEF Cvg!SyncSkills, CvgInv, CvgTyped, SkillsListed, Linked
<1>3. tidy.k # 0 => OnceFixed(tidy.v)'
  BY <1>0, <1>1, <1>2 DEF CvgInv, Tidy, OnceFixed
<1>4. tidy.k >= 2 => Cvg!ManagedFails(tidy.v)' = {}
  BY <1>0, <1>1 DEF CvgInv, Tidy
<1>5. CASE fixer[p].cmd # "init" /\ delivered' = fragment /\ Cvg!Go(p, "record")
  <2>1. /\ fixer' \in [Proc -> FixerSet] /\ fixer'[p].at = "record" /\ Untouched(p) /\ Steady(p)
        /\ fixer'[p].failed = fixer[p].failed
    BY <1>0, <1>5, WentOn DEF Stages
  <2>2. CvgTyped'
    BY <1>0, <1>2, <2>1, ZenonT(60) DEF CvgInv, CvgTyped, Untouched, Steady
  <2>3. Progress(p)'
    BY <1>0, <1>1, <1>2, <1>5, <2>1 DEF Progress, Steady
  <2> QED
    BY <1>0, <1>1, <1>3, <1>4, <2>1, <2>2, <2>3, StepKept
<1>6. CASE fixer[p].cmd = "init" /\ delivered' = fragment /\ Cvg!Go(p, "ext")
  <2>1. /\ fixer' \in [Proc -> FixerSet] /\ fixer'[p].at = "ext" /\ Untouched(p) /\ Steady(p)
    BY <1>0, <1>6, WentOn DEF Stages
  <2>2. CvgTyped'
    BY <1>0, <1>2, <2>1, ZenonT(60) DEF CvgInv, CvgTyped, Untouched, Steady
  <2>3. Progress(p)'
    BY <1>6, <2>1 DEF Progress, Steady
  <2> QED
    BY <1>0, <1>1, <1>3, <1>4, <2>1, <2>2, <2>3, StepKept
<1>7. CASE fixer' = [fixer EXCEPT ![p] = Cvg!Idle]
  <2>1. /\ fixer' \in [Proc -> FixerSet] /\ Untouched(p)
        /\ fixer'[p].at = "idle" /\ fixer'[p].cmd = ""
    BY <1>0, <1>7, Ended
  <2>2. CvgTyped'
    BY <1>0, <1>2, <2>1 DEF CvgInv, CvgTyped, Untouched
  <2>3. Progress(p)'
    BY <2>1 DEF Progress
  <2> QED
    BY <1>0, <1>1, <1>3, <1>4, <2>1, <2>2, <2>3, StepKept
<1>8. CASE fixer' = [fixer EXCEPT ![p].at = "record", ![p].failed = TRUE]
  <2>1. PICK r : r = [fixer[p] EXCEPT !.at = "record", !.failed = TRUE]
    OBVIOUS
  <2>2. /\ r \in FixerSet /\ r.at = "record" /\ r.cmd = fixer[p].cmd /\ r.v = fixer[p].v
        /\ r.fix = fixer[p].fix /\ r.alone = fixer[p].alone /\ r.failed
    BY <1>0, <2>1 DEF FixerSet, Stages
  <2>3. fixer' = [fixer EXCEPT ![p] = r]
    BY <1>8, <2>1
  <2>4. fixer' \in [Proc -> FixerSet] /\ fixer'[p] = r /\ Untouched(p) /\ Steady(p)
    BY <1>0, <2>2, <2>3 DEF Untouched, Steady
  <2>5. CvgTyped'
    BY <1>0, <1>2, <2>2, <2>4, ZenonT(60) DEF CvgInv, CvgTyped, Untouched
  <2>6. Progress(p)'
    BY <2>2, <2>4 DEF Progress
  <2> QED
    BY <1>0, <1>1, <1>3, <1>4, <2>2, <2>4, <2>5, <2>6, StepKept
<1> QED
  BY <1>5, <1>6, <1>7, <1>8 DEF Cvg!SyncSkills

LEMMA InstallKept ==
    ASSUME PinFile, CvgInv, NEW p \in Proc, Cvg!InstallExtension(p)
    PROVE  CvgInv'
<1>0. /\ fixer[p].at = "ext"
      /\ UNCHANGED <<have, recorded, config, legacy, skill, fragment, delivered, tidy>>
      /\ fixer \in [Proc -> FixerSet] /\ fixer[p] \in FixerSet /\ fixer[p].v \in PerkVersions
      /\ Progress(p)
  BY DEF Cvg!InstallExtension, CvgInv, CvgTyped, Converging
<1>1. PICK works \in BOOLEAN :
        /\ "ext" \notin fixer[p].fix => works
        /\ ext' = IF works /\ "ext" \in fixer[p].fix THEN fixer[p].v ELSE ext
        /\ IF fixer[p].cmd = "init" THEN fixer' = [fixer EXCEPT ![p] = Cvg!Idle]
           ELSE fixer' = [fixer EXCEPT ![p].at = "files", ![p].failed = @ \/ ~works]
  BY DEF Cvg!InstallExtension
<1>2. /\ \A f, v : Cvg!Desired(f, v)' = Cvg!Desired(f, v)
      /\ \A v : Cvg!ManagedFails(v)' = Cvg!ManagedFails(v) /\ Recorded(v)' = Recorded(v)
      /\ Migrated' = Migrated /\ SkillsListed' = SkillsListed /\ Linked' = Linked
      /\ Cvg!Pinned' = Cvg!Pinned
  BY <1>0, Unmoved DEF Cvg!local
<1>3. ext' \in {ext, fixer[p].v}
  BY <1>1
<1>4. tidy.k # 0 /\ fixer[p].v = tidy.v => OnceFixed(tidy.v)'
  BY <1>0, <1>2, <1>3 DEF CvgInv, Tidy, OnceFixed
<1>5. tidy.k >= 2 => Cvg!ManagedFails(tidy.v)' = {}
  BY <1>0, <1>2 DEF CvgInv, Tidy
<1>6. CASE fixer[p].cmd = "init"
  <2>1. /\ fixer' \in [Proc -> FixerSet] /\ Untouched(p)
        /\ fixer'[p].at = "idle" /\ fixer'[p].cmd = ""
    BY <1>0, <1>1, <1>6, Ended
  <2>2. CvgTyped'
    BY <1>0, <1>3, <2>1 DEF CvgInv, CvgTyped, Untouched
  <2>3. Progress(p)'
    BY <2>1 DEF Progress
  <2> QED
    BY <1>0, <1>2, <1>4, <1>5, <2>1, <2>2, <2>3, StepKept
<1>7. CASE fixer[p].cmd # "init"
  <2>1. PICK r : r = [fixer[p] EXCEPT !.at = "files", !.failed = fixer[p].failed \/ ~works]
    OBVIOUS
  <2>f. (fixer[p].failed \/ ~works) \in BOOLEAN
    OBVIOUS
  <2>2. /\ r \in FixerSet /\ r.at = "files" /\ r.cmd = fixer[p].cmd /\ r.v = fixer[p].v
        /\ r.fix = fixer[p].fix /\ r.alone = fixer[p].alone /\ r.todo = fixer[p].todo
        /\ r.failed = (fixer[p].failed \/ ~works)
    BY <1>0, <2>1, <2>f DEF FixerSet, Stages
  <2>3. fixer' = [fixer EXCEPT ![p] = r]
    BY <1>1, <1>7, <2>1
  <2>4. fixer' \in [Proc -> FixerSet] /\ fixer'[p] = r /\ Untouched(p) /\ Steady(p)
    BY <1>0, <2>2, <2>3 DEF Untouched, Steady
  <2>5. CvgTyped'
    BY <1>0, <1>3, <2>2, <2>4, ZenonT(60) DEF CvgInv, CvgTyped, Untouched
  <2>6. Progress(p)'
    BY <1>0, <1>1, <1>2, <2>2, <2>4 DEF Progress
  <2> QED
    BY <1>0, <1>2, <1>4, <1>5, <2>2, <2>4, <2>5, <2>6, StepKept
<1> QED
  BY <1>6, <1>7

LEMMA StopKept ==
    ASSUME PinFile, CvgInv, NEW p \in Proc, Cvg!Stop(p)
    PROVE  CvgInv'
<1>0. /\ fixer[p].at # "idle" /\ fixer' = [fixer EXCEPT ![p] = Cvg!Idle]
      /\ UNCHANGED <<have, recorded, tidy>> /\ UNCHANGED Cvg!local
      /\ fixer \in [Proc -> FixerSet]
  BY DEF Cvg!Stop, CvgInv, CvgTyped
<1>1. fixer' \in [Proc -> FixerSet] /\ fixer'[p].at = "idle" /\ fixer'[p].cmd = "" /\ Untouched(p)
  BY <1>0, Ended
<1>2. CvgTyped'
  BY <1>0, <1>1 DEF CvgInv, CvgTyped, Untouched, Cvg!local
<1>3. Progress(p)'
  BY <1>1 DEF Progress
<1>4. (tidy.k # 0 => OnceFixed(tidy.v)') /\ (tidy.k >= 2 => Cvg!ManagedFails(tidy.v)' = {})
  BY <1>0, CalmStays
<1>5. Cvg!Pinned' = Cvg!Pinned /\ config' = config /\ legacy' = legacy
  BY <1>0, Unmoved DEF Cvg!local
<1> QED
  BY <1>0, <1>1, <1>2, <1>3, <1>4, <1>5, StepKept

LEMMA RecheckKept ==
    ASSUME PinFile, CvgInv, NEW p \in Proc, Cvg!Recheck(p)
    PROVE  CvgInv'
<1>0. /\ fixer[p].at = "recheck" /\ fixer' = [fixer EXCEPT ![p] = Cvg!Idle]
      /\ UNCHANGED <<have, recorded>> /\ UNCHANGED Cvg!local
      /\ fixer \in [Proc -> FixerSet] /\ fixer[p].v \in PerkVersions /\ fixer[p].cmd = "fix"
      /\ Progress(p) /\ tidy \in [v : PerkVersions \cup {0}, k : Nat]
  BY DEF Cvg!Recheck, CvgInv, CvgTyped, Converging
<1>1. fixer' \in [Proc -> FixerSet] /\ fixer'[p].at = "idle" /\ fixer'[p].cmd = "" /\ Untouched(p)
  BY <1>0, Ended
<1>2. /\ \A f, v : Cvg!Desired(f, v)' = Cvg!Desired(f, v)
      /\ \A v : Cvg!ManagedFails(v)' = Cvg!ManagedFails(v) /\ Recorded(v)' = Recorded(v)
      /\ Migrated' = Migrated /\ SkillsListed' = SkillsListed /\ Linked' = Linked
      /\ Cvg!Pinned' = Cvg!Pinned
  BY <1>0, Unmoved DEF Cvg!local
<1>3. \A v : OnceFixed(v)' = OnceFixed(v)
  BY <1>0, <1>2 DEF OnceFixed, Cvg!local
<1>4. fixer[p].v # 0
  BY <1>0 DEF PinFile
<1>5. tidy' \in [v : PerkVersions \cup {0}, k : Nat] /\ Tidy'
  <2>1. CASE ~fixer[p].alone \/ fixer[p].failed
    <3>1. tidy' = [v |-> 0, k |-> 0]
      BY <2>1 DEF Cvg!Recheck
    <3> QED
      BY <3>1 DEF Tidy
  <2>2. CASE fixer[p].alone /\ ~fixer[p].failed
    <3>1. PICK k : /\ k = IF tidy.v = fixer[p].v THEN tidy.k + 1 ELSE 1
                   /\ tidy' = [v |-> fixer[p].v, k |-> k]
      BY <2>2 DEF Cvg!Recheck
    <3>2. k \in Nat /\ k # 0 /\ (k >= 2 => tidy.v = fixer[p].v)
      BY <1>0, <3>1
    <3>3. tidy.v = fixer[p].v => tidy.k # 0
      BY <1>4 DEF CvgInv, Tidy
    <3>4. OnceFixed(fixer[p].v) /\ (tidy.k # 0 => Cvg!ManagedFails(fixer[p].v) = {})
      BY <1>0, <2>2 DEF Progress, OnceFixed
    <3>5. \A q \in Proc : fixer'[q].at = "idle"
      BY <1>0, <1>1, <2>2 DEF CvgInv, Undisturbed, Untouched
    <3>6. /\ tidy' \in [v : PerkVersions \cup {0}, k : Nat]
          /\ tidy'.v = fixer[p].v /\ tidy'.k = k
      BY <1>0, <3>1, <3>2
    <3>7. PICK w : w = fixer[p].v
      OBVIOUS
    <3>8. OnceFixed(w)' /\ (k >= 2 => Cvg!ManagedFails(w)' = {})
      BY <1>2, <1>3, <3>2, <3>3, <3>4, <3>7
    <3>9. tidy'.v = w
      BY <3>6, <3>7
    <3> QED
      BY <1>4, <3>2, <3>5, <3>6, <3>7, <3>8, <3>9 DEF Tidy
  <2> QED
    BY <2>1, <2>2
<1>6. CvgTyped'
  BY <1>0, <1>1, <1>5 DEF CvgInv, CvgTyped, Untouched, Cvg!local
<1>7. Undisturbed' /\ Seeding'
  BY <1>0, <1>1, <1>2 DEF CvgInv, Undisturbed, Seeding, Untouched, Cvg!local
<1>8. Converging'
  <2>1. ASSUME NEW q \in Proc \ {p} PROVE Progress(q)'
    <3>1. fixer'[q] = fixer[q]
      BY <1>1 DEF Untouched
    <3>2. fixer[q].alone => fixer[q].at = "idle"
      BY <1>0 DEF CvgInv, Undisturbed
    <3> QED
      BY <3>1, <3>2 DEF Progress
  <2>2. Progress(p)'
    BY <1>1 DEF Progress
  <2> QED
    BY <2>1, <2>2 DEF Converging
<1> QED
  BY <1>5, <1>6, <1>7, <1>8 DEF CvgInv

\* Every other running command is disturbed by one that starts beside it, or by an event.
LEMMA DisturbedSet ==
    ASSUME fixer \in [Proc -> FixerSet]
    PROVE  /\ Cvg!Disturb \in [Proc -> FixerSet]
           /\ \A q \in Proc : /\ ~ Cvg!Disturb[q].alone
                              /\ Cvg!Disturb[q].at = fixer[q].at
                              /\ Cvg!Disturb[q].cmd = fixer[q].cmd
                              /\ Cvg!Disturb[q].v = fixer[q].v
                              /\ Cvg!Disturb[q].skip = fixer[q].skip
<1> SUFFICES ASSUME NEW q \in Proc
             PROVE  /\ Cvg!Disturb[q] \in FixerSet /\ ~ Cvg!Disturb[q].alone
                    /\ Cvg!Disturb[q].at = fixer[q].at /\ Cvg!Disturb[q].cmd = fixer[q].cmd
                    /\ Cvg!Disturb[q].v = fixer[q].v /\ Cvg!Disturb[q].skip = fixer[q].skip
  BY DEF Cvg!Disturb
<1>1. PICK r : r = [fixer[q] EXCEPT !.alone = FALSE]
  OBVIOUS
<1>2. Cvg!Disturb[q] = r
  BY <1>1 DEF Cvg!Disturb
<1>3. fixer[q] \in FixerSet
  OBVIOUS
<1>4. /\ r \in FixerSet /\ ~ r.alone /\ r.at = fixer[q].at /\ r.cmd = fixer[q].cmd
      /\ r.v = fixer[q].v /\ r.skip = fixer[q].skip
  BY <1>1, <1>3 DEF FixerSet
<1> QED
  BY <1>2, <1>4

LEMMA StartKept ==
    ASSUME PinFile, CvgInv, NEW p \in Proc, NEW v \in PerkVersions, NEW cmd \in {"init", "fix"},
           Cvg!Start(p, v, cmd)
    PROVE  CvgInv'
<1> DEFINE fixes == {c \in {"config", "ext"} : \/ cmd = "init"
                                               \/ c = "config" /\ Cvg!ConfigFails
                                               \/ c = "ext" /\ Cvg!ExtensionFails(v)}
           base == IF Cvg!Others(p) = {} THEN fixer ELSE Cvg!Disturb
           lone == Cvg!Others(p) = {}
<1>0. /\ fixer[p].at = "idle" /\ ~ Cvg!WriteRefusal(v) /\ fixer \in [Proc -> FixerSet]
      /\ UNCHANGED <<have, recorded>> /\ UNCHANGED Cvg!local
      /\ tidy' = IF cmd = "fix" /\ tidy.v = v THEN tidy ELSE [v |-> 0, k |-> 0]
  BY DEF Cvg!Start, CvgInv, CvgTyped
<1>1. PICK r : r = [at |-> IF cmd = "init" THEN "files" ELSE "ext", cmd |-> cmd, v |-> v,
                    todo |-> IF cmd = "init" THEN Cvg!FileSet ELSE Cvg!ManagedFails(v),
                    fix |-> fixes, alone |-> lone, admitted |-> Cvg!Pinned, skip |-> FALSE,
                    failed |-> FALSE]
  OBVIOUS
<1>2. fixer' = [base EXCEPT ![p] = r]
  BY <1>1, Zenon DEF Cvg!Start
<1>3. Cvg!Pinned \in Nat /\ PerkVersions \subseteq Nat \ {0} /\ Cvg!Pinned <= v
  BY <1>0, PinNumber DEF CvgInv, Cvg!WriteRefusal
<1>4. /\ r \in FixerSet /\ r.at \in {"files", "ext"} /\ (r.at = "files" <=> cmd = "init")
      /\ r.cmd = cmd /\ r.v = v /\ r.fix = fixes /\ r.alone = lone /\ ~ r.failed
      /\ (cmd = "fix" => r.todo = Cvg!ManagedFails(v))
  <2>1. /\ fixes \in SUBSET {"config", "ext"} /\ lone \in BOOLEAN
        /\ Cvg!ManagedFails(v) \subseteq Cvg!FileSet
    BY DEF Cvg!ManagedFails
  <2> HIDE DEF fixes, lone
  <2>2. r.at \in {"files", "ext"} /\ (r.at = "files" <=> cmd = "init")
    BY <1>1
  <2> QED
    BY <1>1, <1>3, <2>1, <2>2 DEF FixerSet, Stages
<1>5. /\ base \in [Proc -> FixerSet]
      /\ \A q \in Proc \ {p} : /\ base[q].at = fixer[q].at /\ base[q].cmd = fixer[q].cmd
                               /\ base[q].v = fixer[q].v /\ base[q].skip = fixer[q].skip
                               /\ base[q].at # "idle" => ~ base[q].alone
  BY <1>0, DisturbedSet DEF Cvg!Others
<1> HIDE DEF fixes, base
<1>6. /\ fixer' \in [Proc -> FixerSet] /\ fixer'[p] = r
      /\ \A q \in Proc \ {p} : fixer'[q] = base[q]
  BY <1>2, <1>4, <1>5
<1>7. /\ \A f, w : Cvg!Desired(f, w)' = Cvg!Desired(f, w)
      /\ \A w : Cvg!ManagedFails(w)' = Cvg!ManagedFails(w) /\ Recorded(w)' = Recorded(w)
      /\ Migrated' = Migrated /\ SkillsListed' = SkillsListed /\ Linked' = Linked
      /\ Cvg!Pinned' = Cvg!Pinned
  BY <1>0, Unmoved DEF Cvg!local
<1>8. CvgTyped'
  <2>1. tidy' \in [v : PerkVersions \cup {0}, k : Nat]
    BY <1>0 DEF CvgInv, CvgTyped
  <2>2. \A q \in Proc : fixer'[q].at # "idle" =>
          /\ fixer'[q].v \in PerkVersions /\ fixer'[q].cmd # ""
          /\ fixer'[q].at = "recheck" => fixer'[q].cmd = "fix"
    <3>1. fixer'[p].v \in PerkVersions /\ fixer'[p].cmd # "" /\ fixer'[p].at # "recheck"
      BY <1>4, <1>6
    <3>2. ASSUME NEW q \in Proc \ {p}
          PROVE  /\ fixer'[q].at = fixer[q].at /\ fixer'[q].v = fixer[q].v
                 /\ fixer'[q].cmd = fixer[q].cmd
      BY <1>5, <1>6
    <3> QED
      BY <3>1, <3>2 DEF CvgInv, CvgTyped
  <2> QED
    BY <1>0, <1>6, <2>1, <2>2 DEF CvgInv, CvgTyped, Cvg!local
<1>9. Undisturbed'
  <2>1. lone => \A q \in Proc \ {p} : fixer[q].at = "idle"
    BY DEF Cvg!Others
  <2>2. ASSUME NEW q \in Proc \ {p}, lone PROVE fixer'[q].at = "idle"
    BY <1>5, <1>6, <2>1, <2>2
  <2>3. \A q \in Proc \ {p} : fixer'[q].at # "idle" => ~ fixer'[q].alone
    BY <1>5, <1>6
  <2>4. fixer'[p].alone = lone /\ Cvg!Pinned' <= fixer'[p].v
    BY <1>3, <1>4, <1>6, <1>7
  <2> HIDE DEF lone
  <2> QED
    BY <2>2, <2>3, <2>4 DEF Undisturbed
<1>10. Seeding'
  BY <1>0, <1>4, <1>5, <1>6 DEF CvgInv, Seeding, Cvg!local
<1>11. Tidy'
  <2>1. CASE cmd = "fix" /\ tidy.v = v
    <3>1. tidy' = tidy
      BY <1>0, <2>1
    <3>2. \A q \in Proc : tidy.k # 0 /\ fixer'[q].at # "idle" =>
            fixer'[q].cmd = "fix" /\ fixer'[q].v = tidy.v
      BY <1>4, <1>5, <1>6, <2>1 DEF CvgInv, Tidy
    <3>3. tidy.k # 0 => OnceFixed(tidy.v)'
      BY <1>0, <1>7, <3>1 DEF CvgInv, Tidy, OnceFixed, Cvg!local
    <3>4. tidy.k >= 2 => Cvg!ManagedFails(tidy.v)' = {}
      BY <1>7, <3>1 DEF CvgInv, Tidy
    <3>5. tidy.k = 0 <=> tidy.v = 0
      BY DEF CvgInv, Tidy
    <3> QED
      BY <3>1, <3>2, <3>3, <3>4, <3>5 DEF Tidy
  <2>2. CASE ~ (cmd = "fix" /\ tidy.v = v)
    <3>1. tidy' = [v |-> 0, k |-> 0]
      BY <1>0, <2>2
    <3> QED
      BY <3>1 DEF Tidy
  <2> QED
    BY <2>1, <2>2
<1>12. Converging'
  <2>1. ASSUME NEW q \in Proc \ {p} PROVE Progress(q)'
    BY <1>5, <1>6 DEF Progress
  <2>2. Progress(p)'
    <3> SUFFICES ASSUME cmd = "fix"
                 PROVE  /\ "ext" \in fixes \/ ext = v
                        /\ ("config" \in fixes <=> config = "none")
      BY <1>0, <1>4, <1>6, <1>7 DEF Progress, Cvg!local
    <3> QED
      BY DEF fixes, Cvg!ConfigFails, Cvg!ExtensionFails
  <2> QED
    BY <2>1, <2>2 DEF Converging
<1> QED
  BY <1>8, <1>9, <1>10, <1>11, <1>12 DEF CvgInv

\* Around the commands.
LEMMA EventKept ==
    ASSUME PinFile, CvgInv, fixer' = Cvg!Disturb, tidy' = [v |-> 0, k |-> 0],
           have' \in [Cvg!FileSet -> Contents], recorded' \in [Cvg!FileSet -> Contents],
           config' \in Places, legacy' \in Places, skill' \in [Skills -> {"none", "good", "bad"}],
           UNCHANGED <<fragment, delivered, ext>>,
           (\A p \in Proc : fixer[p].at # "seed") \/ UNCHANGED <<config, legacy>>
    PROVE  CvgInv'
<1>1. /\ fixer' \in [Proc -> FixerSet]
      /\ \A q \in Proc : /\ ~ fixer'[q].alone
                         /\ fixer'[q].at = fixer[q].at /\ fixer'[q].cmd = fixer[q].cmd
                         /\ fixer'[q].v = fixer[q].v /\ fixer'[q].skip = fixer[q].skip
  BY DisturbedSet DEF CvgInv, CvgTyped
<1>2. CvgTyped'
  BY <1>1, ZenonT(60) DEF CvgInv, CvgTyped
<1>3. Undisturbed' /\ Converging'
  BY <1>1 DEF Undisturbed, Converging, Progress
<1>4. Seeding'
  BY <1>1 DEF CvgInv, Seeding
<1>5. Tidy'
  BY DEF Tidy
<1> QED
  BY <1>2, <1>3, <1>4, <1>5 DEF CvgInv

LEMMA AroundKept ==
    ASSUME PinFile, CvgInv,
           \/ \E f \in Cvg!FileSet : Cvg!EditFile(f)
           \/ \E s \in Skills : Cvg!ChangeSkill(s)
           \/ \E v \in PerkVersions : Cvg!CheckOut(v)
    PROVE  CvgInv'
<1>1. ASSUME NEW f \in Cvg!FileSet, Cvg!EditFile(f) PROVE CvgInv'
  <2>1. have' \in [Cvg!FileSet -> Contents]
    BY <1>1 DEF Cvg!EditFile, CvgInv, CvgTyped, Contents
  <2> QED
    BY <1>1, <2>1, EventKept DEF Cvg!EditFile, Cvg!Event, CvgInv, CvgTyped, Cvg!local
<1>2. ASSUME NEW s \in Skills, Cvg!ChangeSkill(s) PROVE CvgInv'
  <2>1. skill' \in [Skills -> {"none", "good", "bad"}]
    BY <1>2 DEF Cvg!ChangeSkill, CvgInv, CvgTyped
  <2> QED
    BY <1>2, <2>1, EventKept DEF Cvg!ChangeSkill, Cvg!Event, CvgInv, CvgTyped
<1>3. ASSUME NEW v \in PerkVersions, Cvg!CheckOut(v) PROVE CvgInv'
  <2>1. PICK c \in Cvg!Choices, old \in BOOLEAN :
          /\ config' = (IF old THEN "none" ELSE c) /\ legacy' = (IF old THEN c ELSE "none")
          /\ have' = [f \in Cvg!FileSet |-> Cvg!Made(f, v, c)] /\ recorded' = have'
    BY <1>3 DEF Cvg!CheckOut
  <2>2. \A f \in Cvg!FileSet : Cvg!Made(f, v, c) \in Contents
    BY DEF Cvg!Made, Contents
  <2>3. have' \in [Cvg!FileSet -> Contents] /\ recorded' \in [Cvg!FileSet -> Contents]
    BY <2>1, <2>2
  <2>4. config' \in Places /\ legacy' \in Places
    BY <2>1 DEF Places
  <2> QED
    BY <1>3, <2>3, <2>4, EventKept DEF Cvg!CheckOut, Cvg!Event, CvgInv, CvgTyped
<1> QED
  BY <1>1, <1>2, <1>3

LEMMA CvgBegins == ASSUME PinFile, Cvg!Init PROVE CvgInv
<1>1. Cvg!Idle \in FixerSet /\ Cvg!Idle.at = "idle" /\ Cvg!Idle.cmd = ""
  BY DEF Cvg!Idle, FixerSet, Stages
<1>2. fixer \in [Proc -> FixerSet] /\ \A p \in Proc : fixer[p].at = "idle" /\ fixer[p].cmd = ""
  BY <1>1 DEF Cvg!Init
<1>3. CvgTyped
  BY <1>2 DEF Cvg!Init, CvgTyped, Contents, Places, Cvg!Choices
<1>4. Tidy
  BY DEF Cvg!Init, Tidy
<1> QED
  BY <1>2, <1>3, <1>4 DEF CvgInv, Undisturbed, Seeding, Converging, Progress

LEMMA CvgStays == ASSUME PinFile, CvgInv, [Cvg!Next]_Cvg!vars PROVE CvgInv'
<1>1. ASSUME NEW p \in Proc, Cvg!Command(p) PROVE CvgInv'
  <2>1. ASSUME NEW v \in PerkVersions, NEW cmd \in {"init", "fix"}, Cvg!Start(p, v, cmd)
        PROVE  CvgInv'
    BY <2>1, StartKept
  <2>2. Cvg!Converge(p) \/ Cvg!LookConfig(p) \/ Cvg!SeedConfig(p) \/ Cvg!Migrate(p)
        \/ Cvg!Record(p) => CvgInv'
    BY ConvergeKept, LookKept, SeedKept, MigrateKept, RecordKept
  <2>3. Cvg!ConvergeSkills(p) \/ Cvg!SyncSkills(p) \/ Cvg!InstallExtension(p) \/ Cvg!Recheck(p)
        \/ Cvg!Stop(p) => CvgInv'
    BY SkillsKept, SyncKept, InstallKept, RecheckKept, StopKept
  <2> QED
    BY <1>1, <2>1, <2>2, <2>3 DEF Cvg!Command
<1>2. CASE UNCHANGED Cvg!vars
  <2>1. UNCHANGED <<have, recorded, config, legacy, skill, fragment, delivered, ext, fixer, tidy>>
    BY <1>2 DEF Cvg!vars
  <2>2. /\ \A f, v : Cvg!Desired(f, v)' = Cvg!Desired(f, v)
        /\ \A v : Cvg!ManagedFails(v)' = Cvg!ManagedFails(v) /\ Recorded(v)' = Recorded(v)
        /\ Migrated' = Migrated /\ SkillsListed' = SkillsListed /\ Linked' = Linked
        /\ Cvg!Pinned' = Cvg!Pinned
    BY <2>1, Unmoved DEF Cvg!local
  <2>3. \A p \in Proc : Progress(p)' = Progress(p)
    BY <2>1, <2>2 DEF Progress
  <2>4. \A v : OnceFixed(v)' = OnceFixed(v)
    BY <2>1, <2>2 DEF OnceFixed
  <2>5. Tidy'
    BY <2>1, <2>2, <2>4 DEF CvgInv, Tidy
  <2>6. CvgTyped' /\ Undisturbed' /\ Seeding' /\ Converging'
    BY <2>1, <2>2, <2>3 DEF CvgInv, CvgTyped, Undisturbed, Seeding, Converging
  <2> QED
    BY <2>5, <2>6 DEF CvgInv
<1> QED
  BY <1>1, <1>2, AroundKept DEF Cvg!Next

\* The invariant of the commands that converge a checkout: how far each undisturbed run of
\* doctor --fix has come, and what is true of the checkout once one has finished
\* (convergence/init/ and convergence/doctor/).
THEOREM ConvergenceInvariance == ASSUME PinFile PROVE Cvg!Spec => []CvgInv
<1>1. Cvg!Init => CvgInv
  BY CvgBegins
<1>2. CvgInv /\ [Cvg!Next]_Cvg!vars => CvgInv'
  BY CvgStays
<1> QED
  BY <1>1, <1>2, PTL DEF Cvg!Spec

\* From whatever the files, the configuration, the skills and the extension were, and however
\* many managed files there are, two complete and undisturbed runs of doctor --fix by one version
\* of perk leave nothing that a third could fix (doctor/__init__.py, run_doctor).
THEOREM FixesAreEnough == ASSUME PinFile PROVE Cvg!Spec => []Cvg!FixesSuffice
<1>1. ASSUME CvgInv PROVE Cvg!FixesSuffice
  <2> SUFFICES ASSUME tidy.k >= 2 PROVE Cvg!Healthy(tidy.v)
    BY DEF Cvg!FixesSuffice
  <2>0. tidy.k \in Nat
    BY <1>1 DEF CvgInv, CvgTyped
  <2>1. OnceFixed(tidy.v) /\ Cvg!ManagedFails(tidy.v) = {}
    BY <1>1, <2>0 DEF CvgInv, Tidy
  <2>2. ASSUME NEW f \in Cvg!FileSet
        PROVE  Cvg!Verdict(f, tidy.v) = "up-to-date" /\ recorded[f] = have[f]
    <3>1. have[f] = Cvg!Desired(f, tidy.v) /\ recorded[f] = Cvg!Desired(f, tidy.v)
      BY <2>1 DEF OnceFixed, Cvg!ManagedFails, Recorded
    <3>2. have[f] # Cvg!Absent
      BY <1>1, <2>1, <3>1, DesiredContent DEF CvgInv, OnceFixed
    <3> QED
      BY <3>1, <3>2 DEF Cvg!Verdict
  <2>3. ~ Cvg!ConfigFails /\ ~ Cvg!ExtensionFails(tidy.v)
    BY <2>1 DEF OnceFixed, Migrated, Cvg!ConfigFails, Cvg!ExtensionFails
  <2>4. Cvg!Bad = {} => ~ Cvg!RepoSkillsFail /\ Cvg!Good \subseteq delivered
    BY <2>1 DEF OnceFixed, SkillsListed, Linked, Cvg!RepoSkillsFail
  <2> QED
    BY <2>1, <2>2, <2>3, <2>4 DEF Cvg!Healthy
<1> QED
  BY <1>1, ConvergenceInvariance, PTL

\* Only an event counts as one.
Counted == tally \in [cmd : Nat, event : Nat]
LEMMA CountKept == ASSUME Counted, [Cvg!Next]_Cvg!vars PROVE Counted'
<1>1. ASSUME \/ tally' = [tally EXCEPT !.cmd = @ + 1] \/ tally' = [tally EXCEPT !.event = @ + 1]
             \/ tally' = tally
      PROVE  Counted'
  BY <1>1 DEF Counted
<1>2. ASSUME NEW p \in Proc, Cvg!Command(p)
      PROVE  \/ tally' = [tally EXCEPT !.cmd = @ + 1] \/ tally' = [tally EXCEPT !.event = @ + 1]
             \/ tally' = tally
  BY <1>2, Zenon DEF Cvg!Command, Cvg!Start, Cvg!Converge, Cvg!LookConfig, Cvg!SeedConfig,
     Cvg!Migrate, Cvg!Record, Cvg!ConvergeSkills, Cvg!SyncSkills, Cvg!InstallExtension,
     Cvg!Recheck, Cvg!Stop
<1>3. ASSUME UNCHANGED Cvg!vars PROVE tally' = tally
  BY <1>3, Zenon DEF Cvg!vars
<1>4. ASSUME NEW f \in Cvg!FileSet, Cvg!EditFile(f) PROVE tally' = [tally EXCEPT !.event = @ + 1]
  BY <1>4, Zenon DEF Cvg!EditFile, Cvg!Event
<1>5. ASSUME NEW s \in Skills, Cvg!ChangeSkill(s) PROVE tally' = [tally EXCEPT !.event = @ + 1]
  BY <1>5, Zenon DEF Cvg!ChangeSkill, Cvg!Event
<1>6. ASSUME NEW v \in PerkVersions, Cvg!CheckOut(v) PROVE tally' = [tally EXCEPT !.event = @ + 1]
  BY <1>6, Zenon DEF Cvg!CheckOut, Cvg!Event
<1> QED
  BY <1>1, <1>2, <1>3, <1>4, <1>5, <1>6 DEF Cvg!Next

\* Steps of commands and events are told apart by their count.
LEMMA EventsCounted == Cvg!Spec => []Counted
<1>1. Cvg!Init => Counted
  BY DEF Cvg!Init, Counted
<1>2. Counted /\ [Cvg!Next]_Cvg!vars => Counted'
  BY CountKept
<1> QED
  BY <1>1, <1>2, PTL DEF Cvg!Spec

\* What is not an event is a step of a command that was not stopped.
LEMMA CommandsStep ==
    ASSUME Counted, [Cvg!Next]_Cvg!vars, Cvg!ByCommand
    PROVE  UNCHANGED Cvg!vars \/ \E p \in Proc : Cvg!Command(p) /\ ~ Cvg!Stop(p)
<1>1. ASSUME tally' = [tally EXCEPT !.event = @ + 1] PROVE FALSE
  BY <1>1 DEF Counted, Cvg!ByCommand
<1>2. ASSUME NEW f \in Cvg!FileSet, Cvg!EditFile(f) PROVE FALSE
  BY <1>1, <1>2 DEF Cvg!EditFile, Cvg!Event
<1>3. ASSUME NEW s \in Skills, Cvg!ChangeSkill(s) PROVE FALSE
  BY <1>1, <1>3 DEF Cvg!ChangeSkill, Cvg!Event
<1>4. ASSUME NEW v \in PerkVersions, Cvg!CheckOut(v) PROVE FALSE
  BY <1>1, <1>4 DEF Cvg!CheckOut, Cvg!Event
<1>5. ASSUME NEW p \in Proc, Cvg!Stop(p) PROVE FALSE
  BY <1>1, <1>5 DEF Cvg!Stop
<1> QED
  BY <1>2, <1>3, <1>4, <1>5 DEF Cvg!Next

\* However many commands run at once, none shadows a configuration that is still at its old
\* place, moves or drops another text than it had, or withdraws a skill from the manifest while
\* an authored skill does not parse (init/templates.py, converge_config; doctor/fixes.py,
\* _migrate_legacy_config; init/repo_skills.py, converge_repo_skills_manifest).
THEOREM TextIsKept == ASSUME PinFile PROVE Cvg!Spec => [][Cvg!KeepsText]_Cvg!vars
<1>1. ASSUME CvgInv, Counted, [Cvg!Next]_Cvg!vars PROVE Cvg!KeepsText
  <2> SUFFICES ASSUME Cvg!ByCommand PROVE Cvg!KeepsText
    BY DEF Cvg!KeepsText
  <2>1. CASE UNCHANGED Cvg!vars
    BY <2>1 DEF Cvg!vars, Cvg!KeepsText
  <2>2. ASSUME NEW p \in Proc, Cvg!Command(p), ~ Cvg!Stop(p)
        PROVE  Cvg!KeepsText
    <3>1. CASE \/ \E v \in PerkVersions, cmd \in {"init", "fix"} : Cvg!Start(p, v, cmd)
               \/ Cvg!Converge(p) \/ Cvg!LookConfig(p) \/ Cvg!Record(p) \/ Cvg!SyncSkills(p)
               \/ Cvg!InstallExtension(p) \/ Cvg!Recheck(p)
      <4>1. UNCHANGED <<config, legacy, fragment>>
        BY <3>1, Zenon DEF Cvg!Start, Cvg!Converge, Cvg!LookConfig, Cvg!Record, Cvg!SyncSkills,
           Cvg!InstallExtension, Cvg!Recheck, Cvg!local
      <4> QED
        BY <4>1 DEF Cvg!KeepsText
    <3>2. CASE Cvg!SeedConfig(p)
      BY <1>1, <3>2 DEF Cvg!SeedConfig, CvgInv, Seeding, Cvg!KeepsText
    <3>3. CASE Cvg!Migrate(p)
      BY <3>3 DEF Cvg!Migrate, Cvg!KeepsText
    <3>4. CASE Cvg!ConvergeSkills(p)
      <4>1. /\ UNCHANGED <<config, legacy>>
            /\ fragment' = Cvg!FragmentWanted \/ fragment' = fragment
        BY <3>4 DEF Cvg!ConvergeSkills
      <4> QED
        BY <4>1 DEF Cvg!FragmentWanted, Cvg!KeepsText
    <3> QED
      BY <2>2, <3>1, <3>2, <3>3, <3>4 DEF Cvg!Command
  <2> QED
    BY <1>1, <2>1, <2>2, CommandsStep
<1> QED
  BY <1>1, ConvergenceInvariance, EventsCounted, PTL DEF Cvg!Spec

\* A command nobody interfered with never writes a managed file below the version it found
\* pinned (write_admission.py).
THEOREM NoneGoesBackward == ASSUME PinFile PROVE Cvg!Spec => [][Cvg!NeverBackward]_Cvg!vars
<1>1. ASSUME CvgInv, Counted, [Cvg!Next]_Cvg!vars PROVE Cvg!NeverBackward
  <2> SUFFICES ASSUME Cvg!ByCommand, NEW f \in Cvg!FileSet, have'[f] # have[f]
               PROVE  \E p \in Proc : /\ fixer[p].at = "files" /\ fixer[p].v = have'[f][1]
                                      /\ fixer[p].alone => Cvg!Pinned <= have'[f][1]
    BY DEF Cvg!NeverBackward
  <2>1. PICK p \in Proc : Cvg!Command(p) /\ ~ Cvg!Stop(p)
    BY <1>1, CommandsStep DEF Cvg!vars
  <2>2. Cvg!Converge(p) /\ have' # have
    BY <2>1, Zenon DEF Cvg!Command, Cvg!Start, Cvg!Converge, Cvg!LookConfig, Cvg!SeedConfig,
       Cvg!Migrate, Cvg!Record, Cvg!ConvergeSkills, Cvg!SyncSkills, Cvg!InstallExtension,
       Cvg!Recheck
  <2>3. PICK g \in fixer[p].todo : have' = [have EXCEPT ![g] = Cvg!Desired(g, fixer[p].v)]
    <3>1. fixer[p].todo # {}
      BY <2>2 DEF Cvg!Converge
    <3> QED
      BY <2>2, <3>1 DEF Cvg!Converge
  <2>4. fixer[p].at = "files" /\ fixer[p].v \in PerkVersions
    BY <1>1, <2>2 DEF Cvg!Converge, CvgInv, CvgTyped
  <2>5. have'[f] = Cvg!Desired(f, fixer[p].v)
    BY <1>1, <2>3 DEF CvgInv, CvgTyped
  <2>6. have'[f][1] = fixer[p].v
    BY <1>1, <2>4, <2>5, DesiredContent DEF CvgInv
  <2>7. fixer[p].alone => Cvg!Pinned <= fixer[p].v
    BY <1>1, <2>4 DEF CvgInv, Undisturbed
  <2> QED
    BY <2>4, <2>6, <2>7
<1> QED
  BY <1>1, ConvergenceInvariance, EventsCounted, PTL DEF Cvg!Spec

\* Files, configuration, manifests, links and commands keep their types (convergence/).
THEOREM ConvergenceTypeCorrect == ASSUME PinFile PROVE Cvg!Spec => []Cvg!TypeOK
<1>1. CvgInv => Cvg!TypeOK
  BY DEF CvgInv, CvgTyped, Cvg!TypeOK, Contents, Places, FixerSet
<1> QED
  BY <1>1, ConvergenceInvariance, PTL

=============================================================================
