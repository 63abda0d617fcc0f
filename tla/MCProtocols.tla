---------------------------- MODULE MCProtocols ----------------------------
(***************************************************************************)
(* The protocols that a crash may cut between two remote writes: overlap-  *)
(* ping publications, transfer, continuation, the objective store on       *)
(* Linear, the rerun of a synchronization, and, with two machines, the     *)
(* appends of the journal.  Each protocol is checked by itself: the        *)
(* initial state chooses one, and the variables the others would use       *)
(* stay 0.                                                                 *)
(***************************************************************************)
EXTENDS Naturals, FiniteSets, Functions

VARIABLES focus,
          op, nops, me, edits, faults,
          ref, cp, local, pr, stack, header, made, lost, crossed,
          obj, plan, prs, claimed, target, nlin,
          base, man, wt, tref, failed,
          proj, iss, rel, carry, policy,
          journal, posts, rec, pushes, applied, refused, self,
          carrier, wire, pc, ev, tries, result, calls

\* Replans that keep both plans, drop the first, and leave the stacked policy.
Requests == { [stacked |-> TRUE, proj |-> <<1, 2>>], [stacked |-> TRUE, proj |-> <<2>>],
              [stacked |-> FALSE, proj |-> <<0, 1>>] }

Pub == INSTANCE Publication WITH Procs <- {"w1", "w2"}, N <- 2, MaxOps <- 2, MaxLocal <- 2,
                                 MaxEdits <- 0, MaxFaults <- 1
Tra == INSTANCE Transfer WITH N <- 2, Runs <- {"A", "B"}, MaxObj <- 4, MaxOps <- 2, Cap <- 2,
                              MaxEdits <- 1, MaxFaults <- 1
Con == INSTANCE Continuation WITH N <- 3, MaxOps <- 2, MaxEdits <- 1, MaxFaults <- 2
Lin == INSTANCE LinearStore WITH MaxEdits <- 1, MaxFaults <- 1
Syn == INSTANCE StackSync WITH Procs <- {"p1"}, MachineOf <- [p \in {"p1"} |-> "m"], N <- 2,
                               Cmds <- {"sync"}, MaxOps <- 2, MaxEdits <- 1, MaxFaults <- 2,
                               MaxStamp <- 2, Late <- FALSE
App == INSTANCE TrainPersistence WITH Writers <- {"w1", "w2"}, MaxOps <- 1, Heads <- {"h1"},
                                      MaxCalls <- 2, Late <- TRUE

pubOnly == <<local, pr, stack, header, made, lost, crossed>>
traOnly == <<obj, plan, prs, claimed, target, nlin>>
conOnly == <<base, man, wt, tref, failed>>
linOnly == <<proj, iss, rel, carry, policy>>
synOnly == <<journal, posts, rec, pushes, applied, refused, self>>
appOnly == <<carrier, wire, pc, ev, tries, result, calls>>
vars    == <<focus, op, nops, me, edits, faults, ref, cp, pubOnly, traOnly, conOnly, linOnly,
             synOnly, appOnly>>

\* What a step of one protocol leaves alone.
pubRest == <<focus, traOnly, conOnly, linOnly, synOnly, appOnly>>
traRest == <<focus, ref, cp, pubOnly, conOnly, linOnly, synOnly, appOnly>>
conRest == <<focus, pubOnly, traOnly, linOnly, synOnly, appOnly>>
linRest == <<focus, op, nops, ref, cp, pubOnly, traOnly, conOnly, synOnly, appOnly>>
appRest == <<focus, op, nops, me, edits, faults, ref, cp, pubOnly, traOnly, conOnly, linOnly,
             synOnly>>
synRest == <<focus, op, me, pubOnly, traOnly, conOnly, linOnly, appOnly>>

NoPub  == local = 0 /\ pr = 0 /\ stack = 0 /\ header = 0 /\ made = 0 /\ lost = 0
          /\ crossed = 0
NoTra  == obj = 0 /\ plan = 0 /\ prs = 0 /\ claimed = 0 /\ target = 0 /\ nlin = 0
NoCon  == base = 0 /\ man = 0 /\ wt = 0 /\ tref = 0 /\ failed = 0
NoLin  == proj = 0 /\ iss = 0 /\ rel = 0 /\ carry = 0 /\ policy = 0
NoSyn  == /\ journal = 0 /\ posts = 0 /\ rec = 0 /\ pushes = 0 /\ applied = 0 /\ refused = 0
          /\ self = 0

NoApp  == carrier = 0 /\ wire = 0 /\ pc = 0 /\ ev = 0 /\ tries = 0 /\ result = 0 /\ calls = 0

Init == \/ focus = "publication" /\ Pub!Init /\ NoTra /\ NoCon /\ NoLin /\ NoSyn /\ NoApp
        \/ /\ focus = "transfer" /\ Tra!Init /\ ref = 0 /\ cp = 0
           /\ NoPub /\ NoCon /\ NoLin /\ NoSyn /\ NoApp
        \/ focus = "continuation" /\ Con!Init /\ NoPub /\ NoTra /\ NoLin /\ NoSyn /\ NoApp
        \/ /\ focus = "linear" /\ Lin!Init /\ op = 0 /\ nops = 0 /\ ref = 0 /\ cp = 0
           /\ NoPub /\ NoTra /\ NoCon /\ NoSyn /\ NoApp
        \/ /\ focus = "sync" /\ Syn!Init /\ op = 0 /\ me = 0
           /\ NoPub /\ NoTra /\ NoCon /\ NoLin /\ NoApp
        \/ /\ focus = "append" /\ App!Init
           /\ op = 0 /\ nops = 0 /\ me = 0 /\ edits = 0 /\ faults = 0 /\ ref = 0 /\ cp = 0
           /\ NoPub /\ NoTra /\ NoCon /\ NoLin /\ NoSyn

\* Publications that have crossed are left to the run sync_races.
Next == \/ focus = "publication" /\ crossed = {} /\ Pub!Next /\ UNCHANGED pubRest
        \/ focus = "publication" /\ crossed # {} /\ UNCHANGED vars
        \/ focus = "transfer" /\ Tra!Next /\ UNCHANGED traRest
        \/ focus = "continuation" /\ Con!Next /\ UNCHANGED conRest
        \/ focus = "linear" /\ Lin!Next /\ UNCHANGED linRest
        \/ focus = "sync" /\ Syn!Next /\ UNCHANGED synRest
        \/ focus = "append" /\ App!Next /\ UNCHANGED appRest
        \* The bound on append calls is used up: no deadlock.
        \/ /\ focus = "append" /\ calls = 2 /\ wire = {} /\ \A w \in {"w1", "w2"} : pc[w] = "idle"
           /\ UNCHANGED vars

\* A command in progress goes on; each protocol is retried as its own module
\* says.
Progress == \/ focus = "transfer" /\ Tra!Work /\ UNCHANGED traRest
            \/ focus = "continuation" /\ Con!Work /\ UNCHANGED conRest
            \/ focus = "linear" /\ Lin!Work /\ UNCHANGED linRest
            \/ focus = "sync" /\ Syn!Own("p1") /\ UNCHANGED synRest
\* The first remedy rolls forward and the second abandons or discards; a
\* publication is submitted again, layer by layer, and a Linear objective and its
\* successor are given to the doctor.
Remedy(k) == \/ /\ focus = "publication" /\ crossed = {}
                /\ \E p \in {"w1", "w2"} : Pub!Begin(p, "submit", k)
                /\ UNCHANGED pubRest
             \/ focus = "transfer" /\ Tra!Retry(IF k = 1 THEN "recover" ELSE "abandon")
                /\ UNCHANGED traRest
             \/ focus = "continuation" /\ Con!Begin(IF k = 1 THEN "recover" ELSE "abort")
                /\ UNCHANGED conRest
             \/ focus = "linear" /\ Lin!Doctor(k) /\ UNCHANGED linRest
             \/ focus = "sync" /\ Syn!Begin("p1", "sync") /\ UNCHANGED synRest
\* A machine that appends goes on, and so does the other; so does each submit.
Goes(w) == \/ focus = "append" /\ App!Going(w) /\ UNCHANGED appRest
           \/ focus = "publication" /\ crossed = {} /\ Pub!Work(w) /\ UNCHANGED pubRest
\* The journal's backend and the git remote answer.
Answer == \/ focus = "sync" /\ Syn!Answer /\ UNCHANGED synRest
          \/ focus = "append" /\ App!Answer /\ UNCHANGED appRest

Spec == /\ Init /\ [][Next]_vars
        /\ WF_vars(Progress) /\ WF_vars(Answer)
        /\ WF_vars(Goes("w1")) /\ WF_vars(Goes("w2"))
        /\ SF_vars(Remedy(1)) /\ SF_vars(Remedy(2))

-----------------------------------------------------------------------------
\* A stacked objective is superseded last (transfer.py, _execute).
SupersededLast == [][focus = "transfer" => Tra!SupersededLast]_vars

\* A stacked objective never gets two successors, and the identity of its train
\* never forks (transfer.py, _route_unresolved and _incremental_lineage).
OneSuccessor == focus = "transfer" => Tra!OneSuccessor /\ Tra!LineageUnforked

\* What a continued cascade journals is a linear suffix (sync.py, _continue).
JournaledSuffixIsLinear == focus = "continuation" => Con!JournaledSuffixIsLinear

\* A retained conflict is whole (recover.py, observe_orphans).
RetainedIsWhole == focus = "continuation" => Con!RetainedIsWhole

\* A node id names one Linear issue, and a carried issue is never canceled (project_store.py,
\* _converge_superseding_project, _finalize_supersession).
IssuesSurvive == focus = "linear" => Lin!NodeIdsUnique /\ Lin!CarriedSurvives

\* Nothing stays blocked: without interference the journal is quiet again and
\* again, whatever was interrupted, by submitting again, also beside a live submit or
\* recovery as long as the two do not cross (publish.py, _resume), by
\* recovering a transfer below the depth cap (recover.py, _conclude_transfer),
\* by recovering and aborting a conflict (sync.py, _abort); and the doctor makes a
\* Linear objective whole again, also after interference (repair_objective_drift).  A rerun
\* synchronization settles every operation unless somebody else's push left its
\* refs mixed (sync.py, _resume).
ProtocolsConclude ==
    []<>(\/ edits # 0 /\ focus \notin {"linear", "sync", "append"}
         \/ focus = "publication" /\ Pub!Quiet
         \/ focus = "transfer" /\ Tra!Concluded
         \/ focus = "continuation" /\ man.st = "none" /\ Con!Unresolved = {}
         \/ focus = "linear" /\ Lin!Whole
         \/ focus = "sync" /\ Syn!Concluded
         \/ focus = "append" /\ \A w \in {"w1", "w2"} : pc[w] = "idle")

\* The POST / rescan / retry loop implements AppendLog: duplicates, retries and
\* late landings are invisible in the folded log, success is only reported for an
\* event that is durable, and every append ends (persistence.py,
\* _post_and_verify).  Where no append is checked the log stays as it started.
InApp == focus = "append"
Log == INSTANCE AppendLog WITH
    Writers <- {"w1", "w2"},
    Events  <- App!Events,
    log     <- IF InApp THEN Range(carrier) ELSE {},
    pending <- IF InApp THEN App!Outstanding ELSE {},
    offer   <- IF InApp THEN ev ELSE [w \in {"w1", "w2"} |-> App!NoEvent],
    answer  <- IF InApp THEN App!Told ELSE [w \in {"w1", "w2"} |-> "none"]
ImplementsAppendLog == Log!Spec
=============================================================================
