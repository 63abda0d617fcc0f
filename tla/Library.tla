------------------------------- MODULE Library -------------------------------
(***************************************************************************)
(* The documentation library of a checkout (library/): a mirror of a site, *)
(* crawled into a staging directory by a session and published from there, *)
(* and a clone of a source repository, both named by catalog.json.  The    *)
(* catalog is written under a file lock that nobody waits for; crawls,     *)
(* clones, probes and the clean-up of a failed clone run without it.       *)
(* Renames and the catalog write may fail, and so may the roll-back; a     *)
(* command may be killed between any two steps, which frees the lock.      *)
(***************************************************************************)
EXTENDS Integers

CONSTANTS Proc,              \* commands that run at a time, positive integers
          Slots,             \* staging directories, 1..n in the order they are tried
          MaxCommands, MaxFaults, MaxMoves   \* bounds

VARIABLES docs, src,         \* catalog entries of the mirror and of the clone
          mirror,            \* the revision at documentation/<slug>, 0 when there is none
          aside,             \* displaced revisions, .<slug>.previous-*
          stage,             \* staging directories and who crawled into them
          tree,              \* the clone
          site, remote,      \* versions served upstream; they only grow
          lock,              \* holder of the library lock, 0 when free
          self,              \* the commands
          swept,             \* ghost: a clean-up deleted a clone that was catalogued meanwhile
          count              \* commands, faults and upstream moves so far

vars == <<docs, src, mirror, aside, stage, tree, site, remote, lock, self, swept, count>>
mirrorVars == <<docs, mirror, aside, stage>>
cloneVars == <<src, tree, swept>>

(* A revision is named by the slot it was staged in.  rev is not in the file: it tells which
   revision an entry was written for.  An entry with added = 0 is absent. *)
NoDocs == [rev |-> 0, added |-> 0, base |-> 0, print |-> 0, evidence |-> "none", checked |-> FALSE,
           drifted |-> FALSE]
NoSrc == [added |-> 0, pinned |-> FALSE, head |-> 0, checked |-> FALSE, drifted |-> FALSE]
NoTree == [state |-> "absent", head |-> 0, edit |-> "clean", detached |-> FALSE]
Idle == [at |-> "idle", replace |-> FALSE, slot |-> 0, previous |-> 0, doc |-> NoDocs, print |-> 0,
         src |-> NoSrc, fresh |-> FALSE, pin |-> FALSE, saw |-> FALSE]

Catalogued == docs.added # 0
SrcCatalogued == src.added # 0

Init ==
  /\ docs = NoDocs /\ src = NoSrc /\ mirror = 0 /\ aside = {} /\ tree = NoTree
  /\ stage = [r \in Slots |-> [state |-> "absent", by |-> {}]]
  /\ site = 1 /\ remote = 1 /\ lock = 0 /\ swept = FALSE
  /\ self = [p \in Proc |-> Idle] /\ count = [command |-> 0, fault |-> 0, move |-> 0]

----------------------------------------------------------------------------
(* Every command starts with the guards of guard.py, which this checkout passes *)
Start(p, s) ==
  /\ self[p].at = "idle" /\ count.command < MaxCommands
  /\ count' = [count EXCEPT !.command = @ + 1] /\ self' = [self EXCEPT ![p] = s]
To(p, at) == self' = [self EXCEPT ![p].at = at]
End(p) == self' = [self EXCEPT ![p] = Idle]
Fault == count.fault < MaxFaults /\ count' = [count EXCEPT !.fault = @ + 1]
Still == UNCHANGED count
Upstream == UNCHANGED <<site, remote>>
(* library_lock: taken at once, or the command ends *)
TakeLock(p) == lock = 0 /\ lock' = p
Release(p) == lock = p /\ lock' = 0
Busy(p, at) == self[p].at = at /\ lock # 0

(* publish_eligibility, by the plan without the lock and by the publication under it *)
Eligible(replace) == IF replace THEN Catalogued ELSE ~Catalogued /\ mirror = 0

FreeSlots == {r \in Slots : stage[r].state = "absent"}
FirstFree == CHOOSE r \in FreeSlots : \A s \in FreeSlots : r <= s

Planned(p, replace) ==
  /\ FreeSlots # {}
  /\ Start(p, [Idle EXCEPT !.at = "probe", !.replace = replace, !.slot = FirstFree])
  /\ UNCHANGED <<lock>> /\ UNCHANGED mirrorVars /\ UNCHANGED cloneVars /\ Upstream
PlanAdd(p) == Eligible(FALSE) /\ Planned(p, FALSE)
PlanRefresh(p) == Catalogued /\ Planned(p, TRUE)

(* probe_seed: a seed that only redirects ends the command with nothing claimed *)
Redirects(p) == End(p)
ProbeSeed(p) ==
  /\ self[p].at = "probe" /\ (Redirects(p) \/ To(p, "claim"))
  /\ UNCHANGED <<lock>> /\ UNCHANGED mirrorVars /\ UNCHANGED cloneVars /\ Upstream /\ Still

(* claim_staging_dir: mkdir decides, whatever the preview said *)
Previewed(p, r) == r = self[p].slot
Claimable(p, r) == r \in FreeSlots /\ r = FirstFree
Claim(p) ==
  /\ self[p].at = "claim"
  /\ \E r \in Slots :
       /\ Claimable(p, r)
       /\ stage' = [stage EXCEPT ![r].state = "claimed"]
       /\ self' = [self EXCEPT ![p].at = "crawl", ![p].slot = r]
  /\ UNCHANGED <<docs, mirror, aside, lock>> /\ UNCHANGED cloneVars /\ Upstream /\ Still

(* copy_docs refuses a directory that is not empty, fetches for minutes, then writes; the
   entrypoint comes last *)
Refused(r) == stage[r].state # "claimed"
Crawl(p) ==
  /\ self[p].at = "crawl"
  /\ IF Refused(self[p].slot) THEN End(p) ELSE To(p, "fetch")
  /\ UNCHANGED <<lock>> /\ UNCHANGED mirrorVars /\ UNCHANGED cloneVars /\ Upstream /\ Still
Discover(p) ==
  /\ self[p].at = "fetch" /\ (Redirects(p) \/ To(p, "write"))
  /\ UNCHANGED <<lock>> /\ UNCHANGED mirrorVars /\ UNCHANGED cloneVars /\ Upstream /\ Still
WritePages(p) ==
  /\ self[p].at = "write" /\ To(p, "index")
  /\ LET r == self[p].slot IN
       stage' = [stage EXCEPT ![r] = [state |-> IF @.state = "full" THEN "full" ELSE "partial",
                                      by |-> @.by \cup {p}]]
  /\ UNCHANGED <<docs, mirror, aside, lock>> /\ UNCHANGED cloneVars /\ Upstream /\ Still
WriteIndex(p) ==
  /\ self[p].at = "index" /\ To(p, "publish")
  /\ stage' = [stage EXCEPT ![self[p].slot].state = "full"]
  /\ UNCHANGED <<docs, mirror, aside, lock>> /\ UNCHANGED cloneVars /\ Upstream /\ Still

Validated(r) == stage[r].state = "full"
FailuresRefused == TRUE      \* pages failed and nobody passed --accept-failures

(* publish: the staging is validated, then the lock, then eligibility again *)
Publish(p) ==
  /\ self[p].at = "publish" /\ lock = 0
  /\ \/ /\ Validated(self[p].slot) /\ Eligible(self[p].replace)
        /\ TakeLock(p) /\ To(p, "displace")
     \/ /\ ~Validated(self[p].slot) \/ ~Eligible(self[p].replace) \/ FailuresRefused
        /\ End(p) /\ UNCHANGED lock
  /\ UNCHANGED mirrorVars /\ UNCHANGED cloneVars /\ Upstream /\ Still

(* _commit_publish: displace, swap, record; each may fail and is rolled back *)
Dropped(r) == {}
Kept(r) == {r} \ {0}
Displace(p) ==
  /\ self[p].at = "displace"
  /\ \/ /\ mirror' = 0 /\ aside' = aside \cup Kept(mirror)
        /\ self' = [self EXCEPT ![p].at = "swap", ![p].previous = mirror]
        /\ Still /\ UNCHANGED lock
     \/ /\ mirror # 0 /\ Fault /\ Release(p) /\ End(p) /\ UNCHANGED <<mirror, aside>>
  /\ UNCHANGED <<docs, stage>> /\ UNCHANGED cloneVars /\ Upstream

Restored(p) == mirror' = self[p].previous /\ aside' = aside \ {self[p].previous}
Swap(p) ==
  /\ self[p].at = "swap"
  /\ LET r == self[p].slot IN
     \/ /\ mirror' = r /\ stage' = [stage EXCEPT ![r].state = "moved"] /\ To(p, "record")
        /\ Still /\ UNCHANGED <<aside, lock>>
     \/ Fault /\ Release(p) /\ End(p) /\ Restored(p) /\ UNCHANGED stage
  /\ UNCHANGED docs /\ UNCHANGED cloneVars /\ Upstream

Published(p) ==
  [NoDocs EXCEPT !.rev = self[p].slot, !.added = IF Catalogued THEN docs.added ELSE self[p].slot]
Record(p) ==
  /\ self[p].at = "record"
  /\ LET r == self[p].slot IN
     \/ /\ docs' = Published(p) /\ To(p, "sweep") /\ Still
        /\ UNCHANGED <<mirror, aside, stage, lock>>
     \/ \* rolled back: the new mirror to its staging, then the previous one into place
        /\ Fault /\ Release(p) /\ End(p) /\ UNCHANGED docs
        /\ stage' = [stage EXCEPT ![r].state = "full"] /\ Restored(p)
     \/ \* the roll-back fails too, at its first or at its second rename
        /\ count.fault + 2 <= MaxFaults /\ count' = [count EXCEPT !.fault = @ + 2]
        /\ Release(p) /\ End(p) /\ UNCHANGED <<docs, aside>>
        /\ \/ UNCHANGED <<mirror, stage>>
           \/ mirror' = 0 /\ stage' = [stage EXCEPT ![r].state = "full"]
  /\ UNCHANGED cloneVars /\ Upstream

(* _post_publish *)
Sweep(p) ==
  /\ self[p].at = "sweep" /\ Release(p) /\ End(p)
  /\ \/ aside' = aside \ {self[p].previous} /\ Still
     \/ self[p].previous # 0 /\ Fault /\ UNCHANGED aside
  /\ UNCHANGED <<docs, mirror, stage>> /\ UNCHANGED cloneVars /\ Upstream

(* adopt: an uncatalogued directory, moved into place when it lies elsewhere *)
Adoptable(r) == r \in (aside \cup {mirror}) \ {0}
AdoptRenames(r) == mirror' = r /\ aside' = aside \ {r}
Adopt(p, r) ==
  /\ Adoptable(r) /\ lock = 0
  /\ ~Catalogued /\ mirror \in {0, r}
  /\ Start(p, Idle)      \* a failed write is rolled back: nothing happened
  /\ AdoptRenames(r) /\ docs' = [NoDocs EXCEPT !.rev = r, !.added = r]
  /\ UNCHANGED <<stage, lock>> /\ UNCHANGED cloneVars /\ Upstream

(* remove: out of the catalog first, then the content *)
RemoveDocs(p) ==
  /\ Catalogued /\ TakeLock(p) /\ docs' = NoDocs
  /\ Start(p, [Idle EXCEPT !.at = "delete"])
  /\ UNCHANGED <<mirror, aside, stage>> /\ UNCHANGED cloneVars /\ Upstream
DeleteMirror(p) ==
  /\ self[p].at = "delete" /\ Release(p) /\ End(p)
  /\ \/ mirror' = 0 /\ Still
     \/ mirror # 0 /\ Fault /\ UNCHANGED mirror
  /\ UNCHANGED <<docs, aside, stage>> /\ UNCHANGED cloneVars /\ Upstream

----------------------------------------------------------------------------
(* check: entries are read and probed without the lock, the results applied under it *)
Present == mirror # 0
CheckDocs(p) ==
  /\ Catalogued /\ Present
  /\ Start(p, [Idle EXCEPT !.at = "inventory", !.doc = docs])
  /\ UNCHANGED <<lock>> /\ UNCHANGED mirrorVars /\ UNCHANGED cloneVars /\ Upstream

(* _inventory: 0 when it is not definitive *)
Fingerprints == {0, site}
Inventory(p) ==
  /\ self[p].at = "inventory"
  /\ \E seen \in Fingerprints : self' = [self EXCEPT ![p].at = "page", ![p].print = seen]
  /\ UNCHANGED <<lock>> /\ UNCHANGED mirrorVars /\ UNCHANGED cloneVars /\ Upstream /\ Still

(* _probe_docs with _apply_page: markers not recorded yet are taken from what is observed *)
First(a, b) == IF a = 0 THEN b ELSE a
Probed(e, print, page) ==
  LET moved == \/ page # 0 /\ e.base \notin {0, page}
               \/ print # 0 /\ e.print \notin {0, print}
      unobserved == page = 0 \/ (print = 0 /\ e.print # 0)
      evidence == IF page # 0 THEN "strong" ELSE IF print # 0 THEN "weak" ELSE "none"
  IN  [e EXCEPT !.base = First(@, page), !.print = First(@, print), !.evidence = evidence,
                !.checked = TRUE,
                !.drifted = IF evidence = "none" THEN @ ELSE moved \/ (@ /\ unobserved)]
Answers == {0, site}
Page(p) ==
  /\ self[p].at = "page"
  /\ \/ \E page \in Answers :
          self' = [self EXCEPT ![p].at = "apply",
                               ![p].src = [NoSrc EXCEPT !.head = page]]
     \/ self[p].print = 0 /\ End(p)      \* nothing answered
  /\ UNCHANGED <<lock>> /\ UNCHANGED mirrorVars /\ UNCHANGED cloneVars /\ Upstream /\ Still

(* _apply: only to the entry that was probed *)
Whatever(current, probed) == TRUE
Applicable(current, probed) == current = probed
ApplyDocs(p) ==
  /\ self[p].at = "apply" /\ lock = 0 /\ End(p)
  /\ docs' = IF Catalogued /\ Applicable([docs EXCEPT !.rev = 0], [self[p].doc EXCEPT !.rev = 0])
             THEN [Probed(self[p].doc, self[p].print, self[p].src.head) EXCEPT !.rev = docs.rev]
             ELSE docs
  /\ UNCHANGED <<mirror, aside, stage, lock>> /\ UNCHANGED cloneVars /\ Upstream /\ Still

----------------------------------------------------------------------------
(* _eligibility of a clone: a missing pinned checkout is restored by naming the pin *)
SrcEligible(fresh, pin) == SrcCatalogued /\ src.pinned /\ fresh => pin

IsCheckout == tree.state = "ok"

(* add_source up to the clone *)
AddSource(p, pin) ==
  LET fresh == tree.state = "absent" IN
  /\ SrcEligible(fresh, pin)
  /\ fresh \/ IsCheckout
  /\ Start(p, [Idle EXCEPT !.at = IF fresh THEN "mkdir" ELSE "catalog", !.src = src,
                           !.fresh = fresh, !.pin = pin])
  /\ UNCHANGED <<lock>> /\ UNCHANGED mirrorVars /\ UNCHANGED cloneVars /\ Upstream

(* _clone_fresh: mkdir claims the directory; a failed clone deletes what lies there, also when
   its own was deleted meanwhile and another command cloned there *)
Mkdir(p) ==
  /\ self[p].at = "mkdir"
  /\ IF tree.state = "absent" THEN tree' = [NoTree EXCEPT !.state = "empty"] /\ To(p, "clone")
                              ELSE End(p) /\ UNCHANGED tree
  /\ UNCHANGED <<src, swept, lock>> /\ UNCHANGED mirrorVars /\ Upstream /\ Still
Clone(p) ==
  /\ self[p].at = "clone"
  /\ \/ /\ ~IsCheckout
        /\ tree' = [NoTree EXCEPT !.state = "ok", !.head = remote, !.detached = self[p].pin]
        /\ To(p, "catalog") /\ Still /\ UNCHANGED swept
     \/ /\ tree' = NoTree /\ End(p) /\ swept' = (swept \/ SrcCatalogued)
        /\ IF IsCheckout THEN Still ELSE Fault
  /\ UNCHANGED <<src, lock>> /\ UNCHANGED mirrorVars /\ Upstream

(* _record_source, under the lock *)
Repins(p) == ~self[p].fresh /\ self[p].pin /\ ~src.pinned
Fenced(p) == self[p].fresh /\ src # self[p].src
Recordable(p) ==
  /\ ~Fenced(p) /\ SrcEligible(self[p].fresh, self[p].pin)
  /\ Repins(p) => IsCheckout /\ tree.edit # "dirty"
  /\ ~SrcCatalogued => IsCheckout      \* _upstream_of asks git
HeadOf(t) == IF t.edit = "ahead" THEN -1 ELSE t.head
Repinned(t) == [t EXCEPT !.head = remote, !.edit = "clean", !.detached = TRUE]
RecordSource(p) ==
  /\ self[p].at = "catalog" /\ lock = 0
  /\ LET t == IF Repins(p) THEN Repinned(tree) ELSE tree
         entry == IF SrcCatalogued /\ ~self[p].fresh /\ ~Repins(p) THEN src
                  ELSE [NoSrc EXCEPT !.added = IF SrcCatalogued THEN src.added ELSE remote,
                                     !.pinned = self[p].pin, !.head = HeadOf(t)]
     IN  \/ Recordable(p) /\ src' = entry /\ tree' = t /\ End(p) /\ Still
         \/ /\ Recordable(p) /\ entry # src /\ Fault /\ UNCHANGED src /\ tree' = t
            /\ IF self[p].fresh THEN To(p, "look") ELSE End(p)
         \/ /\ ~Recordable(p) /\ Still /\ UNCHANGED <<src, tree>>
            /\ IF self[p].fresh THEN To(p, "look") ELSE End(p)
  /\ UNCHANGED <<swept, lock>> /\ UNCHANGED mirrorVars /\ Upstream
RecordBusy(p) ==
  /\ Busy(p, "catalog") /\ Still
  /\ IF self[p].fresh THEN To(p, "look") ELSE End(p)
  /\ UNCHANGED <<lock>> /\ UNCHANGED mirrorVars /\ UNCHANGED cloneVars /\ Upstream

(* The clean-up of add_source looks and deletes without the lock *)
NeverCatalogued(p) == FALSE
CataloguedMeanwhile(p) == src # self[p].src
Look(p) ==
  /\ self[p].at = "look"
  /\ IF CataloguedMeanwhile(p) THEN End(p)
     ELSE self' = [self EXCEPT ![p].at = "rmtree", ![p].saw = src = self[p].src]
  /\ UNCHANGED <<lock>> /\ UNCHANGED mirrorVars /\ UNCHANGED cloneVars /\ Upstream /\ Still
Rmtree(p) ==
  /\ self[p].at = "rmtree" /\ End(p)
  /\ swept' = (swept \/ (self[p].saw /\ src # self[p].src))
  /\ tree' = NoTree
  /\ UNCHANGED <<src, lock>> /\ UNCHANGED mirrorVars /\ Upstream /\ Still

(* refresh_entry holds the lock to the end: skipped when dirty or off the branch *)
Refreshable == SrcCatalogued /\ ~src.pinned
Refresh(p) ==
  /\ Refreshable /\ TakeLock(p)
  /\ IsCheckout /\ tree.edit # "dirty" /\ ~tree.detached
  /\ Start(p, [Idle EXCEPT !.at = "pull"])
  /\ UNCHANGED mirrorVars /\ UNCHANGED cloneVars /\ Upstream
RefreshCheckout(p) ==
  /\ self[p].at = "pull" /\ Release(p) /\ End(p)
  /\ \/ UNCHANGED <<src, tree>> /\ Still      \* the fetch or the fast-forward fails, or no branch
     \/ /\ IsCheckout /\ tree.edit # "dirty"
        /\ LET t == IF tree.edit = "ahead" THEN tree ELSE [tree EXCEPT !.head = remote] IN
             /\ tree' = t
             /\ \/ src' = [src EXCEPT !.head = HeadOf(t), !.checked = TRUE,
                                      !.drifted = tree.edit = "ahead"] /\ Still
                \/ UNCHANGED src /\ Fault      \* rerunning records it
  /\ UNCHANGED swept /\ UNCHANGED mirrorVars /\ Upstream

(* _probe_source and its _apply *)
CheckSource(p) ==
  /\ SrcCatalogued /\ ~src.pinned /\ tree.state # "absent"
  /\ Start(p, [Idle EXCEPT !.at = "source", !.src = src, !.print = remote])
  /\ UNCHANGED <<lock>> /\ UNCHANGED mirrorVars /\ UNCHANGED cloneVars /\ Upstream
ApplySource(p) ==
  /\ self[p].at = "source" /\ lock = 0 /\ End(p)
  /\ src' = IF SrcCatalogued /\ Applicable(src, self[p].src)
            THEN [self[p].src EXCEPT !.checked = TRUE,
                                     !.drifted = self[p].src.head # self[p].print]
            ELSE src
  /\ UNCHANGED <<tree, swept, lock>> /\ UNCHANGED mirrorVars /\ Upstream /\ Still

RemoveSource(p) ==
  /\ SrcCatalogued /\ TakeLock(p) /\ src' = NoSrc
  /\ Start(p, [Idle EXCEPT !.at = "deletetree"])
  /\ UNCHANGED <<tree, swept>> /\ UNCHANGED mirrorVars /\ Upstream
DeleteTree(p) ==
  /\ self[p].at = "deletetree" /\ Release(p) /\ End(p)
  /\ \/ tree' = NoTree /\ Still
     \/ tree # NoTree /\ Fault /\ UNCHANGED tree
  /\ UNCHANGED <<src, swept>> /\ UNCHANGED mirrorVars /\ Upstream

----------------------------------------------------------------------------
(* A command ends because the lock is taken, or is killed *)
GiveUp(p) ==
  /\ \E at \in {"publish", "apply", "source"} : Busy(p, at)
  /\ End(p) /\ UNCHANGED lock /\ UNCHANGED mirrorVars /\ UNCHANGED cloneVars /\ Upstream /\ Still
Killed(p) ==
  /\ self[p].at # "idle" /\ Fault /\ End(p)
  /\ lock' = IF lock = p THEN 0 ELSE lock
  /\ UNCHANGED mirrorVars /\ UNCHANGED cloneVars /\ Upstream

(* The site, the repository and the person at the checkout *)
Move ==
  /\ count.move < MaxMoves /\ count' = [count EXCEPT !.move = @ + 1]
  /\ \/ site' = site + 1 /\ UNCHANGED <<remote, tree>>
     \/ remote' = remote + 1 /\ UNCHANGED <<site, tree>>
     \/ /\ tree.state = "ok" /\ UNCHANGED <<site, remote>>
        /\ \E e \in {"dirty", "ahead"} : tree' = [tree EXCEPT !.edit = e]
  /\ UNCHANGED <<src, swept, lock, self>> /\ UNCHANGED mirrorVars

Command(p) ==
  \/ PlanAdd(p) \/ PlanRefresh(p) \/ ProbeSeed(p) \/ \E pin \in BOOLEAN : AddSource(p, pin)
  \/ \E r \in Slots : Adopt(p, r)
  \/ Claim(p) \/ Crawl(p) \/ Discover(p) \/ WritePages(p) \/ WriteIndex(p) \/ Publish(p)
  \/ Displace(p) \/ Swap(p) \/ Record(p) \/ Sweep(p) \/ RemoveDocs(p) \/ DeleteMirror(p)
  \/ CheckDocs(p) \/ Inventory(p) \/ Page(p) \/ ApplyDocs(p)
  \/ Mkdir(p) \/ Clone(p) \/ RecordSource(p) \/ RecordBusy(p) \/ Look(p) \/ Rmtree(p)
  \/ Refresh(p) \/ RefreshCheckout(p) \/ CheckSource(p) \/ ApplySource(p)
  \/ RemoveSource(p) \/ DeleteTree(p) \/ GiveUp(p) \/ Killed(p)

Next == Move \/ \E p \in Proc : Command(p)

Spec == Init /\ [][Next]_vars

----------------------------------------------------------------------------
TypeOK ==
  /\ {docs.rev, mirror} \subseteq Slots \cup {0} /\ aside \subseteq Slots
  /\ lock \in Proc \cup {0} /\ \A p \in Proc : self[p].slot \in Slots \cup {0}

(* The revision an entry was written for is on disk, in place or displaced,
   whatever fails or is killed in the middle of a swap (ops.py, _commit_publish and _rolled_back;
   remove). *)
RevisionsKept == Catalogued => docs.rev = mirror \/ docs.rev \in aside

(* What is published was written by one crawl, and that crawl finished (docs_session.py,
   claim_staging_dir; copy_docs_to_markdown.py, output_dir_refusal and the order of the
   artifacts). *)
OneCrawl == Catalogued =>
  stage[docs.rev].state = "moved" /\ \E p \in Proc : stage[docs.rev].by = {p}

(* A catalogued clone is there, except after a clean-up that looked, or made the directory,
   before it was catalogued and deleted after (source.py, add_source and _clone_fresh). *)
CloneIsThere == SrcCatalogued /\ tree.state # "ok" => swept

LibraryHolds == RevisionsKept /\ OneCrawl /\ CloneIsThere

(* Drift is forgotten only with the revision or the checkout it was found for: no late answer of
   an older probe clears it (check.py, _apply and _probe_docs; source.py, _refresh_checkout). *)
DriftIsNotForgotten ==
  /\ docs.drifted /\ docs'.rev = docs.rev /\ docs'.added = docs.added => docs'.drifted
  /\ src.drifted /\ src'.head = src.head /\ src'.added = src.added =>
       src'.drifted \/ \E p \in Proc : self[p].at = "catalog" /\ self[p].fresh /\ src' # src
=============================================================================
