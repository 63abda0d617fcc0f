# Verification of perk

perk drives AI-assisted work from a plan to merged pull requests.  Its
*delivery* package (`src/src/perk/delivery`) publishes the layers of an
objective as a stack of branches, keeps the stack consistent while layers and
base move, and lands it.  Several machines may work on one objective.  They
share no local state: what they share is the Git remote, the checkpoint pairs in
the plan headers, and a journal of operations kept as issue comments.  Every
remote mutation is journaled first, so that any machine can conclude what
another one began.  That protocol is the heart of the program and of this
project.  Around it stand the issue stores that hold plans and objectives, the
launching of sessions in worktrees and of remote runs, the convergence of the
managed files, and two small locks; each has its module.

## Inventory

| Part | State it keeps | Operations | What makes it correct |
|---|---|---|---|
| Operation journal (`journal.py`) | comments on the carriers of a supersession chain | parse, fold, `latest_ready_stamp` | the verdict depends on the comments, not on their order; conclusions are final |
| Train persistence (`persistence.py`) | none of its own | `append_prepared`, `append_outcome`, `append_ready_stamp`, `write_checkpoints` | success means durable; one unresolved operation; retries never corrupt |
| Operation lock (`oplock.py`) | an flock per machine | acquire or refuse | one sync, recover or land per machine; submit takes no lock |
| Suffix synchronization (`sync.py`) | remote heads, checkpoint pairs | sync, `--base`, `--adopt`, submit cascade, resume | journal first; no foreign edit lost; a linear stack when quiet |
| Continuation (`continuation.py`, `sync.py`) | manifest, worktree, temp refs of a conflict | `--continue`, `--abort`, orphan sweep | what is continued is whole and linear; nothing else takes it away |
| Recovery (`recover.py`) | none of its own | report, roll forward, `--abandon`, prefix acceptance, sweep | abandons only what had no effect; concludes what did |
| Landing (`land*.py`, `landing.py`) | merge handle, landed prefix | admit, submit merge, poll, finalize | exactly the approved prefix lands; a lost handle is recoverable |
| Publication (`publish.py`) | branch, pull request, first checkpoints | publish, republish, resume; no lock | a checkpoint pair is true and journaled; no foreign commit lost, whatever overlaps |
| Transfer (`transfer.py`) | objective headers, carriers | transfer, roll forward | never two live successors; the predecessor is closed last |
| Train and status (`train.py`, `observe.py`, ...) | none | reconstruct, diagnose | a partial observation never hides work nor calls a node ready too early |
| Objective graph and planning (`objective/`, `cli/commands/plan`) | the roadmap in an issue body or a Linear project | select, claim, save, backlink, done, close | no second plan issue for a run; nothing closed that was not earned |
| Issue stores (`backends/`, `github/`) | issues, headers, attachments | create, update, comment, supersede, repair | reruns converge; nothing is created twice |
| Worktrees and launching (`run/`, `cli/commands/worktree`) | a checkout per plan, its markers | place, restore, setup, wipe | a session starts prepared; no commit is lost |
| Remote runs (`run/`, `objective run`) | workflow runs, run records | dispatch, report, list, cancel, retry | an active run is seen by those who look for it |
| Convergence (`convergence/`) | managed files, version pin, settings, skills | init, `doctor --fix` | a fixed point, never backward, user text kept |
| Owner lock, resolver lease (`extension/`) | lock directories | claim, take over, release | at most one live holder |
| Skill library (`library/`) | mirrors, clones, `catalog.json` | crawl, publish, adopt, check, refresh, remove | what is catalogued is on disk and whole; drift is not forgotten |
| Learned docs (`learn/docs_*.py`) | documents, registry, two generated files | docs-sync, docs-check | a sync settles; every document is routed once; text of people is kept |
| Node refinement (`objective/refinement`) | one marked comment per node | prepare, draft, save, deliver | a saved document is delivered; nobody's is replaced unseen |
| Dream (`learn/dream*.py`, `objective create`) | a manifest per run, an objective, report comments | gather, save, converge the report | the manifest is the commit it names; one open dream; a saved report is whole |
| Learning reports, command line, editor surfaces, developer tools | files, reports | various | sequential |

Components call each other in one direction: a command takes the machine lock
(sync, recover and land do, publication does not), reads the train, folds the journal through persistence, and acts through Git and
persistence.  Between machines nothing is called; they meet in the journal,
the refs and the plan headers.

The hard behaviours are: check-then-append on a journal without transactions;
requests that fail although they took effect, or take effect after their sender
gave up; commands that stop between any two remote effects; heads that are read
one at a time; arbitrary pauses at the approval prompt; whole-body
read-modify-write of a shared issue; owners that wake up after somebody else
concluded their operation; and people who push, merge, edit and delete by hand
all the while.  `PROJECT.json` lists them as hazards, each at its line.

## Modules

| Module | Models |
|---|---|
| `JournalFold` | `fold_events` and its accessors as operators over a sequence of comments, and the set-level meaning they are checked against |
| `JournalStream` | the comment stream: anything of a catalogue is posted, anybody may delete |
| `AppendLog` | abstract: what an append promises its caller |
| `TrainPersistence` | the three appends, their gates and the POST / rescan / retry loop, against a backend that loses, delays and duplicates |
| `StackSync` | synchronization, resume and recovery of one stack by processes of one or several machines |
| `StackSyncProofs` | theorems about `StackSync`: of every use, and of one machine under its lock |
| `LandingProofs`, `PublicationProofs`, `ContinuationProofs`, `TransferProofs` | theorems about `Landing`, `Publication`, `Continuation` and `Transfer` |
| `TrainPersistenceProofs` | theorems about the fold, the comment stream, and the append loop with its refinement of `AppendLog` |
| `LaunchProofs` | theorems about `Drive`, and as instances `Checkout`, `Library` and `Convergence` |
| `Continuation` | the retained conflict of a base cascade and the commands that go on from it |
| `Publication` | submits of layers and recoveries of their records, any number at once |
| `Transfer` | replanning into a successor objective, and the supersession chain |
| `Landing` | the asynchronous merge of a stack, finalization and recovery |
| `Train` | reconstruction of the train from partial observations, readiness, the doctor pass |
| `Planning` | two sessions that plan, save, finish and reset nodes on GitHub |
| `LinearStore` | an objective as a Linear project, its supersession and repair |
| `Checkout` | one plan's checkout: launch, restore, setup, wipe |
| `Drive` | remote runs of one plan, dispatched, reported, listed, cancelled, retried |
| `Packages` | the package list of the settings file |
| `Convergence` | init and `doctor --fix` of several perk versions over one checkout |
| `Library` | the documentation library: crawls, clones, probes, its catalog and lock |
| `LearnedDocs` | learned documents, cluster registry, the two generated files; docs-sync and docs-check among people who edit |
| `DreamDoor` | the doors that gather the learned documents into a manifest of one commit |
| `DreamReport` | the objective and the report comments a dream saves |
| `Refinement` | the refinement of a roadmap node as a marked comment: prepare, draft, guarded save, delivery |
| `OwnerLock`, `ClaimSpec` | the epochs of the owner lock, and the abstract claim it implements |
| `SessionProofs` | theorems about what sessions contend for: `Planning`, and as instances `LinearStore`, `OwnerLock`, `DreamReport` and `Refinement` |
| `ResolverLease` | the claim on a retained conflict, reclaimed by quarantine |

`MCStackSync`, `MCStackRaces`, `MCTransfer` and `MCContinuation` give one module
its instance.  `MCProtocols`, `MCParts`, `MCRaces` and `MCOneMachine` check several
components in one run, each by itself: the initial state picks the component
(`focus`), the variables of the others stay 0, and each property speaks of the
component it names.  What is shared by two components (`op`, `ref`, `pc`, ...) is
one variable there, only to keep the state small.

**JournalFold.**  A comment is a record of its key, its kind, its lineage, its
carrier, and a `text` that stands for the other bytes of the canonical payload.
Parsing and rendering are abstracted: two payloads are equal or they are not.
The sequence is the `(created_at, comment_id)` order that `fold_events` sorts
into.

**TrainPersistence.**  `pc[w]` follows `_post_and_verify`: `post`, `sent`,
`scan`.  The gates evaluate the fold in the same step in which they admit the
write, which is when the last comment page is read; the POST is a later step.
`Late` lets a request outlive its caller.  A caller that builds its record
anew gets a new timestamp; one that resubmits keeps it (`Stampable`).  One
carrier is modelled, so `append_outcome`'s routing to a predecessor's carrier is
not exercised; objective identity and lineage mismatches refuse before anything
happens and are left out.

**StackSync.**  A commit is `<<w, l>>`: the head layer `l` got from `w`, where
`w` is 0 (the published stack), an operation, or an out-of-band edit.  `ref` and
`cp` are the remote heads and the checkpoint pairs, `journal` the set of visible
comments (the fold's order-freedom is what `FoldIsOrderFree` checks), `rec` the
contents of prepared records.  `self[p]` holds what a command remembers between
remote calls: the train it read (`snap`, `base`), the heads it leases (`want`),
the observation it is making (`obs`, one layer per step), and its operation.
`pc` values are the steps of `_synchronize`, `_fresh`, `_execute`, `_resume` and
recover's `_conclude` and `_abandon`; `Own` lists their actions.  `Calculate`
stands for the affected set and `_calculate_candidates`: the trigger is the
lowest changed layer (layer 1 under `--base`), and a layer is rebased exactly
when its parent edge moved.  A rebase yields a new SHA.  Facts that only lead to
a refusal (pull request state, stack membership, ancestry, capability probes)
are error exits; `Stop` can take one at any point.  The append loop is
abstracted to one request, which `TrainPersistence` justifies: the fold cannot
tell a retry from its original.  `Clock` gives each record a timestamp, equal to
an earlier one of the same event (same second) or new.

**Continuation.**  The journal is shown only as far as it decides what the
commands may do.  `man`, `wt` and `tref` are the three things on disk that the
manifest speaks about, and each is written by its own step.  A commit is its own name
and its parent's; a name `<<maker, layer>>` says which operation or pusher made
it, and for which layer.

**Publication.**  "Publication itself acquires no operation lock" (`publish.py:8`),
and the lock of a recovery does not keep a submit out.  So each process of `Procs`
runs a command, `me[p]`, and any two overlap at every step.  A submit takes one
reconstruction of the train (`Reconstruct`), as the code takes it once, and each
later read is a step of its own: the fold, the branch, the parent, the pull request,
the gate of the journal, then the POST.  The abandonment is four: the branch
(`Resume`), pull request and stack (`AllBefore`), consent and both again for
recover, the fold of `append_outcome` (`Disown`), the POST (`Abandon`).  Two records
may be unresolved at once, and two outcomes of one record are corruption, which every
reader refuses.  The reconstruction itself is one observation.  Commit `<<n, m>>` is
the `n`-th made and contains the parent's `m`-th.  The pushed commit is the local
branch, not the recorded candidate, as in the code.  Two variables are not the
program's: `lost` collects the foreign commits that a republication overwrote, and
`crossed` the operations that were posted beside another one, pushed after they were
concluded or while somebody was about to disown them, pushed with another commit than
the recorded, or concluded twice.

**Transfer.**  Objectives are numbered in the order of their creation; `pred` of
a header, the carried plans and the carriers of the journal are separate
writes.  The depth cap is the constant `Cap`, 2 instead of 50; an objective
behind a longer chain cannot be read, so that neither a replan nor a recovery
goes on from it.

**Landing.**  A merge request outlives the command that sent it, merges layer by
layer, may be queued or refused half way, and its handle may be lost.  Only the
top head is pinned by the request.  People merge, push and close meanwhile.

**Train.**  Every definition of `reconstruct_train` that decides on membership,
order, parents, coverage and readiness is an operator over what was observed;
an observation may be missing.  The blockers are one operator per group of
checks (`JoinFindings`, `CheckpointFindings`, `BranchFindings`, `PrFindings`,
`StackFindings`).  The repair of a projected cancellation is a skip, a second
reconstruction and a revert.  One publication runs at a time here; overlapping ones
are in `Publication`.

**Planning.**  The roadmap is one value that every update reads and writes back
whole; that a later write may undo an earlier one is part of the model, and the
properties are those that hold all the same.  A node reset by hand is such an update
too: `Node` reads the body, `Reset` writes it back.  `Page` is the length of a page
of comments.

**LinearStore.**  Each remote write of a creation, a supersession, a carry, a
node update and a repair is a step, in the source's order.

**Checkout.**  A branch is the set of its commits.  The markers of a checkout
(plan reference, setup pending, pending learn) are separate writes.

**Drive.**  A run is in the listing some time after its request was accepted, and
the listing is asked for one status at a time.

**Packages**, **Convergence.**  An entry or a file is what perk wrote, which
version wrote it, and whether a person changed it.  A command reads the pin once
and writes file by file; two may overlap.

**Library.**  One mirror and one clone.  The catalog is written under a lock that
nobody waits for; crawls, clones, probes and the clean-up of a failed clone run
without it.  Each rename and each write may fail, and a killed command frees the
lock.  A clone that fails deletes the directory it was to fill, whatever lies there by
then (`_clone_fresh` says that it removes what this run created "and only that"): when
an entry whose clone is missing is removed during the clone, and added again, that is
the clone of another command.  `swept` marks this as it marks a late clean-up.

**LearnedDocs**.  A generated file is a sequence of pieces: the two markers,
regions between them, and what people wrote.  People edit documents, the
registry and the files between any two steps of a docs-sync, and two of these
may overlap.  The size of a block is counted in lines.

**Refinement**.  A comment is its markers and the document under them, which may
be decodable or not.  A save scans, writes and scans again; the tracker may answer
with a failure and apply the write later.  People edit, copy and delete comments,
and edit or plan nodes.

**DreamDoor**.  Every probe of the door is a step.  A document hidden from `git
status` (flagged or ignored) may differ from the commit when the door is opened.

**DreamReport**.  The parts of a report are comments that are compared by version.
A create or a POST may fail and land later; a save scans, posts what is missing
and scans again.

**OwnerLock**, **ResolverLease**.  File-system calls are atomic one by one; a
rename onto a directory that is there fails, except that an empty directory is
replaced.  A dead owner on another host cannot be told from a live one.  A stall
of more than a minute between the making of a lease directory and the writing of
its lease is excluded by the age guard of the code.

## Runs

| Run | Instance | Shows |
|---|---|---|
| `sync_one_machine` | `MCOneMachine`: 3 layers, 2 processes, all commands, 2 operations, 1 edit, 2 faults; `Publication` with 2 processes that submit and recover, 2 layers, 2 operations, 2 commits, 1 edit or 1 fault; `Packages` with 2 edits; `Convergence` with 2 processes, 2 versions, settings and pin, 1 skill, 3 commands, 1 event | `SerialJournal`, `AbandonedHadNoEffect`, `QuietStackIsLinear`; `CheckpointsAreTrue`, `CheckpointsAreEarned`, `ForeignCommitsSurvive`; `UserTextKept`, `ConvergesForward`, `FixesSuffice` |
| `sync_races` | `MCRaces`: 2 layers; one process with its own late requests, or two machines that race; `Drive` with 1 shell, 2 runs, 2 turns, 1 fault; `Refinement` with 2 sessions, 2 nodes, 3 contexts, 3 comments, 1 event; `DreamReport` with 2 runs, 2 parts, 2 versions, 2 saves, 1 fault, 1 event | `JournalFirst`, `CheckpointsPublished`, `EditsNotLost`; `RunsAreSeen`; `CommentsHold`, `AuthorSawIt` |
| `landing` | 2 layers, 2 operations, 1 edit, 1 fault, fairness | `LandedAsApproved`, `AbandonedNeverMerges`, `ClosedWithEvidence`, `Settles` |
| `protocols` | `MCProtocols`: publication (2 processes, 2 layers, 2 operations, 1 fault, until two commands cross), transfer (2 plans, 2 runs, 4 objectives, 2 operations), continuation (3 layers, 2 faults), Linear, one synchronizing process, two appending writers; fairness | what each protocol promises, `ProtocolsConclude`, and `ImplementsAppendLog` |
| `parts` | `MCParts`: fold (13 comments, streams of up to 4), one writer (2 operations, 5 calls), two writers with late requests, train (3 nodes), planning (2 nodes, 2 sessions), checkout (2 launches, 2 commits), library (2 processes, 2 staging slots, 3 commands, 2 faults, 1 move), learned docs (2 documents, 2 overlapping syncs, 1 edit), dream door (1 run, 2 documents, 2 edits), owner lock (3 processes, 2 of them on different hosts) | the invariants and action properties of the parts without fairness |
| `persist_race` | 2 writers, no late requests | *violation*: two unresolved operations |
| `sync_late_conclusion` | 1 process, late requests | *violation*: a repeated completion conflicts |
| `sync_residual` | 2 machines, no faults | *violation*: a residual push leaves no drift |
| `manifest_rewrite` | 3 layers, 1 fault | *violation*: a refused rewrite cannot be continued |
| `absence_proof` | `MCTransfer`: 3 objectives, 2 runs, 1 crash | *violation*: an operation whose successor exists is abandoned for its absence |
| `wipe` | no faults | *violation*: what is wiped was not merged |
| `lease` | `ResolverLease`: 2 sessions, 2 operations, 3 calls | *violation*: two claimants of one conflict |

Bounds.  Four comments reach every pair of rules of the fold, a duplicate and
a third party.  Two layers are the least that have a parent edge between
layers, three the least with an unaffected layer below and a rebased one above,
or with a conflict that has a layer on either side; two operations are one to
leave behind and one to run into it; two faults are one in the operation and one
in its recovery, and where one is allowed the recovery runs undisturbed.  An
edit is one out-of-band change anywhere, the base included; with an edit and a fault
in one behaviour `Publication` is three times as large, and fails in no other way.  Three objectives
make a chain longer than its cap, and a fourth is the second successor of one whose
first successor was replanned.  Two perk versions are an older and a newer
one; two commands overlap among the first and a third runs after them.  Symmetry
is used for interchangeable processes, in safety runs only.  Deadlock checking is
off where a model may reach its bounds and stop; `landing` and `protocols` keep
it on.

Fairness.  A started command keeps running (every Git and HTTP call has a
timeout), and remotes answer.  Nothing forces a comment to land: an append may
end with an ambiguous answer.  The operator reruns: `sync` as every refusal
message asks for, the submission of a layer, `recover` and, where that refuses,
its `--abandon` or the `--abort` of a conflict, the doctor of a Linear objective,
each strongly fair because a running command disables it
again and again (`Remedy`; in `Landing` the conclusion of each operation).
Faults and edits are bounded, not fair.  `ProtocolsConclude` makes no claim once
an out-of-band edit has left a protocol's refs mixed, where the code fails
closed and asks for a person, nor once two publications have crossed (below).

Assumed in `Landing`: a direct merge is answered, or lost with its connection,
before the next command starts, and no command spends more than a day between
its request and its last poll.

## What the violations mean

* `persist_race`: the one-unresolved gate is a fold followed by a POST.  Across
  machines it excludes nothing by itself; the readers cope with several
  unresolved operations, and push leases keep the refs safe (`EditsNotLost`).
* `sync_late_conclusion`: outcome records carry the second they were built in.
  A completed POST that was given up on and lands after the rerun folded the
  journal contradicts the rerun's record, and the lineage is unreadable from
  then on (`FoldOnlyHardens`).
* `sync_residual`: an owner that slept through another machine's abandon goes
  on to push, verify and write checkpoints.  Afterwards refs and checkpoints
  agree, so the drift check the comment relies on has nothing to see.
* `manifest_rewrite`: the rewrite for a later conflict fails after the worktree
  has advanced; the snapshot kept no longer describes it, and `--continue`, which
  the refusal names as the way on, refuses from then on.  `--abort` remains.
* `absence_proof`: the successor that an unresolved transfer is about is looked for
  among the open issues.  One session is interrupted after it created an
  incremental successor; another session replans that one, without a journal, and
  it is closed.  From then on the operation on the predecessor is abandoned because
  its successor is absent, and the predecessor gets a second one.  At most one of
  the two is open (`OneSuccessor`), but the journal says that nothing happened.
* `wipe`: a merged pull request is evidence for what it merged, not for what was
  committed to the branch after; both the local and the remote branch go.
* `lease`: session `a` holds the claim of an operation that is then consumed.  It
  acquires for the next one and has just read its own lease, which it is to rewrite in
  place (`resolverLease.ts:241`).  `b` judges the consumed claim reclaimable, renames it
  away, finds it unchanged and makes a fresh directory under the name.  The rewrite of
  `a` names the path, so it lands in the directory of `b`; `b` writes its own first
  lease over it.  Both were told that they hold the operation.

Each is quoted with its line under "findings" in `PROJECT.json`.

## Seen while modelling, true of the code, and not a run of its own

* The plan-body comment is looked for on the first page of comments only: a second
  save of an adopted issue with a full page posts another one, and the reader
  returns the first (`ReadPlanIsSaved` of `Planning` fails with `Page = 1`).
* Publication pushes the local branch rather than the recorded candidate.
* An abandonment between the last proof and the owner's push, or a push between that
  proof and the abandoned outcome, leaves a checkpoint whose operation was abandoned
  (`CheckpointsAreEarned` says that only a crossing does).  The next reconstruction calls
  it `checkpoint_after_abandoned_publish` (`train.py:1000`) and blocks.
* A submit whose reconstruction is older than the identity write of another one
  prepares a record that names no pull request; when it stops, the record is neither
  as before nor as after, and no command concludes it.  Two overlapping submits of an
  unpublished layer may take a head somebody pushed as the lease, because a first
  publication leases whatever it observes (`_observe_own_branch`);
  `ForeignCommitsSurvive` speaks of republications.
* A transfer at the depth cap makes a successor that can never be verified; a
  crash between the creation of an objective and the close of its predecessor is
  finished only by recovery; an incremental objective is converted to a stacked
  one outside the journal.
* An interrupted creation of a Linear objective between its header and its
  manifest loses the roadmap; a reopened project is completed again by the next
  nudge.
* Whole-body writes of the roadmap lose concurrent node updates; a late claim
  turns a finished node back to planning.
* One `doctor --fix` is not always enough: the settings are converged before the
  legacy configuration they depend on is migrated.  Two are (`FixesSuffice`).  The
  managed-state file records what perk wanted to write rather than what it
  found, and the pin is the fifth file to be written, so a newer init that stops
  before it lets an older perk converge backward.
* A crash between the plan reference and the setup marker of a new checkout skips
  its setup for good; `SessionIsPrepared` speaks of the checkouts not cut there (`cut`),
  so it is about setups that failed, not about that window.
* The clean-up of a failed `library add` looks at the catalog and deletes the
  clone without the lock, so a clone that another command catalogues in between
  is deleted (`CloneIsThere` excepts just that).  A command killed after the old
  mirror was displaced leaves an entry whose mirror is aside.  The baseline of a
  mirror is taken at its first check, which may be long after the crawl.
* docs-check looks for the end marker after the first begin marker, docs-sync for
  the first one anywhere: with an end marker above, the one says fresh and the
  other rewrites the file and makes it longer at each run.  A last cluster without
  members whose roll-up ends in a newline is never fresh.  A missing marker seeds
  the whole file anew, text of people included (`SyncSettles` and `UserTextKept`
  except these).
* The guarded update of a comment is no compare-and-swap, as its documentation
  says; a save whose request was reported as not landed may land later.  A broken
  family marker on the carrier makes the refinement of every node unreadable.
* A dream captures HEAD before it checks that the checkout is clean: a
  fast-forward by another door in between gives a manifest of the wrong commit
  (`ManifestIsCommit` excepts it).  An objective whose creation is cut before its
  body comment is found again and stays without one.  Two creations that overlap,
  or one that lands late, leave two open dreams (`OneDream` excepts them).

## Proofs

Every theorem holds for all values of the constants that satisfy the named
assumptions.  An invariant that a run checks is seldom inductive; the
strengthening is named with it below, and each was checked by TLC on a small
instance before it was proved.  There is one lemma per action and conjunct.

**Synchronization and recovery** (`StackSyncProofs`; any number of processes,
machines, layers, operations, faults and timestamps):

* `TypeCorrect`: `Spec => []TypeOK`.  The inductive part beyond typing is that a
  process past its candidates, or past routing, holds an operation; without it
  neither `rec[self[p].op]` nor the event a process appends is typed.
* `JournalFirstHolds`: `Spec => []JournalFirst`.  That pushes in flight or
  decided are recorded is not inductive by itself; the second conjunct says it
  of the processes about to push.  `JournalGrows` (comments are only added)
  carries both over every step, and `ReadBackRecorded` is the one place where a
  process earns its push.
* `NoEditLost`: `Spec => EditsNotLost`, an action property.  `WhoMovesRefs`
  reduces a moved head to the remote serving a push; the lease names the head
  that is replaced, and journal first makes the record durable.
* `OnlyPublishedHeads`: `Spec => []CheckpointsPublished`.  `AllPublished` adds
  what the records say (a layer that is not rebased keeps a published head) and
  what a process has seen: a head that it observed equal to its candidate was
  put there by its push, because nobody else ever makes that commit (`Minted`).
  That is the step from "I saw it" to "I published it" on which
  `_verify_and_finalize` rests, also when the owner was overtaken by another machine.

**What the operation lock is enough for** (the second half of `StackSyncProofs`).  The hypothesis
`LockIsEnough` says that all processes run on one machine and that no request
outlives its sender (`~ Late`); `sync_late_conclusion` and `sync_residual` show
that neither half can be dropped.  `LockKeepsJournalSerial`,
`LockKeepsAbandonedUndone` and `LockKeepsQuietStackLinear` prove `SerialJournal`,
`AbandonedHadNoEffect` and `QuietStackIsLinear` from one invariant, `Serial`.  Its
core is that the stack is always clean, or has exactly one unresolved operation
that has had no effect (`Fresh`) or all of it (`Done`), and that what the running
process observed still tells the two apart (`Seen`).  An out-of-band edit never
makes a commit that is known (`AllRecent`): a classification that finds a
candidate on the remote knows who put it there.

**Landing** (`LandingProofs`; no hypothesis beyond `Bounds`): `LandsAsApproved`,
`AbandonedIsDead`, `ClosesWithEvidence`, and `FinalizesVerified`, which no run
checks separately.  The invariant `Sound` says that an unresolved operation
approved the published heads and lies on top of the covered layers
(`Stacked`), that an abandoned or aged request is dead (`Dying`), and that what a
command read before it decides still proves what it is used for although people
merge, push and close meanwhile (`Tells`): a merged pull request stays what it
was, and where the evidence of the handle disproves the request, no layer that
was read open is ever merged by it.

**The journal fold** (`TrainPersistenceProofs`).  `FoldReadsTheSet`: for
every sequence of comments, the verdict of `fold_events` and its unresolved
operations are functions of the set of the comments.  The fold keeps the first
of a key; the proof takes the least index of the key and needs no induction over
the sequence.  From it `FoldStaysOrderFree`, `ConclusionsAreFinal`,
`ContradictionsStay` and `RestampsOvertakeNothing` prove what the run `parts`
checks of streams of four comments, for every catalogue and length.

**The append loop** (`TrainPersistenceProofs`; any number of writers, operations
and heads; `MaxCalls \in Nat`).  `SpecTyped` includes that no append sends a third
request.  `AppendsAsPromised` is the safety half of the refinement: the initial
states map to initial states of `AppendLog` and every step to one of its steps or
to a stutter; a duplicate that lands changes nothing there because the log is the
set of the comments, which `FoldReadsTheSet` justifies.  `OutcomesAreFounded`
proves `OnlyRacesCorrupt` from `Founded`: an outcome that may still land has its
prepared record already.  With one writer whose requests die with it
(`SoleWriter`), `OneWriterIsCoherent` and `OneWriterOneUnresolved` follow from
`Single`: the log stays settled even if the request in flight lands.
`persist_race` shows that the hypothesis is needed.

**Publication** (`PublicationProofs`; any set of processes, with no lock between
them; `N`, `MaxOps`, `MaxLocal`, `MaxEdits` naturals, nothing of `MaxFaults`):

* `PairsAreTrue`: `Spec => []CheckpointsAreTrue`.  Since anything may happen between two
  steps of a command, the invariant `Inv` gives each command only what no other can take
  away (`Sound`): its candidate, the parent that it found the candidate to contain, and
  a record that has its layer and its candidate.  Records change in their state only,
  and a header is never withdrawn, so `Sound` of a command survives every step of the
  others (`SoundStays`), and a pair written from it is true whoever concluded the
  record meanwhile.
* `NoForeignCommitLost`: `Spec => []ForeignCommitsSurvive`.  A republication leases the
  checkpoint it read when it started; no checkpoint, no local commit and no candidate
  is foreign; and the lease goes into the record, from which a later command pushes.
* `PublicationTyped`: `Spec => []TypeOK`.

That a pair is *earned* (`CheckpointsAreEarned`) is model-checked only: it relates what one
command proved to the push of another.

**Continuation** (`ContinuationProofs`; every number of layers from 1, of
operations, and of edits, faults and interrupted commands):

* `SuffixIsLinear`: `Spec => []JournaledSuffixIsLinear`.  A record says only what
  its job held when it was written, so the invariant follows the job from one
  holder to the next: `Working(j, k)` is a running command with `k` candidates, each
  at its temp ref; `Stopped(j, k)` is a manifest, in which the next layer may have
  its edge but no candidate, and then the worktree stands on that layer.  The step
  from `Stopped` back to `Working` is where a resolution made by hand in between,
  a rewritten manifest and a candidate ref that is gone have to be told apart.
* `RetainedStaysWhole`: `Spec => []RetainedIsWhole`, of the states before the first
  failed write or crash, as the invariant says.
* `ConcludesOnce`: a concluded operation is never prepared or concluded again, also
  when its manifest outlives it.  It says of every step what the gate of
  `append_prepared` is there for, and no run checks it separately.
* `ContinuationTyped`: `Spec => []TypeOK`.

**Transfer** (`TransferProofs`; any number of plans, runs, objectives, operations,
edits and crashes, and whatever requests over existing plans; `Cap` and the bounds
on edits and faults are not even assumed to be numbers):

* `OneLiveSuccessor`: `Spec => []OneSuccessor`.  No two open successors is not
  inductive: `Reserved` says what an open successor of a stacked objective is
  known by, the stamp of its predecessor or an unresolved operation of its run;
  `OneEach` that a predecessor has one unresolved operation; `Made` that the stamp
  and that operation agree; `Apart` that a run has one open objective.  None of it is
  about the lock: the journal and the run ids do it.
* `LineageNeverForks`: `Spec => []LineageUnforked`.
* `Superseding`: `Spec => [][SupersededLast]_vars`.  The stamp is written long after
  the plans were re-owned.  `Has` carries what was verified to the step that relies
  on it, `Prefix` that every objective keeps the published plans (a request that
  drops one is refused at its preflight), `Aims` and `Holds` that the command still
  works on the objective and under the operation it read.
* `TypeCorrect`: `Spec => []TypeOK`.  That a lineage has one unresolved operation is
  false beyond the instance that was checked at first: two objectives of a chain
  may each have one.  So `TypeOK` says it of each predecessor.

The attempt to prove a stronger `OneSuccessor`, which counted closed successors too,
failed at the abandonment of an operation: its hypothesis, that an absent
successor was never made, is what `absence_proof` refutes.

**Planning** (`SessionProofs`; every set of positive node ids, every `Deps`, every
set of run ids without 0, every page size and all bounds):

* `ClosesWhenEarned`: `Spec => []ClosedWasEarned`.  A whole-body write can take a
  node's status back, so it is not the roadmap that says what has been done.
  `Earned` says that the terminal nodes of every roadmap, the stored one and each
  that a session read and still holds, have been earned, which is what a
  completeness judged on a stale list rests on.
* `OneOpenPlan`: `Spec => []OnePlanPerRun`.  `Owned` says which run a plan issue can
  carry: the human's issue only that of a session that adopted it, any other
  only that of a session that selected a node and never adopts.  An adopting save
  and a creating one can therefore not put the same run on two issues.
* `PlanningTyped`: `Spec => []TypeOK`.  Comments grow by one behind the end or are
  replaced (`PutInv`); the smallest of the plan bodies exists
  (`SmallestMember`, from the well-foundedness of the naturals).

**The Linear store** (`SessionProofs`; any number of crashes, node operations and
changes by hand; `MaxEdits \in Nat`):

* `NodeIdsStayUnique`: `Spec => []NodeIdsUnique`.  A node's issue exists before it
  carries its node id, so uniqueness is not inductive.  `OneStamp` says it of the
  issue about to be stamped: nothing else of its project carries that id, and id 1 of
  a successor whose transfer is unverified belongs to the carried issue only.  `Fresh`
  and `Waiting` say where no issue, or none with a higher id, exists yet, which a
  creation that is not convergent relies on; and `Course` how far the command has come.
  `mended` is the exception that the property names: the doctor recreates the nodes
  of a successor whose transfer was cut, and the transfer then moves the carried
  issue beside the recreated one.
* `CarriedIssueSurvives`: `Spec => []CarriedSurvives`.  Dropped issues are canceled by
  their project, and the carried issue was moved out of it before the first
  cancellation (`Moved`, held by every step from there on; nobody deletes the issue).
* `StoreTypeCorrect`: `Spec => []TypeOK`.  Node ids stay below `2 + edits` (`Counted`).

**The owner lock** (`SessionProofs`; every set of processes, relation of who
can see whose death, and number of epochs):

* `OwnerExclusive`: `Spec => []OneOwner`.  Exclusion is not inductive: the
  strengthening says that a holder's epoch is the highest or was seen to be dead
  or released, and what a contender has judged of the epoch below the one it is
  about to take.
* `OwnerLockIsClaim`: the lock implements `ClaimSpec`, in which a claim is taken
  only while nobody holds it.

**The dream report** (`SessionProofs`; every set of runs and all bounds;
`Parts \in Nat`):

* `OneDreamOpen`: `Spec => []OneDream`.  The guard looks before it creates, so what is
  inductive counts the objective, the creation and the late request for one together
  (`Lone`): as long as no guard looked during another creation there is one of the three.
* `ReportsAreWhole`: `Spec => []ReportIsWhole`.  `Fit` says which parts a save that nobody
  disturbed has put on its objective or seen there, at every step and for every number of
  parts; nothing but a person takes a part away, so it stays true of late requests and
  of saves of other versions.
* `ReportTypeCorrect`: `Spec => []TypeOK`.

**Node refinements** (`SessionProofs`; every set of sessions and of nodes without 0,
and all bounds):

* `ReplacesWhatWasSeen`: `Spec => [][AuthorSawIt]_vars`.  A draft of the present context
  is what the context says (`Bound`), and a save at work expects what its draft does
  (`Pledged`).
* `RefinementsAreSafe`: `Spec => []RefinementHolds`.  A request names a comment by its id
  and overwrites whatever is there.  `Aimed` says that this is still a comment of its node
  or one broken since, so that no write of one node replaces the record of another;
  `Watched` says which session is about to look at a second record; `Stands` that what was
  saved is the only record of its node, until people edit a comment or some node has two.
  The attempt showed that the ghost of `AmbiguityIsTold` was too coarse: a late request of
  a session that was already verifying its save of another node counted as awaited.  With
  two comments that could not happen; it now compares the documents, and the run has three
  comments.
* `RefinementTypeCorrect`: `Spec => []TypeOK`.

**Remote drive** (`LaunchProofs`; any shells, retries and faults; `MaxRuns \in Nat`).
`ActiveRunsAreSeen`: `Spec => []RunsAreSeen`.  The invariant speaks of the moments
between the remote calls.  `Half` says what the first call of the writer observation
leaves to the second: a run that was active and was not seen queued has started,
which is why the order of the two statuses matters; `Calm` says that a pass that
could see every active run when it looked still knows of each that may open the pull
request, and rests on a run being listed before it starts and on the number of a run
being used once (`Numbered`).

**Checkout** (`LaunchProofs`; every number of commits, launches, faults and moves):

* `SessionsArePrepared`: `Spec => []SessionIsPrepared`.  What a session may rely on is
  spread over three marks: that the checkout is bound, that its setup is pending and
  that it was ready.  `Setups` relates them at each step of a launch.
* `WorkStays`: `Spec => [][WorkIsKept]_vars`.  A restore forwards to what it read
  before, so `Foresight` says that this is still an extension of what is there, and
  `HeldExists` that git keeps a branch that a checkout holds.
* `CheckoutTyped`: `Spec => []TypeOK`, with the commits of every branch among those
  made (`Bounded`).

**Library** (`LaunchProofs`; any set of positive numbers as staging directories and as
commands; nothing is assumed of the bounds):

* `LibraryIsWhole`: `Spec => []LibraryHolds`.  A revision is on disk because of what the
  command in the middle of a publication knows: `Swapping` says that what it displaced is
  still aside until it has recorded the new one or moved the old one back, `Whole` that
  whatever lies in the mirror, aside or in the catalog was moved there complete.  That
  one crawl wrote it needs `Claimed`, no two crawls in one staging directory, and
  `Crawled`, what that directory holds at each step of its crawl.  `Cleaning` says for
  the clone which commands may still delete it, and `Locked` that whoever moves or
  records something holds the lock.
* `DriftIsRemembered`: `Spec => [][DriftIsNotForgotten]_vars`.  The versions that are
  served only grow (`Versions`), so a probe that finds no drift was sent before the
  drift was found, or saw the version the entry is at; `ProbeInv` says that a probe of a
  drifted entry, at whatever step, still observes a version other than the recorded one,
  or the version it was sent for, and `Applicable` drops its answer when the entry changed
  meanwhile.
  A missing clone that is cloned again is the exception that the property names.
* `LibraryTypeCorrect`: `Spec => []TypeOK`.

The attempt to prove this showed that the step that fetches a branch shared its name with
a step of a crawl, and that a failed clone can delete a catalogued one; the model has both
right now.

**Convergence** (`LaunchProofs`; any commands, skills and files in any order; assumed, as
`PinFile`, is that versions are positive numbers and that the pin is one of the files):

* `FixesAreEnough`: `Spec => []FixesSuffice`.  `Progress` says how far a run of the fixes
  that nobody disturbed has come: what the checks found is still to be written, then the
  files are as desired, then the configuration is at its new place.  Moving it changes
  what the settings should be, so after one run they may be all that is left
  (`OnceFixed`); the second run starts with the configuration in place, moves nothing, and
  its files stay as they are.  `Tidy` carries this over whatever else may happen between
  two runs by the same version, with any number of them at once.
* `TextIsKept`: `Spec => [][KeepsText]_vars`, from `Seeding`: a command about to seed a
  template has seen no configuration at the old place, and none can have come meanwhile.
* `NoneGoesBackward`: `Spec => [][NeverBackward]_vars`, from `Undisturbed`: a command that
  nobody interfered with is the only one, and the pin is not above its version.
* `ConvergenceTypeCorrect`: `Spec => []TypeOK`.

Only model-checked: liveness (`Settles`, `ProtocolsConclude`) and the fairness
half of `ImplementsAppendLog`, which need `ENABLED` and are beyond the prover; and
`CheckpointsAreEarned`, and the invariants of `Train`, `LearnedDocs`, `DreamDoor` and
`Packages`.  Those of `Train` rest on the order of the graph, a
recursive function, and those of `DreamDoor` on a sorted sequence of lanes: both need
induction over data, which the prover cannot instantiate.  `OneClaimant` of
`ResolverLease` is false (run `lease`).  No module with a theorem uses
`RECURSIVE`, and the fold is stated with quantifiers over indices, as its meaning.

## What the properties leave out

Where a property names an exception, it is no evidence for the case it excepts:

* `SessionIsPrepared`: checkouts whose launcher died before it left the setup marker (`cut`).
* `ConvergesForward`: commands that another one overlaps (`alone`), and an init that stopped
  before it wrote the pin; so it says that the admission check is enough for an
  undisturbed command, and no more.
* `CloneIsThere` (`DocsHold`): clones that a late clean-up deleted (`swept`).
* `CommentsHold`: a document whose save met a late request or an edit (`surprised`), and
  reports whose creations overlapped or landed late (`crowded`).
* `RetainedIsWhole`: states after a failed write or a crash; there `ProtocolsConclude` says only
  that the conflict can be got rid of.
* `ClosedWasEarned`: a node that was done once counts as earned, also when it was reset
  between the read and the close.
* `KeepsTheirs` (`UserTextKept`): packages that have more than one entry.
* `OnePlanPerRun`: a create request that lands after its caller gave up and asked again
  (`save_cmd.py:497`).
* `OneSuccessor` and `SupersededLast`: what is beyond the depth cap.
* `DocsHold`, of learned documents: files with unpaired markers, and text written after
  docs-sync read the file.

## Not modelled

* Parsing and rendering of comments, headers, YAML fences and bodies: two
  payloads are equal or they are not.
* Facts that only lead to a refusal before anything happened (capability probes,
  missing credentials, malformed arguments).
* The learning reports, prompts, the command
  line, editor surfaces and developer tools: sequential I/O, with no state shared
  between actors, whose results are text.
* The v2 kernel beside its owner lock, and the worktree lock beside the resolver
  lease.
* What becomes of a layer whose parent branch was deleted with its merge: `Train`
  deletes the branch and never starts the layer.
* The seeding of an existing configuration anew by `init --force`: `Convergence` has init
  without it.

Next to prove: `CheckpointsAreEarned`.
