----------------------------- MODULE Convergence -----------------------------
(***************************************************************************)
(* perk init and perk doctor --fix over one checkout (convergence/).  Both *)
(* write the managed files toward the desired state of the perk that runs, *)
(* file by file, and a team runs several versions of perk.  Each command   *)
(* reads the version pin once, long before it writes the last file, and    *)
(* may stop between any two writes; two commands may run at once; people   *)
(* edit files, repair and break skills, and check out commits meanwhile.   *)
(***************************************************************************)
EXTENDS Integers, Sequences, FiniteSets

CONSTANTS Proc,        \* commands that run at a time
          Versions,    \* perk versions, a set of positive integers
          Files,       \* the managed files in the order they are converged
          Skills,      \* skills authored in the repository
          MaxCommands, MaxEvents,
          MaxBefore    \* bounds: an overlapping command is among the first events

\* "pin" is one of the Files; version 0 stands for an absent file.

VARIABLES have,       \* what each managed file holds
          recorded,   \* .perk/managed-state.toml: what perk last claims to have written
          config, legacy,   \* .perk/config.toml and its predecessor under .pi/
          skill, fragment, delivered,   \* authored skills, their manifest, the links
          ext,        \* installed extension version, 0 when absent
          self,       \* the commands
          calm,       \* ghost: completed undisturbed fixes in a row, and by which version
          n           \* commands and events so far

vars == <<have, recorded, config, legacy, skill, fragment, delivered, ext, self, calm, n>>
local == <<config, legacy, skill, fragment, delivered, ext>>

FileSet == {Files[i] : i \in DOMAIN Files}
Absent == <<0, "absent">>
Edited == <<0, "edited">>
Choices == {"default", "mine"}      \* what a configuration selects
(* What perk v writes to f: only the settings depend on the configuration *)
Made(f, v, c) == <<v, IF f = "settings" THEN c ELSE "any">>
Selected == IF config = "none" THEN "default" ELSE config
Desired(f, v) == Made(f, v, Selected)
Pinned == have["pin"][1]            \* 0: no pin, or none that parses

Idle == [at |-> "idle", cmd |-> "", v |-> 0, todo |-> {}, fix |-> {}, alone |-> TRUE,
         admitted |-> 0, skip |-> FALSE, failed |-> FALSE]

(* The verdicts of classify_artifact *)
Verdict(f, v) ==
  CASE have[f] = Absent -> "not-installed"
    [] have[f] # Absent /\ have[f] = Desired(f, v) -> "up-to-date"
    [] have[f] \notin {Absent, Desired(f, v)} /\ recorded[f] = Absent -> "state-missing"
    [] have[f] \notin {Absent, Desired(f, v)} /\ recorded[f] = have[f] -> "changed-upstream"
    [] OTHER -> "locally-modified"

Good == {s \in Skills : skill[s] = "good"}
Bad == {s \in Skills : skill[s] = "bad"}
FragmentWanted == IF Bad # {} THEN fragment ELSE Good

(* Checks of doctor that --fix can act upon *)
ManagedFails(v) == {f \in FileSet : have[f] # Desired(f, v)}
ConfigFails == config = "none"
ExtensionFails(v) == ext # v
RepoSkillsFail == Bad # {} \/ fragment # Good
Healthy(v) ==
  /\ ManagedFails(v) = {} /\ ~ConfigFails /\ ~ExtensionFails(v)
  /\ \A f \in FileSet : Verdict(f, v) = "up-to-date" /\ recorded[f] = have[f]
  /\ Bad = {} => ~RepoSkillsFail /\ Good \subseteq delivered

Init ==
  /\ have \in [FileSet -> {Absent}] /\ recorded = [f \in FileSet |-> Absent]
  /\ config \in {"none", "mine"} /\ legacy \in {"none", "mine"}
  /\ skill \in [Skills -> {"none", "good"}] /\ fragment = {} /\ delivered = {} /\ ext = 0
  /\ self = [p \in Proc |-> Idle] /\ calm = [v |-> 0, k |-> 0] /\ n = [cmd |-> 0, event |-> 0]

----------------------------------------------------------------------------
(* Commands.  p is at a step and moves on; every step writes at most one file. *)
Go(p, at) == self' = [self EXCEPT ![p].at = at]
Others(p) == {q \in Proc \ {p} : self[q].at # "idle"}
Disturb == [p \in Proc |-> [self[p] EXCEPT !.alone = FALSE]]

NoRefusal(v) == FALSE
WriteRefusal(v) == Pinned > v

(* run_init / run_doctor up to the first write: admission on the pin, the legacy refusal of
   init, the checks of doctor *)
Start(p, v, cmd) ==
  /\ self[p].at = "idle" /\ n.cmd < MaxCommands
  /\ Others(p) = {} \/ n.cmd + n.event <= MaxBefore
  /\ ~WriteRefusal(v)
  /\ cmd = "init" => config # "none" \/ legacy = "none"
  /\ n' = [n EXCEPT !.cmd = @ + 1]
  /\ self' = [(IF Others(p) = {} THEN self ELSE Disturb) EXCEPT
       ![p] = [at |-> IF cmd = "init" THEN "files" ELSE "ext", cmd |-> cmd, v |-> v,
               todo |-> IF cmd = "init" THEN FileSet ELSE ManagedFails(v),
               fix |-> {c \in {"config", "ext"} :
                          \/ cmd = "init"
                          \/ c = "config" /\ ConfigFails
                          \/ c = "ext" /\ ExtensionFails(v)},
               alone |-> Others(p) = {}, admitted |-> Pinned, skip |-> FALSE, failed |-> FALSE]]
  /\ calm' = IF cmd = "fix" /\ calm.v = v THEN calm ELSE [v |-> 0, k |-> 0]
  /\ UNCHANGED <<have, recorded>> /\ UNCHANGED local

(* One managed convergence: the next file of the order that is to be done *)
Converge(p) ==
  /\ self[p].at = "files"
  /\ IF self[p].todo = {}
     THEN Go(p, IF "config" \in self[p].fix THEN "look" ELSE "migrate") /\ UNCHANGED have
     ELSE \E i \in DOMAIN Files :
            /\ Files[i] \in self[p].todo
            /\ \A j \in 1..i - 1 : Files[j] \notin self[p].todo
            /\ have' = [have EXCEPT ![Files[i]] = Desired(Files[i], self[p].v)]
            /\ self' = [self EXCEPT ![p].todo = @ \ {Files[i]}]
  /\ UNCHANGED <<recorded, calm, n>> /\ UNCHANGED local

(* converge_config: a template is seeded once, and never beside an unmigrated predecessor *)
LookAtConfig(p) ==
  /\ self[p].at = "look"
  /\ self' = [self EXCEPT ![p].at = "seed", ![p].skip = config # "none"]
  /\ UNCHANGED <<have, recorded, calm, n>> /\ UNCHANGED local
LookConfig(p) ==
  /\ self[p].at = "look"
  /\ self' = [self EXCEPT ![p].at = "seed", ![p].skip = config = "none" /\ legacy # "none"]
  /\ UNCHANGED <<have, recorded, calm, n>> /\ UNCHANGED local

SeedConfig(p) ==
  /\ self[p].at = "seed"
  /\ config' = IF ~self[p].skip /\ config = "none" THEN "default" ELSE config
  /\ Go(p, IF self[p].cmd = "init" THEN "record" ELSE "migrate")
  /\ UNCHANGED <<have, recorded, legacy, skill, fragment, delivered, ext, calm, n>>

(* _migrate_legacy_config: moved, removed when identical, left alone when they differ *)
MigrateBeside(p) ==
  /\ self[p].at = "migrate"
  /\ IF legacy # config THEN UNCHANGED <<config, legacy>>
     ELSE config' = legacy /\ legacy' = "none"
  /\ Go(p, "skills")
  /\ UNCHANGED <<have, recorded, skill, fragment, delivered, ext, calm, n>>
Migrate(p) ==
  /\ self[p].at = "migrate"
  /\ IF legacy = "none" \/ config \notin {"none", legacy} THEN UNCHANGED <<config, legacy>>
     ELSE config' = legacy /\ legacy' = "none"
  /\ Go(p, "skills")
  /\ UNCHANGED <<have, recorded, skill, fragment, delivered, ext, calm, n>>

(* record_managed_state: what is desired now, whatever the files hold *)
Record(p) ==
  /\ self[p].at = "record"
  /\ recorded' = [f \in FileSet |-> Desired(f, self[p].v)]
  /\ Go(p, IF self[p].cmd = "init" THEN "skills" ELSE "recheck")
  /\ UNCHANGED <<have, calm, n>> /\ UNCHANGED local

(* converge_repo_skills_manifest: with any error the manifest stays as it is *)
ConvergeSkills(p) ==
  /\ self[p].at = "skills"
  /\ \E resolved \in BOOLEAN :   \* gh is asked, and may not resolve the repository
       /\ Good = {} \/ Bad # {} => resolved
       /\ fragment' = IF resolved THEN FragmentWanted ELSE fragment
       /\ self' = [self EXCEPT ![p].at = "sync", ![p].failed = @ \/ ~resolved]
  /\ UNCHANGED <<have, recorded, config, legacy, skill, delivered, ext, calm, n>>

(* sync_skills: the skills CLI replaces the links by what the manifests name.  Its failure ends
   init and is an error line of doctor. *)
SyncSkills(p) ==
  /\ self[p].at = "sync"
  /\ \/ /\ delivered' = fragment
        /\ Go(p, IF self[p].cmd = "init" THEN "ext" ELSE "record")
     \/ /\ UNCHANGED delivered
        /\ self' = IF self[p].cmd = "init" THEN [self EXCEPT ![p] = Idle]
                   ELSE [self EXCEPT ![p].at = "record", ![p].failed = TRUE]
  /\ UNCHANGED <<have, recorded, config, legacy, skill, fragment, ext, calm, n>>

(* materialize_extension_install, under its file lock; an npm failure is not fatal *)
InstallExtension(p) ==
  /\ self[p].at = "ext"
  /\ \E works \in BOOLEAN :
       /\ "ext" \notin self[p].fix => works
       /\ ext' = IF works /\ "ext" \in self[p].fix THEN self[p].v ELSE ext
       /\ IF self[p].cmd = "init" THEN self' = [self EXCEPT ![p] = Idle]
          ELSE self' = [self EXCEPT ![p].at = "files", ![p].failed = @ \/ ~works]
  /\ UNCHANGED <<have, recorded, config, legacy, skill, fragment, delivered, calm, n>>

(* The checks run again and the report is printed *)
Recheck(p) ==
  /\ self[p].at = "recheck"
  /\ calm' = IF ~self[p].alone \/ self[p].failed THEN [v |-> 0, k |-> 0]
             ELSE [v |-> self[p].v, k |-> IF calm.v = self[p].v THEN calm.k + 1 ELSE 1]
  /\ self' = [self EXCEPT ![p] = Idle]
  /\ UNCHANGED <<have, recorded, n>> /\ UNCHANGED local

(* Killed; the user starts over *)
Stop(p) ==
  /\ self[p].at # "idle" /\ self' = [self EXCEPT ![p] = Idle]
  /\ n.event < MaxEvents /\ n' = [n EXCEPT !.event = @ + 1]
  /\ UNCHANGED <<have, recorded, calm>> /\ UNCHANGED local

Command(p) ==
  \/ \E v \in Versions, cmd \in {"init", "fix"} : Start(p, v, cmd)
  \/ Converge(p) \/ LookConfig(p) \/ SeedConfig(p) \/ Migrate(p) \/ Record(p)
  \/ ConvergeSkills(p) \/ SyncSkills(p) \/ InstallExtension(p) \/ Recheck(p) \/ Stop(p)

----------------------------------------------------------------------------
(* Around the commands *)
Event ==
  /\ n.event < MaxEvents /\ n' = [n EXCEPT !.event = @ + 1]
  /\ self' = Disturb /\ calm' = [v |-> 0, k |-> 0]

EditFile(f) ==
  /\ Event /\ have[f] \notin {Absent, Edited} /\ have' = [have EXCEPT ![f] = Edited]
  /\ UNCHANGED recorded /\ UNCHANGED local

ChangeSkill(s) ==
  /\ Event /\ \E x \in {"none", "good", "bad"} \ {skill[s]} : skill' = [skill EXCEPT ![s] = x]
  /\ UNCHANGED <<have, recorded, config, legacy, fragment, delivered, ext>>

(* A commit is checked out that perk v converged; the configuration may be of either layout.
   It does not fall between two of the calls that converge_config makes in a row. *)
CheckOut(v) ==
  /\ Event /\ \A p \in Proc : self[p].at # "seed"
  /\ \E c \in Choices, old \in BOOLEAN :
       /\ config' = (IF old THEN "none" ELSE c) /\ legacy' = (IF old THEN c ELSE "none")
       /\ have' = [f \in FileSet |-> Made(f, v, c)] /\ recorded' = have'
  /\ UNCHANGED <<skill, fragment, delivered, ext>>

Next ==
  \/ \E p \in Proc : Command(p)
  \/ \E f \in FileSet : EditFile(f)
  \/ \E s \in Skills : ChangeSkill(s)
  \/ \E v \in Versions : CheckOut(v)

Spec == Init /\ [][Next]_vars

----------------------------------------------------------------------------
TypeOK ==
  /\ have \in [FileSet -> {Absent, Edited} \cup (Versions \X (Choices \cup {"any"}))]
  /\ config \in Choices \cup {"none"} /\ legacy \in Choices \cup {"none"}
  /\ fragment \subseteq Skills /\ delivered \subseteq Skills /\ ext \in Versions \cup {0}
  /\ \A p \in Proc : self[p].todo \subseteq FileSet

(* Two complete and undisturbed runs of doctor --fix by one version leave nothing to fix, from
   whatever state they start: half converged, edited, on the old layout (doctor/__init__.py,
   run_doctor).  One run is not enough: the settings are converged before the configuration they
   depend on is migrated. *)
FixesSuffice == calm.k >= 2 => Healthy(calm.v)

(* What people wrote stays in force: no command shadows a configuration that is still at its old
   place, moves or drops another text than it had, or withdraws a skill from the manifest while
   any authored skill does not parse (init/templates.py, converge_config; doctor/fixes.py,
   _migrate_legacy_config; init/repo_skills.py, converge_repo_skills_manifest). *)
ByCommand == n'.event = n.event
KeepsText ==
  ByCommand =>
    /\ config # config' => config = "none" /\ (legacy # "none" => config' = legacy)
    /\ legacy # legacy' => config' = legacy
    /\ ~(fragment \subseteq fragment') => Bad = {}

(* A command nobody interfered with never writes below the version it found pinned, so a file of
   a newer perk is converged backward only when its pin had not been written yet or two commands
   overlapped (write_admission.py: "a perk that is not the one this checkout expects converges
   them backward"). *)
NeverBackward ==
  ByCommand =>
    \A f \in FileSet : have'[f] # have[f] =>
      \E p \in Proc : /\ self[p].at = "files" /\ self[p].v = have'[f][1]
                      /\ self[p].alone => Pinned <= have'[f][1]
=============================================================================
