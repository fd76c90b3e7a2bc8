-------------------------- MODULE ProjectDeploy --------------------------
(***************************************************************************)
(* deploy() of src/mc_states/modules/mc_project_2.py: the steps of a       *)
(* deployment, what guarded_step makes of their failures, and the rollback *)
(* of the working copy.  Deployments follow each other (DeployHook keeps   *)
(* them apart), each in a salt-call of its own that may die at any step.   *)
(*                                                                         *)
(* The working copy is abstracted to the revision it holds and to what has *)
(* been done to it since; the archive of deployment d holds a copy of it,  *)
(* and after a rollback a copy of what has failed.                         *)
(***************************************************************************)
EXTENDS Integers, FiniteSets, Functions

CONSTANTS
  MaxDeploys,   \* bound: how many deployments
  MaxCrashes,   \* bound: how many of them die
  KeepArchives, \* keep_archives of the configuration
  Requests      \* what users ask for: [only |-> a set of steps, skip |-> a set of steps]

Steps == {"deploy", "archive", "release_sync", "install", "rotate_archives", "rollback",
          "fixperms", "notify"}

ASSUME ParametersAssumption ==
  /\ MaxDeploys \in Nat /\ MaxCrashes \in Nat /\ KeepArchives \in Nat
  /\ Requests \subseteq [only : SUBSET Steps, skip : SUBSET Steps]

VARIABLES
  env,          \* cfg['default_env']
  d,            \* the deployment in progress, or the last one
  pc,           \* its next step
  skip,         \* the steps its configuration skips (cfg['skip_...'])
  wc,           \* the content of project_root
  archives,     \* the archives of the deployments that have one
  result,       \* ret['result']
  flag,         \* cfg['rollback']
  outcome,      \* ret['result'] as deploy() saves it before fixperms
  message,      \* what the notification has said
  prior,        \* history: project_root when the deployment began
  failures,     \* history: the steps of the deployment that have failed
  crashes,
  good,         \* history: what the last installation that succeeded has left in project_root
  whole         \* history: every request so far has been Whole

vars == <<env, d, pc, skip, wc, archives, result, flag, outcome, message, prior, failures,
          crashes, good, whole>>

Deployments == 1..MaxDeploys

States == {"none", "partial", "synced", "broken", "installed"}
Contents == [rev : 0..MaxDeploys, state : States]
NoProject == [rev |-> 0, state |-> "none"]       \* project_root does not exist
Exists == wc # NoProject

Archive == [project : Contents, failed : Contents]

PCs == {"archive", "modules", "release_sync", "modules2", "install", "rotate_archives",
        "rollback", "fixperms", "notify", "done", "dead"}

TypeOK ==
  /\ env \in {"dev", "prod"}
  /\ d \in 0..MaxDeploys
  /\ pc \in PCs
  /\ skip \subseteq Steps
  /\ wc \in Contents
  /\ DOMAIN archives \subseteq Deployments
  /\ \A a \in DOMAIN archives : archives[a] \in Archive
  /\ {result, outcome} \subseteq {"ok", "failed"}
  /\ flag \in {"no", "yes"}
  /\ message \in {"none", "deployed", "rollbacked"}
  /\ prior \in Contents
  /\ failures \subseteq PCs
  /\ crashes \in 0..MaxCrashes
  /\ good \in Contents
  /\ whole \in BOOLEAN

\* a project that has never been deployed, or one whose revision 0 is installed
Init ==
  /\ env \in {"dev", "prod"}
  /\ d = 0 /\ pc = "done" /\ skip = {}
  /\ wc \in {NoProject, [rev |-> 0, state |-> "installed"]}
  /\ archives = [a \in {} |-> NoProject]
  /\ result = "ok" /\ flag = "no" /\ outcome = "ok" /\ message = "none"
  /\ prior = wc /\ failures = {} /\ crashes = 0
  /\ good = wc /\ whole = TRUE

-----------------------------------------------------------------------------
\* the skip flags of _prepare_configuration: `only` runs what it names and nothing else
Skipped(r) == IF r.only = {} THEN r.skip ELSE Steps \ (r.only \cup {"deploy"})

\* mutants of RollbackUnlessDev: the override that guarded_step has in a comment ("rollback =
\* True"), and the environments mixed up
RollbackAlways == "yes"
RollbackInDev == IF Exists /\ env = "dev" THEN "yes" ELSE "no"

\* guarded_step's own argument, for the steps that are called with rollback=True
RollbackUnlessDev == IF Exists /\ env = "dev" THEN "no" ELSE "yes"

Goto(p) == pc' = p

\* a step has failed: the ones before rollback are passed over
Fail(f) ==
  /\ result' = "failed"
  /\ failures' = failures \cup {pc}
  /\ flag' = f
  /\ Goto("rollback")

\* a request that leaves the safety net up: it archives before it changes the working copy,
\* and removes no archive without an installation
Whole(r) ==
  \/ "deploy" \in Skipped(r)
  \/ /\ "archive" \notin Skipped(r) \/ {"release_sync", "install"} \subseteq Skipped(r)
     /\ "install" \notin Skipped(r) \/ "rotate_archives" \in Skipped(r)

\* get_configuration: a new process starts with a configuration of its own
Begin ==
  /\ pc \in {"done", "dead"} /\ d < MaxDeploys
  /\ \E r \in Requests :
       /\ skip' = Skipped(r)
       /\ whole' = (whole /\ Whole(r))
       /\ Goto(IF "deploy" \in Skipped(r) THEN "done" ELSE "archive")
  /\ d' = d + 1
  /\ result' = "ok" /\ flag' = "no" /\ outcome' = "ok" /\ message' = "none"
  /\ prior' = wc /\ failures' = {}
  /\ UNCHANGED <<env, wc, archives, crashes, good>>

\* a step that its configuration skips, or that has no reason to run
Skip ==
  /\ \/ pc = "archive" /\ ("archive" \in skip \/ ~Exists) /\ Goto("modules")
     \/ pc = "release_sync" /\ pc \in skip /\ Goto("modules2")
     \/ pc = "install" /\ pc \in skip /\ Goto("rotate_archives")
     \/ pc = "rotate_archives" /\ pc \in skip /\ Goto("rollback")
  /\ UNCHANGED <<env, d, skip, wc, archives, result, flag, outcome, message, prior, failures,
                 crashes, good, whole>>

AddArchive(content) ==
  archives' = [a \in DOMAIN archives \cup {d} |->
                 IF a = d THEN [project |-> content, failed |-> NoProject] ELSE archives[a]]

\* archive.sls
ArchiveDone ==
  /\ pc = "archive" /\ "archive" \notin skip /\ Exists
  /\ AddArchive(wc)
  /\ Goto("modules")
  /\ UNCHANGED <<env, d, skip, wc, result, flag, outcome, message, prior, failures, crashes,
                 good, whole>>

\* mutant of ArchiveFails: the deployment goes on without an archive
ArchiveFailureIgnored ==
  /\ pc = "archive" /\ "archive" \notin skip /\ Exists
  /\ failures' = failures \cup {pc}
  /\ Goto("modules")
  /\ UNCHANGED <<env, d, skip, wc, archives, result, flag, outcome, message, prior, crashes,
                 good, whole>>

\* guarded_step is called without rollback=True: the flag stays down
ArchiveFails ==
  /\ pc = "archive" /\ "archive" \notin skip /\ Exists
  /\ AddArchive([wc EXCEPT !.state = "partial"]) \/ UNCHANGED archives
  /\ Fail("no")
  /\ UNCHANGED <<env, d, skip, wc, outcome, message, prior, crashes, good, whole>>

\* sync_modules, before and after release_sync
ModulesDone ==
  /\ \/ pc = "modules" /\ Goto("release_sync")
     \/ pc = "modules2" /\ Goto("install")
  /\ UNCHANGED <<env, d, skip, wc, archives, result, flag, outcome, message, prior, failures,
                 crashes, good, whole>>

ModulesFail ==
  /\ pc \in {"modules", "modules2"}
  /\ Fail(RollbackUnlessDev)
  /\ UNCHANGED <<env, d, skip, wc, archives, outcome, message, prior, crashes, good, whole>>

\* init_project and reload_cfg
ReleaseDone ==
  /\ pc = "release_sync" /\ pc \notin skip
  /\ wc' = [rev |-> d, state |-> "synced"]
  /\ Goto("modules2")
  /\ UNCHANGED <<env, d, skip, archives, result, flag, outcome, message, prior, failures,
                 crashes, good, whole>>

\* "New project config has errors, will rollback": in every environment
ReleaseFails ==
  /\ pc = "release_sync" /\ pc \notin skip
  /\ wc' \in {wc} \cup [rev : {d}, state : {"partial", "synced"}]
  /\ Fail("yes")
  /\ UNCHANGED <<env, d, skip, archives, outcome, message, prior, crashes, good, whole>>

\* the slses of the project, all of them successful
InstallDone ==
  /\ pc = "install" /\ pc \notin skip /\ Exists
  /\ wc' = [wc EXCEPT !.state = "installed"]
  /\ good' = wc'
  /\ Goto("rotate_archives")
  /\ UNCHANGED <<env, d, skip, archives, result, flag, outcome, message, prior, failures,
                 crashes, whole>>

\* mutant of InstallFails: only the last sls counts
InstallFailureIgnored ==
  /\ pc = "install" /\ pc \notin skip /\ Exists
  /\ wc' = [wc EXCEPT !.state = "broken"]
  /\ Goto("rotate_archives")
  /\ UNCHANGED <<env, d, skip, archives, result, flag, outcome, message, prior, failures,
                 crashes, good, whole>>

\* mutant of InstallFails: the archives are rotated after a failure as well
InstallFailsThenRotates ==
  /\ pc = "install" /\ pc \notin skip
  /\ wc' \in {wc} \cup (IF Exists THEN [rev : {wc.rev}, state : {"broken", "installed"}] ELSE {})
  /\ result' = "failed" /\ failures' = failures \cup {pc} /\ flag' = RollbackUnlessDev
  /\ Goto("rotate_archives")
  /\ UNCHANGED <<env, d, skip, archives, outcome, message, prior, crashes, good, whole>>

\* an sls fails, there is none, the installer is missing; or the nested sync_modules fails,
\* after which the slses run all the same
InstallFails ==
  /\ pc = "install" /\ pc \notin skip
  /\ wc' \in {wc} \cup (IF Exists THEN [rev : {wc.rev}, state : {"broken", "installed"}] ELSE {})
  /\ Fail(RollbackUnlessDev)
  /\ UNCHANGED <<env, d, skip, archives, outcome, message, prior, crashes, good, whole>>

\* sorted(os.listdir(archives_root)): their names begin with the date; archives[-0:] is all
Older(a) == {b \in DOMAIN archives : b < a}
ToKeepOneMore == {a \in DOMAIN archives :      \* mutant of ToKeep
                    KeepArchives = 0 \/ Cardinality(DOMAIN archives \ Older(a)) < KeepArchives + 2}
ToKeep == {a \in DOMAIN archives :
             KeepArchives = 0 \/ Cardinality(DOMAIN archives \ Older(a)) <= KeepArchives}

RotateDone ==
  /\ pc = "rotate_archives" /\ pc \notin skip
  /\ archives' = Restrict(archives, ToKeep)
  /\ Goto("rollback")
  /\ UNCHANGED <<env, d, skip, wc, result, flag, outcome, message, prior, failures, crashes,
                 good, whole>>

\* the oldest ones go first: those before the archive where it stops
RotateUpTo(a) == archives' = Restrict(archives, DOMAIN archives \ Older(a))

\* it stops at an archive it cannot remove; the exception becomes a result
RotateFails ==
  /\ pc = "rotate_archives" /\ pc \notin skip
  /\ \E a \in DOMAIN archives \ ToKeep : RotateUpTo(a)
  /\ Fail(flag)
  /\ UNCHANGED <<env, d, skip, wc, outcome, message, prior, crashes, good, whole>>

\* rollback.sls keeps a copy of what has failed and restores the archive, if there is one
RollsBack == flag = "yes" /\ Exists /\ "rollback" \notin skip

Rollback ==
  /\ pc = "rollback" /\ RollsBack
  /\ IF d \in DOMAIN archives
     THEN /\ archives' = [archives EXCEPT ![d].failed = wc]
          /\ wc' = archives[d].project
     ELSE UNCHANGED <<archives, wc>>
  /\ outcome' = result
  /\ Goto("fixperms")
  /\ UNCHANGED <<env, d, skip, result, flag, message, prior, failures, crashes, good, whole>>

NoRollback ==
  /\ pc = "rollback" /\ ~RollsBack
  /\ outcome' = result
  /\ Goto("fixperms")
  /\ UNCHANGED <<env, d, skip, wc, archives, result, flag, message, prior, failures, crashes,
                 good, whole>>

\* guarded_step for a step whose failure stops nothing: a state that fails leaves the flag
\* alone, an exception nobody expected puts it down (its argument is rollback=False)
FailLightly ==
  /\ result' = "failed"
  /\ failures' = failures \cup {pc}
  /\ flag' \in {flag, "no"}

RollbackFails ==
  /\ pc = "rollback" /\ RollsBack
  /\ wc' = wc \/ (d \in DOMAIN archives /\ wc' = [wc EXCEPT !.state = "broken"])
  /\ FailLightly
  /\ outcome' = "failed"
  /\ Goto("fixperms")
  /\ UNCHANGED <<env, d, skip, archives, message, prior, crashes, good, whole>>

FixpermsPasses ==      \* done, or skipped
  /\ pc = "fixperms"
  /\ Goto("notify")
  /\ UNCHANGED <<env, d, skip, wc, archives, result, flag, outcome, message, prior, failures,
                 crashes, good, whole>>

FixpermsFails ==
  /\ pc = "fixperms" /\ pc \notin skip
  /\ FailLightly
  /\ Goto("notify")
  /\ UNCHANGED <<env, d, skip, wc, archives, outcome, message, prior, crashes, good, whole>>

\* notify.sls looks at cfg['rollback']
Announcement ==
  IF "notify" \in skip THEN message
  ELSE IF flag = "yes" THEN "rollbacked" ELSE "deployed"

\* mutant of Notify: the saved result is forgotten
NotifyKeepsResult ==
  /\ pc = "notify"
  /\ message' = Announcement
  /\ Goto("done")
  /\ UNCHANGED <<env, d, skip, wc, archives, result, flag, outcome, prior, failures, crashes,
                 good, whole>>

\* the notification, and the result that deploy() had saved
Notify ==
  /\ pc = "notify"
  /\ message' = Announcement
  /\ result' = outcome
  /\ Goto("done")
  /\ UNCHANGED <<env, d, skip, wc, archives, flag, outcome, prior, failures, crashes, good,
                 whole>>

NotifyFails ==
  /\ pc = "notify" /\ pc \notin skip
  /\ failures' = failures \cup {pc}
  /\ flag' \in {flag, "no"}
  /\ result' = outcome
  /\ Goto("done")
  /\ UNCHANGED <<env, d, skip, wc, archives, outcome, message, prior, crashes, good, whole>>

\* the salt-call dies (deploy_hook kills it, the machine stops) before or within a step
Crash ==
  /\ pc \notin {"done", "dead"} /\ crashes < MaxCrashes
  /\ crashes' = crashes + 1
  /\ Goto("dead")
  /\ \/ UNCHANGED <<wc, archives>>
     \/ pc = "archive" /\ pc \notin skip /\ Exists
        /\ AddArchive([wc EXCEPT !.state = "partial"]) /\ UNCHANGED wc
     \/ pc = "release_sync" /\ pc \notin skip
        /\ wc' \in [rev : {d}, state : {"partial", "synced"}] /\ UNCHANGED archives
     \/ pc = "install" /\ pc \notin skip /\ Exists
        /\ wc' = [wc EXCEPT !.state = "broken"] /\ UNCHANGED archives
     \/ pc = "rotate_archives" /\ pc \notin skip
        /\ \E a \in DOMAIN archives \ ToKeep : RotateUpTo(a)
        /\ UNCHANGED wc
     \/ pc = "rollback" /\ RollsBack /\ d \in DOMAIN archives
        /\ wc' = [wc EXCEPT !.state = "broken"] /\ UNCHANGED archives
  /\ UNCHANGED <<env, d, skip, result, flag, outcome, message, prior, failures, good, whole>>

Next ==
  \/ Begin \/ Skip
  \/ ArchiveDone \/ ArchiveFails
  \/ ModulesDone \/ ModulesFail
  \/ ReleaseDone \/ ReleaseFails
  \/ InstallDone \/ InstallFails
  \/ RotateDone \/ RotateFails
  \/ Rollback \/ NoRollback \/ RollbackFails
  \/ FixpermsPasses \/ FixpermsFails
  \/ Notify \/ NotifyFails
  \/ Crash

Spec == Init /\ [][Next]_vars
-----------------------------------------------------------------------------
(* What a deployment promises *)

\* Whatever has become of the working copy, and wherever the deployment has stopped or
\* died, what was there when it began can be recovered: the archive of the deployment is
\* complete before anything is touched, and no rotation removes it (deploy archives first
\* and goes no further without it).
PriorIsArchived ==
  wc # prior /\ prior # NoProject /\ "archive" \notin skip
    => d \in DOMAIN archives /\ archives[d].project = prior

\* A failed deployment of a production project leaves the working copy as it was, unless
\* the rollback fails too or has been switched off (usage.md: "if error, rollback
\* procedure (by default sync from `archived` folder").
\* rotate_archives is the exception: deploy() calls it without rollback=True.
FailedDeploymentRestores ==
  pc = "done" /\ result = "failed" /\ env = "prod" /\ prior # NoProject =>
     \/ skip \cap {"archive", "rollback"} # {}
     \/ failures \cap {"rollback", "rotate_archives"} # {}
     \/ wc = prior

\* The result of a deployment is a failure exactly when one of its steps has failed, of the
\* ones that count: fixperms and notify do not ("notifications should not modify the result
\* status even failed"), and a rollback that works does not make a success of it.
ResultTellsFailures ==
  pc = "done" => (result = "failed") = (failures \ {"fixperms", "notify"} # {})

\* A success of a whole deployment means that the revision that has been pushed is the one
\* installed: no earlier content, and nothing half done.
SuccessIsInstalled ==
  pc = "done" /\ d > 0 /\ result = "ok" =>
     \/ skip \cap {"deploy", "release_sync", "install"} # {}
     \/ wc = [rev |-> d, state |-> "installed"]

\* A successful deployment leaves at most keep_archives archives, and its own among them:
RotationKeepsTheLast ==
  pc = "done" /\ d > 0 /\ result = "ok" /\ KeepArchives > 0 =>
     \/ skip \cap {"deploy", "archive", "rotate_archives"} # {}
     \/ /\ Cardinality(DOMAIN archives) <= KeepArchives
        /\ prior = NoProject \/ d \in DOMAIN archives

\* In dev, where the working copy is edited in place, only a release_sync that has failed
\* makes a deployment restore an archive over it (guarded_step: "in non editable modes, set
\* the rollback project flag"; deploy itself raises the flag after release_sync).
DevKeepsFailures ==
  [][env = "dev" /\ pc = "rollback" /\ wc' # wc => "release_sync" \in failures]_vars

\* notify.sls, "Project ... has been deployed !": of a deployment that has succeeded.
NotificationIsTrue == message = "deployed" => outcome = "ok"

\* Whatever failures and crashes the deployments since have met, what the last successful
\* installation left is in place or in an archive (deploy rotates after an installation only).
GoodIsRecoverable ==
  whole /\ good # NoProject => wc = good \/ \E a \in DOMAIN archives : archives[a].project = good
=============================================================================
