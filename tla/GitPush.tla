----------------------------- MODULE GitPush -----------------------------
(***************************************************************************)
(* The bare repository of a project and its hooks pre-receive,             *)
(* post-receive and pre-push (src/files/projects/2/hooks), with what a     *)
(* deployment does to that repository: it pulls master into the working    *)
(* copy and pushes the working copy back (init_project).                   *)
(*                                                                         *)
(* Pushes of users are 1, 2, ...; push p brings commit p.  Push -p is the  *)
(* one that the deployment of push p does from the working copy.  Each is  *)
(* a receive-pack process that runs the hooks.  post-receive runs          *)
(* deploy_hook.py, of which this module knows what Singleton promises and  *)
(* how it exits; the salt-call it launches goes on by itself (dep), so the *)
(* hook may be over before its deployment is.                              *)
(***************************************************************************)
EXTENDS Integers, FiniteSets

CONSTANTS
  MaxPushes,    \* bound: how many pushes users do
  Topics,       \* those of them to another branch than master
  Unlucky,      \* bound: those of them whose deploy_hook.py may meet with a mishap
  MaxOverlaps   \* bound: how many of them begin while another is in progress

ASSUME ConstantsAssumption ==
  /\ MaxPushes \in Nat /\ Topics \subseteq 1..MaxPushes /\ Unlucky \subseteq 1..MaxPushes
  /\ MaxOverlaps \in Nat

Users == 1..MaxPushes
Pushes == Users \cup {-p : p \in Users}
Commits == 0..MaxPushes         \* 0 is what is deployed in the beginning
NoCommit == -1                  \* an empty file
Refs == Commits \cup {NoCommit}

VARIABLES
  master,       \* refs/heads/master of the bare repository
  curcom,       \* the file hooks/curcom
  marker,       \* the file hooks/force_marker
  pc,           \* where each push is
  old, new,     \* the master it was told of, the commit it brings
  cid,          \* the commit that its post-receive reverts to
  history,      \* the ancestors of a commit
  dep,          \* where the deployment of each push is
  wc,           \* the commit of the working copy
  prior,        \* the working copy before the deployment in progress: the archive
  running, ran, \* Singleton's
  orphan,       \* a process of a killed deploy_hook.py is left: its multiprocessing manager
  deployed,     \* history: the commit of the last deployment that has succeeded
  interrupted,  \* history: how many deployments have ended with the marker in place
  overlaps,     \* history: how many pushes have begun while another was in progress
  astray        \* history: the pushes that were accepted or reverted without regard to what
                \* became of their deployment, since the last that was accepted for it

repo == <<master, curcom, marker>>
data == <<old, new, cid, history>>
salt == <<dep, wc, prior, running, ran, orphan>>
past == <<deployed, interrupted, overlaps, astray>>
vars == <<repo, pc, data, salt, past>>

Deploy == INSTANCE Singleton WITH Hooks <- Pushes

Final == {"refused", "authorized", "accepted", "reverted"}
Hooked == {"hook", "wait"}      \* running deploy_hook.py: looking for others, then waiting
PCs == Final \cup Hooked \cup
       {"idle", "pre", "fill", "update", "post", "rmmarker", "cid", "revert"}
Deploying == {"pull", "connect", "touch", "send", "pushing", "clear", "rest"}
Over == {"done", "failed"}
Deps == Deploying \cup Over \cup {"none"}

AtRest ==
  /\ \A q \in Pushes : pc[q] \in Final \cup {"idle"}
  /\ \A p \in Users : dep[p] \notin Deploying

TypeOK ==
  /\ {master, curcom} \subseteq Refs /\ {wc, prior, deployed} \subseteq Commits
  /\ marker \in {"absent", "present"}
  /\ pc \in [Pushes -> PCs] /\ dep \in [Users -> Deps]
  /\ {old, cid} \subseteq [Pushes -> Refs] /\ new \in [Pushes -> Commits]
  /\ history \in [Refs -> SUBSET Commits]
  /\ running \in SUBSET Users /\ Cardinality(running) <= 1
  /\ orphan \in BOOLEAN
  /\ interrupted \in 0..MaxPushes
  /\ overlaps \in 0..MaxOverlaps
  /\ astray \subseteq Users

Init ==
  /\ master = 0 /\ curcom = 0 /\ marker = "absent" /\ wc = 0
  /\ pc = [q \in Pushes |-> "idle"] /\ dep = [p \in Users |-> "none"]
  /\ old = [q \in Pushes |-> 0] /\ new = [q \in Pushes |-> 0] /\ cid = [q \in Pushes |-> 0]
  /\ history = [c \in Refs |-> {c} \ {NoCommit}]
  /\ Deploy!SInit
  /\ prior = 0 /\ orphan = FALSE
  /\ deployed = 0 /\ interrupted = 0 /\ overlaps = 0 /\ astray = {}

Goto(q, p) == pc' = [pc EXCEPT ![q] = p]

-----------------------------------------------------------------------------
(* receive-pack and its hooks                                              *)

\* A user connects with a commit made on the master that the server advertises; they connect
\* in the order of their numbers, which says nothing of the order of what follows.
Connect(p) ==
  /\ pc[p] = "idle" /\ \A q \in 1..(p - 1) : pc[q] # "idle"
  /\ Goto(p, "pre")
  /\ old' = [old EXCEPT ![p] = master]
  /\ new' = [new EXCEPT ![p] = p]
  /\ history' = [history EXCEPT ![p] = history[master] \cup {p}]
  /\ \/ AtRest /\ UNCHANGED overlaps
     \/ ~AtRest /\ overlaps < MaxOverlaps /\ overlaps' = overlaps + 1
  /\ UNCHANGED <<repo, cid, salt, deployed, interrupted, astray>>

\* pre-receive, "output last commit before sync to restore it in post receive": the shell
\* empties the file,
PreReceive(q) ==
  /\ pc[q] = "pre"
  /\ curcom' = NoCommit
  /\ Goto(q, "fill")
  /\ UNCHANGED <<master, marker, data, salt, past>>

\* mutant of FillCurcom: nothing is saved
SavesNothing(q) ==
  /\ pc[q] = "fill"
  /\ Goto(q, "update")
  /\ UNCHANGED <<repo, data, salt, past>>

\* and fills it with the last commit of HEAD, if there is one
FillCurcom(q) ==
  /\ pc[q] = "fill"
  /\ curcom' = master
  /\ Goto(q, "update")
  /\ UNCHANGED <<master, marker, data, salt, past>>

\* git moves a reference only from the value it has advertised, and not one that it cannot read
Update(q) ==
  /\ pc[q] = "update"
  /\ IF q \in Topics THEN UNCHANGED master
     ELSE master = old[q] /\ master # NoCommit /\ master' = new[q]
  /\ Goto(q, "post")
  /\ UNCHANGED <<curcom, marker, data, salt, past>>

Refuse(q) ==
  /\ pc[q] = "update" /\ q \notin Topics /\ (master # old[q] \/ master = NoCommit)
  /\ Goto(q, "refused")
  /\ UNCHANGED <<repo, data, salt, past>>

\* mutant of PostReceive: every branch is deployed
DeployEveryBranch(q) ==
  /\ pc[q] = "post"
  /\ Goto(q, IF marker = "present" THEN "rmmarker" ELSE "hook")
  /\ UNCHANGED <<repo, data, salt, past>>

\* post-receive: "Pushing from local copy, authorized"; or a push to master, which is deployed;
\* or one to another branch, whose ret is still "1"
PostReceive(q) ==
  /\ pc[q] = "post"
  /\ Goto(q, IF marker = "present" THEN "rmmarker"
             ELSE IF q \notin Topics THEN "hook" ELSE "cid")
  /\ UNCHANGED <<repo, data, salt, past>>

RemoveMarker(q) ==
  /\ pc[q] = "rmmarker"
  /\ marker' = "absent"
  /\ astray' = astray \cup ({q} \cap (Users \ Topics))
  /\ Goto(q, "authorized")
  /\ UNCHANGED <<master, curcom, data, salt, deployed, interrupted, overlaps>>

\* "Reverting to ${cid}": cat, then echo
ReadCurcom(q) ==
  /\ pc[q] = "cid"
  /\ cid' = [cid EXCEPT ![q] = curcom]
  /\ Goto(q, "revert")
  /\ UNCHANGED <<repo, old, new, history, salt, past>>

Revert(q) ==
  /\ pc[q] = "revert"
  /\ master' = cid[q]
  /\ Goto(q, "reverted")
  /\ UNCHANGED <<curcom, marker, data, salt, past>>
-----------------------------------------------------------------------------
(* deploy_hook.py                                                          *)

\* what makes it give up: another one, that waits or that looks around as well; a salt-call for
\* this project, its hook's or one that has outlived it; the manager of a killed one
Found(q) ==
  \/ orphan
  \/ \E r \in Pushes \ {q} : pc[r] \in Hooked
  \/ \E p \in Users : dep[p] \in Deploying

\* mutant of DeployBegins: whatever is running
BeginsAnyway(q) ==
  /\ pc[q] = "hook"
  /\ running' = running \cup {q} /\ ran' = ran \cup {q}
  /\ dep' = [dep EXCEPT ![q] = "pull"]
  /\ Goto(q, "wait")
  /\ UNCHANGED <<repo, data, wc, prior, orphan, past>>

DeployBegins(q) ==
  /\ pc[q] = "hook" /\ ~orphan
  /\ Deploy!Begin(q)
  /\ dep' = [dep EXCEPT ![q] = "pull"]
  /\ Goto(q, "wait")
  /\ UNCHANGED <<repo, data, wc, prior, orphan, past>>

\* mutant of DeployRejected: the hook waits for its turn
DeployWaits(q) == pc[q] = "hook" /\ Found(q) /\ UNCHANGED vars

\* exit 128
DeployRejected(q) ==
  /\ pc[q] = "hook" /\ Found(q)
  /\ Goto(q, "cid")
  /\ UNCHANGED <<repo, data, salt, past>>

\* the hook reports how its salt-call has ended
HookEnds(q) ==
  /\ q \in Users /\ pc[q] = "wait"
  /\ \/ dep[q] = "done" /\ Goto(q, "accepted") /\ astray' = {}
     \/ dep[q] = "failed" /\ Goto(q, "cid") /\ UNCHANGED astray
  /\ UNCHANGED <<repo, data, salt, deployed, interrupted, overlaps>>

\* it exits with an error wherever its salt-call is: after a timeout (127), an exception (126)
\* or a kill -9 of main, which leaves the manager behind.  The salt-call goes on.
HookFails(q) ==
  /\ q \in Unlucky /\ pc[q] = "wait"
  /\ orphan' \in {orphan, TRUE}
  /\ astray' = astray \cup {q}
  /\ Goto(q, "cid")
  /\ UNCHANGED <<repo, data, dep, wc, prior, running, ran, deployed, interrupted, overlaps>>

\* it exits 0 wherever its salt-call is: "we continue the deployment in background" after a
\* Ctrl-C, or END is read before the result of a deployment that has failed
HookDetaches(q) ==
  /\ q \in Unlucky /\ pc[q] = "wait"
  /\ astray' = astray \cup {q}
  /\ Goto(q, "accepted")
  /\ UNCHANGED <<repo, data, salt, deployed, interrupted, overlaps>>

\* it has launched no salt-call: it is interrupted before, or its worker fails, which may go
\* unnoticed as well
HookLaunchesNothing(q) ==
  /\ q \in Unlucky /\ pc[q] = "hook"
  /\ \/ Goto(q, "cid") /\ orphan' \in {orphan, TRUE} /\ UNCHANGED astray
     \/ Goto(q, "accepted") /\ UNCHANGED orphan /\ astray' = astray \cup {q}
  /\ UNCHANGED <<repo, data, dep, wc, prior, running, ran, deployed, interrupted, overlaps>>

Mishap(q) == HookFails(q) \/ HookDetaches(q) \/ HookLaunchesNothing(q)
-----------------------------------------------------------------------------
(* the salt-call, and what it does to the repository                       *)

Dep(p, s) == dep' = [dep EXCEPT ![p] = s]

\* fetch_last_commits and sync_working_copy: git pull, then reset --hard where they differ
Pull(p) ==
  /\ dep[p] = "pull" /\ master # NoCommit
  /\ prior' = wc
  /\ wc' = master
  /\ Dep(p, "connect")
  /\ UNCHANGED <<repo, pc, data, running, ran, orphan, past>>

\* refresh_files_in_working_copy(do_push=True): git push origin master:master is told of the
\* server's master, and runs pre-push before it sends anything
PushConnects(p) ==
  /\ dep[p] = "connect"
  /\ old' = [old EXCEPT ![-p] = master]
  /\ new' = [new EXCEPT ![-p] = wc]
  /\ Dep(p, "touch")
  /\ UNCHANGED <<repo, pc, cid, history, wc, prior, running, ran, orphan, past>>

PrePush(p) ==
  /\ dep[p] = "touch"
  /\ marker' = "present"
  /\ Dep(p, "send")
  /\ UNCHANGED <<master, curcom, pc, data, wc, prior, running, ran, orphan, past>>

UpToDate(p) ==
  /\ dep[p] = "send" /\ new[-p] = old[-p]
  /\ Dep(p, "clear")
  /\ UNCHANGED <<repo, pc, data, wc, prior, running, ran, orphan, past>>

\* only a fast-forward is sent; without one the push is an error (DeploymentFails)
Send(p) ==
  /\ dep[p] = "send" /\ new[-p] # old[-p]
  /\ old[-p] \in history[new[-p]] \cup {NoCommit}
  /\ Dep(p, "pushing")
  /\ Goto(-p, "pre")
  /\ UNCHANGED <<repo, data, wc, prior, running, ran, orphan, past>>

\* git push succeeds when the reference has been updated, whatever post-receive says
Sent(p) ==
  /\ dep[p] = "pushing" /\ pc[-p] \in {"authorized", "reverted"}
  /\ Dep(p, "clear")
  /\ UNCHANGED <<repo, pc, data, wc, prior, running, ran, orphan, past>>

\* mutant of ClearMarker
ClearsNothing(p) ==
  /\ dep[p] = "clear"
  /\ Dep(p, "rest")
  /\ UNCHANGED <<repo, pc, data, wc, prior, running, ran, orphan, past>>

\* the end of init_project: "remove if found, the force marker"
ClearMarker(p) ==
  /\ dep[p] = "clear"
  /\ marker' = "absent"
  /\ Dep(p, "rest")
  /\ UNCHANGED <<master, curcom, pc, data, wc, prior, running, ran, orphan, past>>

DeploymentDone(p) ==
  /\ dep[p] = "rest"
  /\ Deploy!End(p)
  /\ Dep(p, "done")
  /\ deployed' = wc
  /\ UNCHANGED <<repo, pc, data, wc, prior, orphan, interrupted, overlaps, astray>>

\* mutant of DeploymentFails: what it leaves behind is taken for a deployment in progress
DeploymentFailsKeepsLock(p) ==
  /\ \/ dep[p] \in Deploying \ {"pushing"}
     \/ dep[p] = "pushing" /\ pc[-p] = "refused"
  /\ wc' \in IF dep[p] = "pull" THEN {wc} ELSE {wc, prior}
  /\ interrupted' = IF dep[p] \in {"send", "pushing", "clear"} THEN interrupted + 1
                    ELSE interrupted
  /\ Dep(p, "failed")
  /\ UNCHANGED <<repo, pc, data, prior, running, ran, orphan, deployed, overlaps, astray>>

\* Any step fails, or the salt-call is killed: with a rollback (ProjectDeploy) or without.
\* The marker is removed at the end of init_project only, so not when its push has failed.
DeploymentFails(p) ==
  /\ \/ dep[p] \in Deploying \ {"pushing"}
     \/ dep[p] = "pushing" /\ pc[-p] = "refused"
  /\ Deploy!End(p)
  /\ wc' \in IF dep[p] = "pull" THEN {wc} ELSE {wc, prior}
  /\ interrupted' = IF dep[p] \in {"send", "pushing", "clear"} THEN interrupted + 1
                    ELSE interrupted
  /\ Dep(p, "failed")
  /\ UNCHANGED <<repo, pc, data, prior, orphan, deployed, overlaps, astray>>
-----------------------------------------------------------------------------
ReceivePack(q) ==
  \/ PreReceive(q) \/ FillCurcom(q) \/ Update(q) \/ Refuse(q)
  \/ PostReceive(q) \/ RemoveMarker(q)
  \/ DeployBegins(q) \/ DeployRejected(q) \/ HookEnds(q)
  \/ ReadCurcom(q) \/ Revert(q)

Deployment(p) ==
  \/ Pull(p) \/ PushConnects(p) \/ PrePush(p) \/ UpToDate(p) \/ Send(p) \/ Sent(p)
  \/ ClearMarker(p) \/ DeploymentDone(p) \/ DeploymentFails(p)

Next ==
  \/ \E p \in Users : Connect(p) \/ Deployment(p)
  \/ \E q \in Pushes : ReceivePack(q) \/ Mishap(q)

Spec == Init /\ [][Next]_vars

\* Once a push has begun its processes run on: the kernel schedules them, and nothing here
\* waits for a user.  A salt-call ends, and then the hook that waits for it, as long as its worker
\* does not leave the lock behind (DeployHook, FairSpec); no mishap has to happen.
FairSpec ==
  /\ Spec
  /\ \A q \in Pushes : WF_vars(ReceivePack(q))
  /\ \A p \in Users : WF_vars(Deployment(p))
-----------------------------------------------------------------------------
(* What the hooks promise                                                  *)

\* As long as no two pushes have been in progress at once, nor a push while a salt-call was at
\* work, master is the commit that is deployed whenever nothing is going on: a failure reverts it
\* ("output last commit before sync to restore it in post receive"), and so does a push to another
\* branch, to the same commit.  The exceptions are a push taken for the one of the working copy and
\* a hook whose exit has not told how its deployment ends; the next push that is accepted for a
\* deployment that has succeeded makes up for them.
MasterIsDeployed == AtRest /\ overlaps = 0 /\ astray = {} => master = deployed

\* A user's push is taken for the one of the working copy ("Pushing from local copy,
\* authorized"), and is accepted without being deployed, only when a deployment has ended
\* between pre-push and the end of init_project; each such end does that to one push.
OneStrayPushPerInterruption ==
  overlaps = 0 => Cardinality({p \in Users : pc[p] \in {"rmmarker", "authorized"}}) <= interrupted

\* A deployment that succeeds has deployed the commit whose push has launched it.  One whose hook
\* has left before it, and let post-receive revert master, may have deployed the commit before it.
DeploysWhatWasPushed ==
  [][\A p \in Users : overlaps = 0 /\ DeploymentDone(p) =>
        /\ wc \in {p, old[p]}
        /\ p \notin astray => wc = p /\ master = p]_vars

\* No push is stuck, although pushes run deployments that push.  A deploy_hook.py that looks for
\* others either may deploy, or there is another one that makes it give up: it never takes what
\* a deployment that has ended left behind for one in progress, and never deploys a push twice.
\* And the push a deployment waits for is in progress, or has ended in a way git push reports.
NoPushIsStuck ==
  /\ \A q \in Pushes : pc[q] = "hook" => (running = {} /\ q \notin ran) \/ Found(q)
  /\ \A p \in Users : dep[p] = "pushing" => pc[-p] \notin {"idle", "accepted"}

\* A push ends, although deployments push from within a push: the hook that such a push may
\* run in its turn is rejected and does not wait for the deployment that waits for it.
EveryPushEnds == \A p \in Users : pc[p] # "idle" ~> pc[p] \in Final

\* pre-receive: the last commit is kept "to restore it in post receive".  So once a push has
\* been reverted, and nobody is pushing, master is not the commit it has brought.
RevertedIsGone == AtRest => \A p \in Users : pc[p] = "reverted" => master # p
=============================================================================
