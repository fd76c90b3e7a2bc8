--------------------------- MODULE GitPushProofs ---------------------------
(***************************************************************************)
(* Theorems about GitPush, for any number of pushes, topics, mishaps and   *)
(* overlaps.                                                               *)
(*                                                                         *)
(* Types, Runs, Slot and Counted hold of every history.  The rest speaks   *)
(* of those whose pushes come one by one: the push at work is alone        *)
(* (Serial); a deployment finds that the working copy is what the          *)
(* repository has, so it sends nothing, unless its own post-receive has    *)
(* reverted master without it (Course); what post-receive would revert to  *)
(* is the deployed commit, unless a push has gone astray (Keeps); and a    *)
(* marker that nobody is about to remove was left by an interruption that  *)
(* has not led a push astray yet (Debts).                                  *)
(***************************************************************************)
EXTENDS GitPush, TLAPS, FiniteSetTheorems

Active(q) == pc[q] \notin Final \cup {"idle"}
AtWork(p) == Active(p) \/ dep[p] \in Deploying

\* the deployments that have failed: each is counted once at most
Failed == {p \in Users : dep[p] = "failed"}

Types ==
  /\ master \in Refs /\ curcom \in Refs /\ {wc, prior, deployed} \subseteq Commits
  /\ marker \in {"absent", "present"}
  /\ pc \in [Pushes -> PCs] /\ dep \in [Users -> Deps]
  /\ old \in [Pushes -> Refs] /\ new \in [Pushes -> Commits] /\ cid \in [Pushes -> Refs]
  /\ history \in [Refs -> SUBSET Commits]
  /\ orphan \in BOOLEAN
  /\ overlaps \in 0..MaxOverlaps
  /\ astray \subseteq Users

\* only a deployment's own push runs while it deploys, and it never deploys
Runs ==
  /\ running \subseteq Users
  /\ running = {} \/ \E p \in Users : running = {p}
  /\ \A p \in Users :
       /\ dep[p] \in Deploying => p \in running
       /\ Active(-p) => dep[p] = "pushing"
       /\ pc[-p] \notin {"wait", "accepted"}

\* what deploy_hook.py knows of executions is what the salt-calls do: the one in progress is that
\* of a push that deploys, and a push that has had one does not look for another
Slot ==
  /\ \A p \in running : dep[p] \in Deploying
  /\ \A p \in Users : /\ p \in ran <=> dep[p] # "none"
                      /\ p \in ran => pc[p] \in {"wait", "accepted", "cid", "revert", "reverted"}
                      /\ -p \notin ran
                      /\ dep[p] = "pushing" => pc[-p] # "idle"

Counted == interrupted \in Nat /\ interrupted <= Cardinality(Failed)

Serial == \A p, r \in Users : AtWork(p) /\ AtWork(r) => p = r

\* what a push brings, and what it would revert to
Told(p) ==
  /\ pc[p] # "idle" => new[p] = p
  /\ pc[p] \in Hooked \/ dep[p] # "none" => p \notin Topics
  /\ pc[p] \in {"pre", "fill", "update"} => master = old[p]
  /\ p \in Topics /\ pc[p] \in {"post", "rmmarker", "cid", "revert"} => master = old[p]
  /\ p \notin Topics /\ pc[p] \in {"post", "hook", "wait"} => master = p
  /\ pc[p] \in {"update", "post", "hook", "wait", "cid"} => curcom = old[p]
  /\ pc[p] = "revert" => cid[p] = old[p]

\* a deployment whose hook no longer waits for it
Left(p) ==
  /\ AtWork(p) /\ pc[p] # "wait" /\ dep[p] \in Deploying \cup {"done"} => p \in astray
  /\ pc[p] = "wait" /\ dep[p] = "done" => deployed = p

\* until its push is reverted, a deployment has nothing to send
Level(p) ==
  dep[p] \in Deploying /\ pc[p] # "reverted" =>
    /\ master = p
    /\ dep[p] # "pull" => wc = p
    /\ dep[p] \in {"touch", "send"} => new[-p] = p /\ old[-p] = p
    /\ dep[p] # "pushing"

\* then it has the one commit or the other
Behind(p) ==
  dep[p] \in Deploying /\ pc[p] = "reverted" =>
    /\ master \in {p, old[p]}
    /\ dep[p] # "pull" => wc \in {p, old[p]}
    /\ dep[p] \in {"touch", "send", "pushing"} => new[-p] \in {p, old[p]}
    /\ dep[p] = "pushing" =>
         pc[-p] \in {"pre", "fill", "update", "post", "rmmarker", "authorized", "refused"}

\* its own push is known by the marker
Marked(p) ==
  \/ dep[p] = "send"
  \/ dep[p] = "pushing" /\ pc[-p] \in {"pre", "fill", "update", "post"}
  => marker = "present"

CourseOf(p) == Told(p) /\ Left(p) /\ Level(p) /\ Behind(p) /\ Marked(p)
Course == \A p \in Users : CourseOf(p)

Kept(p) ==
  pc[p] \in {"pre", "fill", "update", "post", "hook", "wait", "cid", "revert", "rmmarker"} =>
    dep[p] = "done" \/ old[p] = deployed

Keeps ==
  astray = {} =>
    /\ (\A p \in Users : ~AtWork(p)) => master = deployed
    /\ \A p \in Users : Kept(p)

Strays == {p \in Users : pc[p] \in {"rmmarker", "authorized"}}

\* the marker waits for a push that is not its own
Owed ==
  /\ marker = "present"
  /\ \A p \in Users : dep[p] \notin {"send", "pushing", "clear"} /\ pc[p] # "rmmarker"

Debts ==
  /\ Cardinality(Strays) <= interrupted
  /\ Owed => Cardinality(Strays) < interrupted

SerialInv == overlaps = 0 => Serial /\ Course /\ Keeps /\ Debts

IInv == Types /\ Runs /\ Slot /\ Counted /\ SerialInv
-----------------------------------------------------------------------------
(* Numbers of pushes                                                       *)

LEMMA PushesAreNumbers ==
  /\ Users \subseteq Int
  /\ \A p \in Users : p > 0 /\ p \in Pushes /\ -p \in Pushes /\ p \in Commits /\ -p \notin Users
  /\ \A q \in Pushes : q \in Int /\ (q \in Users \/ -q \in Users)
  /\ Commits \subseteq Int /\ 0 \in Commits /\ NoCommit \notin Commits
  /\ Refs = Commits \cup {NoCommit}
  /\ Topics \subseteq Users /\ Unlucky \subseteq Users
  BY ConstantsAssumption DEF Users, Pushes, Commits, Refs, NoCommit

LEMMA UsersAreFinite ==
  /\ IsFiniteSet(Users) /\ Cardinality(Users) = MaxPushes
  /\ \A S \in SUBSET Users : IsFiniteSet(S) /\ Cardinality(S) \in Nat /\ Cardinality(S) <= MaxPushes
<1>1. IsFiniteSet(Users) /\ Cardinality(Users) = MaxPushes
  BY ConstantsAssumption, FS_Interval DEF Users
<1>2. ASSUME NEW S \in SUBSET Users
      PROVE  IsFiniteSet(S) /\ Cardinality(S) \in Nat /\ Cardinality(S) <= MaxPushes
  BY <1>1, FS_Subset, FS_CardinalityType
<1>3. QED
  BY <1>1, <1>2

-----------------------------------------------------------------------------
(* Every history                                                           *)

LEMMA TypesInit == Init => Types
<1> SUFFICES ASSUME Init PROVE Types
  OBVIOUS
<1>1. history \in [Refs -> SUBSET Commits]
  BY PushesAreNumbers DEF Init
<1>2. orphan \in BOOLEAN
  BY DEF Init
<1>3. overlaps \in 0..MaxOverlaps
  BY ConstantsAssumption DEF Init
<1>4. QED
  BY <1>1, <1>2, <1>3, PushesAreNumbers DEF Init, Types, PCs, Deps

LEMMA TypesStep == Types /\ [Next]_vars => Types'
<1> SUFFICES ASSUME Types, [Next]_vars PROVE Types'
  OBVIOUS
<1> USE PushesAreNumbers DEF Types, PCs, Hooked, Final, Deps, Deploying, Over, Goto, repo, data, salt, past
<1>1. ASSUME NEW p \in Users, Connect(p) PROVE Types'
  <2>1. pc' \in [Pushes -> PCs] /\ old' \in [Pushes -> Refs] /\ new' \in [Pushes -> Commits]
    BY <1>1 DEF Connect
  <2>2. history' \in [Refs -> SUBSET Commits]
    <3>1. history[master] \cup {p} \in SUBSET Commits
      OBVIOUS
    <3>2. QED
      BY <1>1, <3>1 DEF Connect
  <2>3. overlaps' \in 0..MaxOverlaps
    BY <1>1, ConstantsAssumption DEF Connect
  <2>4. QED
    BY <1>1, <2>1, <2>2, <2>3 DEF Connect
<1>2. ASSUME NEW p \in Users, Deployment(p) PROVE Types'
  <2>1. CASE Pull(p)
    BY <2>1 DEF Pull, Dep
  <2>2. CASE PushConnects(p)
    BY <2>2 DEF PushConnects, Dep
  <2>3. CASE PrePush(p)
    BY <2>3 DEF PrePush, Dep
  <2>4. CASE UpToDate(p)
    BY <2>4 DEF UpToDate, Dep
  <2>5. CASE Send(p)
    BY <2>5 DEF Send, Dep
  <2>6. CASE Sent(p)
    BY <2>6 DEF Sent, Dep
  <2>7. CASE ClearMarker(p)
    BY <2>7 DEF ClearMarker, Dep
  <2>8. CASE DeploymentDone(p)
    BY <2>8 DEF DeploymentDone, Dep, Deploy!End
  <2>9. CASE DeploymentFails(p)
    BY <2>9 DEF DeploymentFails, Dep, Deploy!End
  <2>10. QED
    BY <1>2, <2>1, <2>2, <2>3, <2>4, <2>5, <2>6, <2>7, <2>8, <2>9 DEF Deployment
<1>3. ASSUME NEW q \in Pushes, ReceivePack(q) PROVE Types'
  <2>1. CASE PreReceive(q)
    BY <2>1 DEF PreReceive
  <2>2. CASE FillCurcom(q)
    BY <2>2 DEF FillCurcom
  <2>3. CASE Update(q)
    BY <2>3 DEF Update
  <2>4. CASE Refuse(q)
    BY <2>4 DEF Refuse
  <2>5. CASE PostReceive(q)
    BY <2>5 DEF PostReceive
  <2>6. CASE RemoveMarker(q)
    BY <2>6 DEF RemoveMarker
  <2>7. CASE DeployBegins(q)
    BY <2>7 DEF DeployBegins, Deploy!Begin
  <2>8. CASE DeployRejected(q)
    BY <2>8 DEF DeployRejected
  <2>9. CASE HookEnds(q)
    BY <2>9 DEF HookEnds
  <2>10. CASE ReadCurcom(q)
    BY <2>10 DEF ReadCurcom
  <2>11. CASE Revert(q)
    BY <2>11 DEF Revert
  <2>12. QED
    BY <1>3, <2>1, <2>2, <2>3, <2>4, <2>5, <2>6, <2>7, <2>8, <2>9, <2>10, <2>11 DEF ReceivePack
<1>4. ASSUME NEW q \in Pushes, Mishap(q) PROVE Types'
  <2>1. CASE HookFails(q)
    BY <2>1 DEF HookFails
  <2>2. CASE HookDetaches(q)
    BY <2>2 DEF HookDetaches
  <2>3. CASE HookLaunchesNothing(q)
    <3>1. CASE Goto(q, "cid")
      BY <2>3, <3>1 DEF HookLaunchesNothing
    <3>2. CASE Goto(q, "accepted")
      <4>1. UNCHANGED orphan \/ orphan' \in {orphan, TRUE}
        BY <2>3 DEF HookLaunchesNothing
      <4>2. orphan' \in BOOLEAN
        BY <4>1
      <4>3. q \in Users /\ (UNCHANGED astray \/ astray' = astray \cup {q})
        BY <2>3 DEF HookLaunchesNothing
      <4>4. UNCHANGED <<repo, data, dep, wc, prior, running, ran, deployed, interrupted, overlaps>>
        BY <2>3 DEF HookLaunchesNothing
      <4>5. QED
        BY <3>2, <4>2, <4>3, <4>4
    <3>3. QED
      BY <2>3, <3>1, <3>2 DEF HookLaunchesNothing
  <2>4. QED
    BY <1>4, <2>1, <2>2, <2>3 DEF Mishap
<1>5. CASE UNCHANGED vars
  BY <1>5 DEF vars
<1>6. QED
  BY <1>1, <1>2, <1>3, <1>4, <1>5 DEF Next

LEMMA RunsInit == Init => Runs
  BY PushesAreNumbers DEF Init, Runs, Active, Final, Deploying, Deploy!SInit

LEMMA RunsStep == Types /\ Runs /\ [Next]_vars => Runs'
<1> SUFFICES ASSUME Types, Runs, [Next]_vars PROVE Runs'
  OBVIOUS
<1> USE PushesAreNumbers DEF Types, Runs, Active, Final, Deploying, Goto, repo, data, salt, past
<1>1. ASSUME NEW p \in Users, Connect(p) PROVE Runs'
  BY <1>1 DEF Connect
<1>2. ASSUME NEW p \in Users, Deployment(p) PROVE Runs'
  <2>1. CASE Pull(p)
    BY <2>1 DEF Pull, Dep
  <2>2. CASE PushConnects(p)
    BY <2>2 DEF PushConnects, Dep
  <2>3. CASE PrePush(p)
    BY <2>3 DEF PrePush, Dep
  <2>4. CASE UpToDate(p)
    BY <2>4 DEF UpToDate, Dep
  <2>5. CASE Send(p)
    BY <2>5 DEF Send, Dep
  <2>6. CASE Sent(p)
    BY <2>6 DEF Sent, Dep
  <2>7. CASE ClearMarker(p)
    BY <2>7 DEF ClearMarker, Dep
  <2>8. CASE DeploymentDone(p)
    BY <2>8 DEF DeploymentDone, Dep, Deploy!End
  <2>9. CASE DeploymentFails(p)
    BY <2>9 DEF DeploymentFails, Dep, Deploy!End
  <2>10. QED
    BY <1>2, <2>1, <2>2, <2>3, <2>4, <2>5, <2>6, <2>7, <2>8, <2>9 DEF Deployment
<1>3. ASSUME NEW q \in Pushes, ReceivePack(q) PROVE Runs'
  <2>1. CASE PreReceive(q)
    BY <2>1 DEF PreReceive
  <2>2. CASE FillCurcom(q)
    BY <2>2 DEF FillCurcom
  <2>3. CASE Update(q)
    BY <2>3 DEF Update
  <2>4. CASE Refuse(q)
    BY <2>4 DEF Refuse
  <2>5. CASE PostReceive(q)
    BY <2>5 DEF PostReceive
  <2>6. CASE RemoveMarker(q)
    BY <2>6 DEF RemoveMarker
  <2>7. CASE DeployBegins(q)
    BY <2>7 DEF DeployBegins, Deploy!Begin
  <2>8. CASE DeployRejected(q)
    BY <2>8 DEF DeployRejected
  <2>9. CASE HookEnds(q)
    BY <2>9 DEF HookEnds
  <2>10. CASE ReadCurcom(q)
    BY <2>10 DEF ReadCurcom
  <2>11. CASE Revert(q)
    BY <2>11 DEF Revert
  <2>12. QED
    BY <1>3, <2>1, <2>2, <2>3, <2>4, <2>5, <2>6, <2>7, <2>8, <2>9, <2>10, <2>11 DEF ReceivePack
<1>4. ASSUME NEW q \in Pushes, Mishap(q) PROVE Runs'
  <2>1. CASE HookFails(q)
    BY <2>1 DEF HookFails
  <2>2. CASE HookDetaches(q)
    BY <2>2 DEF HookDetaches
  <2>3. CASE HookLaunchesNothing(q)
    <3>1. CASE Goto(q, "cid")
      BY <2>3, <3>1 DEF HookLaunchesNothing
    <3>2. CASE Goto(q, "accepted")
      BY <2>3, <3>2 DEF HookLaunchesNothing
    <3>3. QED
      BY <2>3, <3>1, <3>2 DEF HookLaunchesNothing
  <2>4. QED
    BY <1>4, <2>1, <2>2, <2>3 DEF Mishap
<1>5. CASE UNCHANGED vars
  BY <1>5 DEF vars
<1>6. QED
  BY <1>1, <1>2, <1>3, <1>4, <1>5 DEF Next

LEMMA SlotInit == Init => Slot
  BY PushesAreNumbers DEF Init, Slot, Deploy!SInit

LEMMA SlotStep == Types /\ Runs /\ Slot /\ [Next]_vars => Slot'
<1> SUFFICES ASSUME Types, Runs, Slot, [Next]_vars PROVE Slot'
  OBVIOUS
<1> USE PushesAreNumbers DEF Types, Runs, Slot, Active, Final, Deploying, Goto, repo, data, salt, past
<1>1. ASSUME NEW p \in Users, Connect(p) PROVE Slot'
  BY <1>1 DEF Connect
<1>2. ASSUME NEW p \in Users, Deployment(p) PROVE Slot'
  <2>1. CASE Pull(p)
    BY <2>1 DEF Pull, Dep
  <2>2. CASE PushConnects(p)
    BY <2>2 DEF PushConnects, Dep
  <2>3. CASE PrePush(p)
    BY <2>3 DEF PrePush, Dep
  <2>4. CASE UpToDate(p)
    BY <2>4 DEF UpToDate, Dep
  <2>5. CASE Send(p)
    BY <2>5 DEF Send, Dep
  <2>6. CASE Sent(p)
    BY <2>6 DEF Sent, Dep
  <2>7. CASE ClearMarker(p)
    BY <2>7 DEF ClearMarker, Dep
  <2>8. CASE DeploymentDone(p)
    BY <2>8 DEF DeploymentDone, Dep, Deploy!End
  <2>9. CASE DeploymentFails(p)
    BY <2>9 DEF DeploymentFails, Dep, Deploy!End
  <2>10. QED
    BY <1>2, <2>1, <2>2, <2>3, <2>4, <2>5, <2>6, <2>7, <2>8, <2>9 DEF Deployment
<1>3. ASSUME NEW q \in Pushes, ReceivePack(q) PROVE Slot'
  <2>1. CASE PreReceive(q)
    BY <2>1 DEF PreReceive
  <2>2. CASE FillCurcom(q)
    BY <2>2 DEF FillCurcom
  <2>3. CASE Update(q)
    BY <2>3 DEF Update
  <2>4. CASE Refuse(q)
    BY <2>4 DEF Refuse
  <2>5. CASE PostReceive(q)
    BY <2>5 DEF PostReceive
  <2>6. CASE RemoveMarker(q)
    BY <2>6 DEF RemoveMarker
  <2>7. CASE DeployBegins(q)
    BY <2>7 DEF DeployBegins, Deploy!Begin
  <2>8. CASE DeployRejected(q)
    BY <2>8 DEF DeployRejected
  <2>9. CASE HookEnds(q)
    BY <2>9 DEF HookEnds
  <2>10. CASE ReadCurcom(q)
    BY <2>10 DEF ReadCurcom
  <2>11. CASE Revert(q)
    BY <2>11 DEF Revert
  <2>12. QED
    BY <1>3, <2>1, <2>2, <2>3, <2>4, <2>5, <2>6, <2>7, <2>8, <2>9, <2>10, <2>11 DEF ReceivePack
<1>4. ASSUME NEW q \in Pushes, Mishap(q) PROVE Slot'
  <2>1. CASE HookFails(q)
    BY <2>1 DEF HookFails
  <2>2. CASE HookDetaches(q)
    BY <2>2 DEF HookDetaches
  <2>3. CASE HookLaunchesNothing(q)
    <3>1. CASE Goto(q, "cid")
      BY <2>3, <3>1 DEF HookLaunchesNothing
    <3>2. CASE Goto(q, "accepted")
      BY <2>3, <3>2 DEF HookLaunchesNothing
    <3>3. QED
      BY <2>3, <3>1, <3>2 DEF HookLaunchesNothing
  <2>4. QED
    BY <1>4, <2>1, <2>2, <2>3 DEF Mishap
<1>5. CASE UNCHANGED vars
  BY <1>5 DEF vars
<1>6. QED
  BY <1>1, <1>2, <1>3, <1>4, <1>5 DEF Next

LEMMA CountedInit == Init => Counted
  BY UsersAreFinite DEF Init, Counted, Failed

\* a push that has failed once does not deploy again
LEMMA FailedStays == Types /\ Slot /\ [Next]_vars => Failed \subseteq Failed'
<1> SUFFICES ASSUME Types, Slot, [Next]_vars PROVE Failed \subseteq Failed'
  OBVIOUS
<1> USE PushesAreNumbers DEF Types, Failed, Deploying, Goto, repo, data, salt, past
<1>1. ASSUME NEW p \in Users, Connect(p) PROVE Failed \subseteq Failed'
  BY <1>1 DEF Connect
<1>2. ASSUME NEW p \in Users, Deployment(p) PROVE Failed \subseteq Failed'
  BY <1>2 DEF Deployment, Pull, PushConnects, PrePush, UpToDate, Send, Sent, ClearMarker,
       DeploymentDone, DeploymentFails, Dep, Deploy!End
<1>3. ASSUME NEW q \in Pushes, ReceivePack(q) PROVE Failed \subseteq Failed'
  <2>1. CASE DeployBegins(q)
    <3>1. q \in Users => dep[q] = "none"
      BY <2>1 DEF Slot, DeployBegins, Deploy!Begin
    <3>2. QED
      BY <2>1, <3>1 DEF DeployBegins
  <2>2. CASE ~DeployBegins(q)
    BY <1>3, <2>2 DEF ReceivePack, PreReceive, FillCurcom, Update, Refuse, PostReceive,
         RemoveMarker, DeployRejected, HookEnds, ReadCurcom, Revert
  <2>3. QED
    BY <2>1, <2>2
<1>4. ASSUME NEW q \in Pushes, Mishap(q) PROVE Failed \subseteq Failed'
  BY <1>4 DEF Mishap, HookFails, HookDetaches, HookLaunchesNothing
<1>5. CASE UNCHANGED vars
  BY <1>5 DEF vars
<1>6. QED
  BY <1>1, <1>2, <1>3, <1>4, <1>5 DEF Next

\* only a deployment that fails is counted
LEMMA CountedOnce ==
  ASSUME Types, [Next]_vars
  PROVE  \/ UNCHANGED interrupted
         \/ \E p \in Users : /\ p \in Failed' /\ p \notin Failed
                             /\ interrupted' = interrupted + 1
<1> USE PushesAreNumbers DEF Types, Failed, Deploying, Goto, repo, data, salt, past
<1>1. ASSUME NEW p \in Users, Connect(p) PROVE UNCHANGED interrupted
  BY <1>1 DEF Connect
<1>2. ASSUME NEW p \in Users, Deployment(p), ~DeploymentFails(p) PROVE UNCHANGED interrupted
  BY <1>2 DEF Deployment, Pull, PushConnects, PrePush, UpToDate, Send, Sent, ClearMarker,
       DeploymentDone, Dep, Deploy!End
<1>3. ASSUME NEW p \in Users, DeploymentFails(p)
      PROVE  /\ p \in Failed' /\ p \notin Failed
             /\ UNCHANGED interrupted \/ interrupted' = interrupted + 1
  BY <1>3 DEF DeploymentFails, Dep
<1>4. ASSUME NEW q \in Pushes, ReceivePack(q) PROVE UNCHANGED interrupted
  BY <1>4 DEF ReceivePack, PreReceive, FillCurcom, Update, Refuse, PostReceive,
       RemoveMarker, DeployBegins, DeployRejected, HookEnds, ReadCurcom, Revert, Deploy!Begin
<1>5. ASSUME NEW q \in Pushes, Mishap(q) PROVE UNCHANGED interrupted
  BY <1>5 DEF Mishap, HookFails, HookDetaches, HookLaunchesNothing
<1>6. CASE UNCHANGED vars
  BY <1>6 DEF vars
<1> HIDE DEF Failed
<1>7. QED
  BY <1>1, <1>2, <1>3, <1>4, <1>5, <1>6 DEF Next

LEMMA CountedStep == Types /\ Slot /\ Counted /\ [Next]_vars => Counted'
<1> SUFFICES ASSUME Types, Slot, Counted, [Next]_vars PROVE Counted'
  OBVIOUS
<1>1. Failed \in SUBSET Users /\ Failed' \in SUBSET Users /\ Failed \subseteq Failed'
  BY FailedStays DEF Failed
<1>2. /\ IsFiniteSet(Failed) /\ IsFiniteSet(Failed')
      /\ Cardinality(Failed) \in Nat /\ Cardinality(Failed') \in Nat
  BY <1>1, UsersAreFinite
<1>3. Cardinality(Failed) <= Cardinality(Failed')
  BY <1>1, <1>2, FS_Subset
<1>4. CASE UNCHANGED interrupted
  BY <1>2, <1>3, <1>4 DEF Counted
<1>5. ASSUME NEW p \in Users, p \in Failed', p \notin Failed, interrupted' = interrupted + 1
      PROVE  Counted'
  <2>1. Cardinality(Failed \cup {p}) = Cardinality(Failed) + 1 /\ IsFiniteSet(Failed \cup {p})
    BY <1>2, <1>5, FS_AddElement
  <2>2. Cardinality(Failed \cup {p}) <= Cardinality(Failed')
    BY <1>1, <1>2, <1>5, <2>1, FS_Subset
  <2>3. QED
    BY <1>2, <1>5, <2>1, <2>2 DEF Counted
<1>6. QED
  BY <1>4, <1>5, CountedOnce
-----------------------------------------------------------------------------
(* One push after the other                                                *)

LEMMA OverlapsStay == Types /\ [Next]_vars /\ overlaps' = 0 => overlaps = 0
<1> SUFFICES ASSUME Types, [Next]_vars, overlaps' = 0 PROVE overlaps = 0
  OBVIOUS
<1> USE PushesAreNumbers, ConstantsAssumption DEF Types, repo, data, salt, past
<1>1. ASSUME NEW p \in Users, Connect(p) PROVE overlaps = 0
  BY <1>1 DEF Connect
<1>2. ASSUME NEW p \in Users, Deployment(p) PROVE overlaps = 0
  BY <1>2 DEF Deployment, Pull, PushConnects, PrePush, UpToDate, Send, Sent, ClearMarker,
       DeploymentDone, DeploymentFails, Dep, Deploy!End
<1>3. ASSUME NEW q \in Pushes, ReceivePack(q) PROVE overlaps = 0
  BY <1>3 DEF ReceivePack, PreReceive, FillCurcom, Update, Refuse, PostReceive,
       RemoveMarker, DeployBegins, DeployRejected, HookEnds, ReadCurcom, Revert, Deploy!Begin
<1>4. ASSUME NEW q \in Pushes, Mishap(q) PROVE overlaps = 0
  BY <1>4 DEF Mishap, HookFails, HookDetaches, HookLaunchesNothing
<1>5. CASE UNCHANGED vars
  BY <1>5 DEF vars
<1>6. QED
  BY <1>1, <1>2, <1>3, <1>4, <1>5 DEF Next

LEMMA SerialInit == Init => SerialInv
<1> SUFFICES ASSUME Init PROVE Serial /\ Course /\ Keeps /\ Debts
  BY DEF SerialInv
<1> USE PushesAreNumbers DEF Init
<1>1. \A p \in Users : ~AtWork(p) /\ pc[p] = "idle" /\ dep[p] = "none"
  BY DEF AtWork, Active, Final, Deploying
<1>2. Serial /\ Course /\ Keeps
  BY <1>1 DEF Serial, Course, CourseOf, Told, Left, Level, Behind, Marked, Keeps, Kept, Hooked, Deploying
<1>3. Strays = {}
  BY <1>1 DEF Strays
<1>4. QED
  BY <1>2, <1>3, FS_EmptySet DEF Debts, Owed

\* A step, but for the one that connects a push, is one of a push at work.
StepOf(p) ==
  \/ Connect(p)
  \/ AtWork(p) /\ (Deployment(p) \/ ReceivePack(p) \/ Mishap(p) \/ ReceivePack(-p))

LEMMA Actor ==
  ASSUME Types, Runs, Next
  PROVE  \E p \in Users : StepOf(p)
<1> USE PushesAreNumbers DEF StepOf
<1>1. ASSUME NEW p \in Users, Connect(p) PROVE StepOf(p)
  BY <1>1
<1>2. ASSUME NEW p \in Users, Deployment(p) PROVE StepOf(p)
  BY <1>2 DEF AtWork, Deploying, Deployment, Pull, PushConnects, PrePush, UpToDate, Send,
       Sent, ClearMarker, DeploymentDone, DeploymentFails, Dep, Deploy!End
<1>3. ASSUME NEW q \in Pushes, ReceivePack(q) PROVE \E p \in Users : StepOf(p)
  <2>1. Active(q)
    BY <1>3 DEF Active, Final, ReceivePack, PreReceive, FillCurcom, Update, Refuse,
         PostReceive, RemoveMarker, DeployBegins, DeployRejected, HookEnds, ReadCurcom, Revert,
         Deploy!Begin
  <2>2. CASE q \in Users
    BY <1>3, <2>1, <2>2 DEF AtWork
  <2>3. CASE -q \in Users
    <3>1. -(-q) = q
      BY <2>3
    <3>2. AtWork(-q)
      BY <2>1, <2>3, <3>1 DEF AtWork, Runs, Deploying
    <3>3. QED
      BY <1>3, <2>3, <3>1, <3>2
  <2>4. QED
    BY <2>2, <2>3
<1>4. ASSUME NEW q \in Pushes, Mishap(q) PROVE q \in Users /\ StepOf(q)
  BY <1>4 DEF AtWork, Active, Final, Mishap, HookFails, HookDetaches, HookLaunchesNothing
<1> HIDE DEF StepOf
<1>5. QED
  BY <1>1, <1>2, <1>3, <1>4 DEF Next

\* It leaves the other pushes where they are.
Frame(p) ==
  \A r \in Users \ {p} : pc'[r] = pc[r] /\ pc'[-r] = pc[-r] /\ dep'[r] = dep[r] /\ new'[r] = new[r]

LEMMA Framed ==
  ASSUME Types, NEW p \in Users, StepOf(p)
  PROVE  Frame(p)
<1> USE PushesAreNumbers DEF Types, Frame, Goto, repo, data, salt, past
<1>1. CASE Connect(p)
  BY <1>1 DEF Connect
<1>2. CASE Deployment(p)
  BY <1>2 DEF Deployment, Pull, PushConnects, PrePush, UpToDate, Send, Sent, ClearMarker,
       DeploymentDone, DeploymentFails, Dep, Deploy!End
<1>3. CASE ReceivePack(p)
  BY <1>3 DEF ReceivePack, PreReceive, FillCurcom, Update, Refuse, PostReceive,
       RemoveMarker, DeployBegins, DeployRejected, HookEnds, ReadCurcom, Revert, Deploy!Begin
<1>4. CASE ReceivePack(-p)
  BY <1>4 DEF ReceivePack, PreReceive, FillCurcom, Update, Refuse, PostReceive,
       RemoveMarker, DeployBegins, DeployRejected, HookEnds, ReadCurcom, Revert, Deploy!Begin
<1>5. CASE Mishap(p)
  BY <1>5 DEF Mishap, HookFails, HookDetaches, HookLaunchesNothing
<1>6. QED
  BY <1>1, <1>2, <1>3, <1>4, <1>5 DEF StepOf

LEMMA OthersRest ==
  ASSUME Types, Serial, NEW p \in Users, StepOf(p), overlaps' = 0, overlaps = 0
  PROVE  \A r \in Users \ {p} : ~AtWork(r)
<1>1. CASE Connect(p)
  BY <1>1, PushesAreNumbers DEF Connect, AtRest, AtWork, Active, Types
<1>2. CASE AtWork(p)
  BY <1>2 DEF Serial
<1>3. QED
  BY <1>1, <1>2 DEF StepOf

LEMMA SerialStep ==
  ASSUME Types, Serial, NEW p \in Users, StepOf(p), overlaps' = 0, overlaps = 0
  PROVE  Serial' /\ \A r \in Users \ {p} : ~AtWork(r)'
<1>1. \A r \in Users \ {p} : ~AtWork(r) /\ pc'[r] = pc[r] /\ dep'[r] = dep[r]
  BY OthersRest, Framed DEF Frame
<1>2. \A r \in Users \ {p} : ~AtWork(r)'
  BY <1>1 DEF AtWork, Active
<1>3. QED
  BY <1>2 DEF Serial

LEMMA OthersKeepCourse ==
  ASSUME Types, Course, NEW p \in Users, StepOf(p),
         NEW r \in Users \ {p}, ~AtWork(r)'
  PROVE  CourseOf(r)'
<1>1. pc'[r] = pc[r] /\ dep'[r] = dep[r] /\ new'[r] = new[r] /\ CourseOf(r)
  BY Framed DEF Frame, Course
<1>2. pc'[r] \in Final \cup {"idle"} /\ dep'[r] \notin Deploying
  BY DEF AtWork, Active
<1>3. QED
  BY <1>1, <1>2 DEF CourseOf, Told, Left, Level, Behind, Marked, AtWork, Active, Final,
                    Hooked, Deploying

LEMMA CourseStep ==
  ASSUME Types, Runs, Slot, Course, NEW p \in Users, StepOf(p),
         \A r \in Users \ {p} : ~AtWork(r)
  PROVE  CourseOf(p)'
<1>0. CourseOf(p)
  BY DEF Course
<1> USE <1>0, PushesAreNumbers DEF Types, Runs, Slot, CourseOf, Told, Left, Level, Behind, Marked,
        AtWork, Active, Final, Hooked, Deploying, Goto, repo, data, salt, past
<1>1. CASE Connect(p)
  BY <1>1 DEF Connect
<1>2. CASE Deployment(p)
  <2>1. CASE Pull(p)
    BY <2>1 DEF Pull, Dep
  <2>2. CASE PushConnects(p)
    BY <2>2 DEF PushConnects, Dep
  <2>3. CASE PrePush(p)
    BY <2>3 DEF PrePush, Dep
  <2>4. CASE UpToDate(p)
    BY <2>4 DEF UpToDate, Dep
  <2>5. CASE Send(p)
    BY <2>5 DEF Send, Dep
  <2>6. CASE Sent(p)
    BY <2>6 DEF Sent, Dep
  <2>7. CASE ClearMarker(p)
    BY <2>7 DEF ClearMarker, Dep
  <2>8. CASE DeploymentDone(p)
    BY <2>8 DEF DeploymentDone, Dep, Deploy!End
  <2>9. CASE DeploymentFails(p)
    BY <2>9 DEF DeploymentFails, Dep, Deploy!End
  <2>10. QED
    BY <1>2, <2>1, <2>2, <2>3, <2>4, <2>5, <2>6, <2>7, <2>8, <2>9 DEF Deployment
<1>3. CASE ReceivePack(p)
  <2>1. CASE PreReceive(p)
    BY <2>1 DEF PreReceive
  <2>2. CASE FillCurcom(p)
    BY <2>2 DEF FillCurcom
  <2>3. CASE Update(p)
    BY <2>3 DEF Update
  <2>4. CASE Refuse(p)
    BY <2>4 DEF Refuse
  <2>5. CASE PostReceive(p)
    BY <2>5 DEF PostReceive
  <2>6. CASE RemoveMarker(p)
    BY <2>6 DEF RemoveMarker
  <2>7. CASE DeployBegins(p)
    BY <2>7 DEF DeployBegins, Deploy!Begin
  <2>8. CASE DeployRejected(p)
    BY <2>8 DEF DeployRejected
  <2>9. CASE HookEnds(p)
    BY <2>9 DEF HookEnds
  <2>10. CASE ReadCurcom(p)
    BY <2>10 DEF ReadCurcom
  <2>11. CASE Revert(p)
    BY <2>11 DEF Revert
  <2>12. QED
    BY <1>3, <2>1, <2>2, <2>3, <2>4, <2>5, <2>6, <2>7, <2>8, <2>9, <2>10, <2>11 DEF ReceivePack
<1>4. CASE ReceivePack(-p)
  <2>1. CASE PreReceive(-p)
    BY <2>1 DEF PreReceive
  <2>2. CASE FillCurcom(-p)
    BY <2>2 DEF FillCurcom
  <2>3. CASE Update(-p)
    BY <2>3 DEF Update
  <2>4. CASE Refuse(-p)
    BY <2>4 DEF Refuse
  <2>5. CASE PostReceive(-p)
    BY <2>5 DEF PostReceive
  <2>6. CASE RemoveMarker(-p)
    BY <2>6 DEF RemoveMarker
  <2>7. CASE DeployBegins(-p)
    BY <2>7 DEF DeployBegins, Deploy!Begin
  <2>8. CASE DeployRejected(-p)
    BY <2>8 DEF DeployRejected
  <2>9. CASE HookEnds(-p)
    BY <2>9 DEF HookEnds
  <2>10. CASE ReadCurcom(-p)
    BY <2>10 DEF ReadCurcom
  <2>11. CASE Revert(-p)
    BY <2>11 DEF Revert
  <2>12. QED
    BY <1>4, <2>1, <2>2, <2>3, <2>4, <2>5, <2>6, <2>7, <2>8, <2>9, <2>10, <2>11 DEF ReceivePack
<1>5. CASE Mishap(p)
  <2>1. CASE HookFails(p)
    BY <2>1 DEF HookFails
  <2>2. CASE HookDetaches(p)
    BY <2>2 DEF HookDetaches
  <2>3. CASE HookLaunchesNothing(p)
    <3>1. UNCHANGED <<repo, data, dep, wc, prior, running, ran, deployed, interrupted, overlaps>>
      BY <2>3 DEF HookLaunchesNothing
    <3>2. /\ pc[p] = "hook" /\ dep[p] = "none"
          /\ Goto(p, "cid") \/ Goto(p, "accepted")
      BY <2>3 DEF HookLaunchesNothing
    <3>3. QED
      BY <3>1, <3>2
  <2>4. QED
    BY <1>5, <2>1, <2>2, <2>3 DEF Mishap
<1>6. QED
  BY <1>1, <1>2, <1>3, <1>4, <1>5 DEF StepOf

\* what Keeps says of the push at work, or of the last one
KeptBy(p) == (~AtWork(p) => master = deployed) /\ Kept(p)

LEMMA KeepsStep ==
  ASSUME Types, Runs, Slot, Course, Keeps, NEW p \in Users, StepOf(p),
         \A r \in Users \ {p} : ~AtWork(r) /\ ~AtWork(r)'
  PROVE  Keeps'
<1> SUFFICES ASSUME astray' = {} PROVE KeptBy(p)'
  BY DEF Keeps, KeptBy, Kept, AtWork, Active, Final
<1>0. CourseOf(p) /\ (astray = {} => KeptBy(p))
  BY DEF Course, Keeps, KeptBy
<1> USE <1>0, PushesAreNumbers DEF Types, Runs, Slot, CourseOf, Told, Left, Level, Behind, Marked,
        AtWork, Active, Final, Hooked, Deploying, Goto, KeptBy, Kept, repo, data, salt, past
<1>1. CASE Connect(p)
  BY <1>1 DEF Connect
<1>2. CASE AtWork(p) /\ Deployment(p)
  <2>1. CASE Pull(p)
    BY <2>1, <1>2 DEF Pull, Dep
  <2>2. CASE PushConnects(p)
    BY <2>2, <1>2 DEF PushConnects, Dep
  <2>3. CASE PrePush(p)
    BY <2>3, <1>2 DEF PrePush, Dep
  <2>4. CASE UpToDate(p)
    BY <2>4, <1>2 DEF UpToDate, Dep
  <2>5. CASE Send(p)
    BY <2>5, <1>2 DEF Send, Dep
  <2>6. CASE Sent(p)
    BY <2>6, <1>2 DEF Sent, Dep
  <2>7. CASE ClearMarker(p)
    BY <2>7, <1>2 DEF ClearMarker, Dep
  <2>8. CASE DeploymentDone(p)
    BY <2>8, <1>2 DEF DeploymentDone, Dep, Deploy!End
  <2>9. CASE DeploymentFails(p)
    BY <2>9, <1>2 DEF DeploymentFails, Dep, Deploy!End
  <2>10. QED
    BY <1>2, <2>1, <2>2, <2>3, <2>4, <2>5, <2>6, <2>7, <2>8, <2>9 DEF Deployment
<1>3. CASE AtWork(p) /\ ReceivePack(p)
  <2>1. CASE PreReceive(p)
    BY <2>1, <1>3 DEF PreReceive
  <2>2. CASE FillCurcom(p)
    BY <2>2, <1>3 DEF FillCurcom
  <2>3. CASE Update(p)
    BY <2>3, <1>3 DEF Update
  <2>4. CASE Refuse(p)
    BY <2>4, <1>3 DEF Refuse
  <2>5. CASE PostReceive(p)
    BY <2>5, <1>3 DEF PostReceive
  <2>6. CASE RemoveMarker(p)
    BY <2>6, <1>3 DEF RemoveMarker
  <2>7. CASE DeployBegins(p)
    BY <2>7, <1>3 DEF DeployBegins, Deploy!Begin
  <2>8. CASE DeployRejected(p)
    BY <2>8, <1>3 DEF DeployRejected
  <2>9. CASE HookEnds(p)
    BY <2>9, <1>3 DEF HookEnds
  <2>10. CASE ReadCurcom(p)
    BY <2>10, <1>3 DEF ReadCurcom
  <2>11. CASE Revert(p)
    BY <2>11, <1>3 DEF Revert
  <2>12. QED
    BY <1>3, <2>1, <2>2, <2>3, <2>4, <2>5, <2>6, <2>7, <2>8, <2>9, <2>10, <2>11 DEF ReceivePack
<1>4. CASE AtWork(p) /\ ReceivePack(-p)
  <2>1. CASE PreReceive(-p)
    BY <2>1, <1>4 DEF PreReceive
  <2>2. CASE FillCurcom(-p)
    BY <2>2, <1>4 DEF FillCurcom
  <2>3. CASE Update(-p)
    BY <2>3, <1>4 DEF Update
  <2>4. CASE Refuse(-p)
    BY <2>4, <1>4 DEF Refuse
  <2>5. CASE PostReceive(-p)
    BY <2>5, <1>4 DEF PostReceive
  <2>6. CASE RemoveMarker(-p)
    BY <2>6, <1>4 DEF RemoveMarker
  <2>7. CASE DeployBegins(-p)
    BY <2>7, <1>4 DEF DeployBegins, Deploy!Begin
  <2>8. CASE DeployRejected(-p)
    BY <2>8, <1>4 DEF DeployRejected
  <2>9. CASE HookEnds(-p)
    BY <2>9, <1>4 DEF HookEnds
  <2>10. CASE ReadCurcom(-p)
    BY <2>10, <1>4 DEF ReadCurcom
  <2>11. CASE Revert(-p)
    BY <2>11, <1>4 DEF Revert
  <2>12. QED
    BY <1>4, <2>1, <2>2, <2>3, <2>4, <2>5, <2>6, <2>7, <2>8, <2>9, <2>10, <2>11 DEF ReceivePack
<1>5. CASE AtWork(p) /\ Mishap(p)
  <2>1. CASE HookFails(p)
    BY <2>1, <1>5 DEF HookFails
  <2>2. CASE HookDetaches(p)
    BY <2>2, <1>5 DEF HookDetaches
  <2>3. CASE HookLaunchesNothing(p)
    <3>1. UNCHANGED <<repo, data, dep, deployed>> /\ Goto(p, "cid") /\ astray = {}
      BY <2>3 DEF HookLaunchesNothing
    <3>2. pc[p] = "hook" /\ dep[p] = "none"
      BY <2>3 DEF HookLaunchesNothing
    <3>3. QED
      BY <3>1, <3>2
  <2>4. QED
    BY <1>5, <2>1, <2>2, <2>3 DEF Mishap
<1>6. QED
  BY <1>1, <1>2, <1>3, <1>4, <1>5 DEF StepOf

\* Only a push that finds a marker, and none on its way to be removed, goes astray.
LEMMA GoesAstray ==
  ASSUME Types, Runs, Slot, Serial, NEW p \in Users, StepOf(p),
         \A r \in Users \ {p} : ~AtWork(r)
  PROVE  \/ Strays' = Strays
         \/ Owed /\ ~Owed' /\ UNCHANGED interrupted /\ Strays' = Strays \cup {p}
<1> USE PushesAreNumbers DEF Types, Goto, Strays, repo, data, salt, past
<1>1. CASE Connect(p)
  BY <1>1 DEF Connect
<1>2. CASE Deployment(p)
  <2>1. CASE Pull(p)
    BY <2>1 DEF Pull, Dep
  <2>2. CASE PushConnects(p)
    BY <2>2 DEF PushConnects, Dep
  <2>3. CASE PrePush(p)
    BY <2>3 DEF PrePush, Dep
  <2>4. CASE UpToDate(p)
    BY <2>4 DEF UpToDate, Dep
  <2>5. CASE Send(p)
    BY <2>5 DEF Send, Dep
  <2>6. CASE Sent(p)
    BY <2>6 DEF Sent, Dep
  <2>7. CASE ClearMarker(p)
    BY <2>7 DEF ClearMarker, Dep
  <2>8. CASE DeploymentDone(p)
    BY <2>8 DEF DeploymentDone, Dep, Deploy!End
  <2>9. CASE DeploymentFails(p)
    BY <2>9 DEF DeploymentFails, Dep, Deploy!End
  <2>10. QED
    BY <1>2, <2>1, <2>2, <2>3, <2>4, <2>5, <2>6, <2>7, <2>8, <2>9 DEF Deployment
<1>3. CASE ReceivePack(p) /\ ~PostReceive(p)
  <2>1. CASE PreReceive(p)
    BY <2>1 DEF PreReceive
  <2>2. CASE FillCurcom(p)
    BY <2>2 DEF FillCurcom
  <2>3. CASE Update(p)
    BY <2>3 DEF Update
  <2>4. CASE Refuse(p)
    BY <2>4 DEF Refuse
  <2>5. CASE RemoveMarker(p)
    BY <2>5 DEF RemoveMarker
  <2>6. CASE DeployBegins(p)
    BY <2>6 DEF DeployBegins, Deploy!Begin
  <2>7. CASE DeployRejected(p)
    BY <2>7 DEF DeployRejected
  <2>8. CASE HookEnds(p)
    BY <2>8 DEF HookEnds
  <2>9. CASE ReadCurcom(p)
    BY <2>9 DEF ReadCurcom
  <2>10. CASE Revert(p)
    BY <2>10 DEF Revert
  <2>11. QED
    BY <1>3, <2>1, <2>2, <2>3, <2>4, <2>5, <2>6, <2>7, <2>8, <2>9, <2>10 DEF ReceivePack
<1>4. CASE ReceivePack(-p)
  <2>1. CASE PreReceive(-p)
    BY <2>1 DEF PreReceive
  <2>2. CASE FillCurcom(-p)
    BY <2>2 DEF FillCurcom
  <2>3. CASE Update(-p)
    BY <2>3 DEF Update
  <2>4. CASE Refuse(-p)
    BY <2>4 DEF Refuse
  <2>5. CASE PostReceive(-p)
    BY <2>5 DEF PostReceive
  <2>6. CASE RemoveMarker(-p)
    BY <2>6 DEF RemoveMarker
  <2>7. CASE DeployBegins(-p)
    BY <2>7 DEF DeployBegins, Deploy!Begin
  <2>8. CASE DeployRejected(-p)
    BY <2>8 DEF DeployRejected
  <2>9. CASE HookEnds(-p)
    BY <2>9 DEF HookEnds
  <2>10. CASE ReadCurcom(-p)
    BY <2>10 DEF ReadCurcom
  <2>11. CASE Revert(-p)
    BY <2>11 DEF Revert
  <2>12. QED
    BY <1>4, <2>1, <2>2, <2>3, <2>4, <2>5, <2>6, <2>7, <2>8, <2>9, <2>10, <2>11 DEF ReceivePack
<1>5. CASE Mishap(p)
  <2>1. UNCHANGED pc \/ (pc[p] \in {"wait", "hook"} /\ \E s \in {"cid", "accepted"} : Goto(p, s))
    BY <1>5 DEF Mishap, HookFails, HookDetaches, HookLaunchesNothing
  <2>2. QED
    BY <2>1
<1>6. CASE PostReceive(p)
  <2>1. CASE marker # "present"
    BY <1>6, <2>1 DEF PostReceive
  <2>2. CASE marker = "present"
    <3>1. pc[p] = "post" /\ dep[p] = "none" /\ pc' = [pc EXCEPT ![p] = "rmmarker"]
      BY <1>6, <2>2 DEF PostReceive, Slot
    <3>2. Owed
      BY <2>2, <3>1 DEF Owed, AtWork, Active, Final, Deploying
    <3>3. QED
      BY <1>6, <3>1, <3>2 DEF PostReceive, Owed
  <2>3. QED
    BY <2>1, <2>2
<1>7. QED
  BY <1>1, <1>2, <1>3, <1>4, <1>5, <1>6 DEF StepOf

\* A marker is left behind by a deployment that fails after pre-push, which is counted.
LEMMA MarkerIsLeft ==
  ASSUME Types, Runs, Slot, NEW p \in Users, StepOf(p),
         \A r \in Users \ {p} : ~AtWork(r)
  PROVE  \/ interrupted' = interrupted /\ (Owed' => Owed)
         \/ interrupted' = interrupted + 1
<1> USE PushesAreNumbers DEF Types, Runs, Slot, Goto, AtWork, Active, Final, Deploying, Owed,
        repo, data, salt, past
<1> DEFINE Goal == \/ interrupted' = interrupted /\ (Owed' => Owed)
                   \/ interrupted' = interrupted + 1
<1>1. CASE Connect(p)
  BY <1>1 DEF Connect
<1>2. CASE Deployment(p)
  <2>1. CASE Pull(p)
    BY <2>1 DEF Pull, Dep
  <2>2. CASE PushConnects(p)
    BY <2>2 DEF PushConnects, Dep
  <2>3. CASE PrePush(p)
    BY <2>3 DEF PrePush, Dep
  <2>4. CASE UpToDate(p)
    BY <2>4 DEF UpToDate, Dep
  <2>5. CASE Send(p)
    BY <2>5 DEF Send, Dep
  <2>6. CASE Sent(p)
    BY <2>6 DEF Sent, Dep
  <2>7. CASE ClearMarker(p)
    BY <2>7 DEF ClearMarker, Dep
  <2>8. CASE DeploymentDone(p)
    BY <2>8 DEF DeploymentDone, Dep, Deploy!End
  <2>9. CASE DeploymentFails(p)
    BY <2>9 DEF DeploymentFails, Dep, Deploy!End
  <2>10. QED
    BY <1>2, <2>1, <2>2, <2>3, <2>4, <2>5, <2>6, <2>7, <2>8, <2>9 DEF Deployment
<1>3. CASE ReceivePack(p)
  <2>1. CASE PreReceive(p)
    BY <2>1 DEF PreReceive
  <2>2. CASE FillCurcom(p)
    BY <2>2 DEF FillCurcom
  <2>3. CASE Update(p)
    BY <2>3 DEF Update
  <2>4. CASE Refuse(p)
    BY <2>4 DEF Refuse
  <2>5. CASE PostReceive(p)
    BY <2>5 DEF PostReceive
  <2>6. CASE RemoveMarker(p)
    BY <2>6 DEF RemoveMarker
  <2>7. CASE DeployBegins(p)
    BY <2>7 DEF DeployBegins, Deploy!Begin
  <2>8. CASE DeployRejected(p)
    BY <2>8 DEF DeployRejected
  <2>9. CASE HookEnds(p)
    BY <2>9 DEF HookEnds
  <2>10. CASE ReadCurcom(p)
    BY <2>10 DEF ReadCurcom
  <2>11. CASE Revert(p)
    BY <2>11 DEF Revert
  <2>12. QED
    BY <1>3, <2>1, <2>2, <2>3, <2>4, <2>5, <2>6, <2>7, <2>8, <2>9, <2>10, <2>11 DEF ReceivePack
<1>4. CASE ReceivePack(-p)
  <2>1. CASE PreReceive(-p)
    BY <2>1 DEF PreReceive
  <2>2. CASE FillCurcom(-p)
    BY <2>2 DEF FillCurcom
  <2>3. CASE Update(-p)
    BY <2>3 DEF Update
  <2>4. CASE Refuse(-p)
    BY <2>4 DEF Refuse
  <2>5. CASE PostReceive(-p)
    BY <2>5 DEF PostReceive
  <2>6. CASE RemoveMarker(-p)
    BY <2>6 DEF RemoveMarker
  <2>7. CASE DeployBegins(-p)
    BY <2>7 DEF DeployBegins, Deploy!Begin
  <2>8. CASE DeployRejected(-p)
    BY <2>8 DEF DeployRejected
  <2>9. CASE HookEnds(-p)
    BY <2>9 DEF HookEnds
  <2>10. CASE ReadCurcom(-p)
    BY <2>10 DEF ReadCurcom
  <2>11. CASE Revert(-p)
    BY <2>11 DEF Revert
  <2>12. QED
    BY <1>4, <2>1, <2>2, <2>3, <2>4, <2>5, <2>6, <2>7, <2>8, <2>9, <2>10, <2>11 DEF ReceivePack
<1>5. CASE Mishap(p)
  <2>1. pc[p] \in {"hook", "wait"} /\ UNCHANGED <<marker, dep, interrupted>>
    BY <1>5 DEF Mishap, HookFails, HookDetaches, HookLaunchesNothing
  <2>2. QED
    BY <2>1
<1>6. QED
  BY <1>1, <1>2, <1>3, <1>4, <1>5 DEF StepOf

LEMMA DebtsStep ==
  ASSUME Types, Runs, Slot, Counted, Serial, Debts, NEW p \in Users, StepOf(p),
         \A r \in Users \ {p} : ~AtWork(r)
  PROVE  Debts'
<1>1. IsFiniteSet(Strays) /\ Cardinality(Strays) \in Nat /\ interrupted \in Nat
  BY UsersAreFinite DEF Strays, Counted
<1>2. CASE Strays' = Strays
  <2>1. Cardinality(Strays') = Cardinality(Strays)
    BY <1>2
  <2>2. QED
    BY <1>1, <2>1, MarkerIsLeft DEF Debts
<1>3. CASE Owed /\ ~Owed' /\ UNCHANGED interrupted /\ Strays' = Strays \cup {p}
  <2>1. Cardinality(Strays \cup {p}) \in {Cardinality(Strays), Cardinality(Strays) + 1}
    <3>1. CASE p \in Strays
      <4>1. Strays \cup {p} = Strays
        BY <3>1
      <4>2. QED
        BY <4>1
    <3>2. CASE p \notin Strays
      BY <1>1, <3>2, FS_AddElement
    <3>3. QED
      BY <3>1, <3>2
  <2>2. Cardinality(Strays') = Cardinality(Strays \cup {p})
    BY <1>3
  <2>3. QED
    BY <1>1, <1>3, <2>1, <2>2 DEF Debts
<1>4. QED
  BY <1>2, <1>3, GoesAstray
-----------------------------------------------------------------------------
LEMMA Inductive == IInv /\ [Next]_vars => IInv'
<1> SUFFICES ASSUME IInv, [Next]_vars PROVE IInv'
  OBVIOUS
<1>1. Types' /\ Runs' /\ Slot' /\ Counted'
  BY TypesStep, RunsStep, SlotStep, CountedStep DEF IInv
<1>2. CASE Next
  <2> SUFFICES ASSUME overlaps' = 0 PROVE Serial' /\ Course' /\ Keeps' /\ Debts'
    BY <1>1 DEF IInv, SerialInv
  <2>1. overlaps = 0 /\ Types /\ Runs /\ Slot /\ Counted /\ Serial /\ Course /\ Keeps /\ Debts
    BY OverlapsStay DEF IInv, SerialInv
  <2>2. PICK p \in Users : StepOf(p)
    BY <1>2, <2>1, Actor
  <2>3. Serial' /\ \A r \in Users \ {p} : ~AtWork(r) /\ ~AtWork(r)'
    BY <2>1, <2>2, SerialStep, OthersRest
  <2>4. CourseOf(p)' /\ \A r \in Users \ {p} : CourseOf(r)'
    BY <2>1, <2>2, <2>3, CourseStep, OthersKeepCourse
  <2>5. Keeps' /\ Debts'
    BY <2>1, <2>2, <2>3, KeepsStep, DebtsStep
  <2>6. QED
    BY <2>3, <2>4, <2>5 DEF Course
<1>3. CASE UNCHANGED vars
  BY <1>1, <1>3 DEF vars, repo, data, salt, past, IInv, SerialInv, Serial, Course, CourseOf, Told,
                    Left, Level, Behind, Marked, Keeps, Debts, Strays, Owed, Kept, AtWork, Active
<1>4. QED
  BY <1>2, <1>3

LEMMA Invariance == Spec => []IInv
<1>1. Init => IInv
  BY TypesInit, RunsInit, SlotInit, CountedInit, SerialInit DEF IInv
<1>2. QED
  BY <1>1, Inductive, PTL DEF Spec

\* Every variable stays in its type: at most one deployment at once, although pushes run hooks
\* within pushes and hooks leave their deployments, and no deployment fails twice.
THEOREM TypeCorrect == Spec => []TypeOK
<1>1. IInv => TypeOK
  <2> SUFFICES ASSUME IInv PROVE TypeOK
    OBVIOUS
  <2>1. Cardinality(running) <= 1
    <3>1. CASE running = {}
      BY <3>1, FS_EmptySet
    <3>2. ASSUME NEW p \in Users, running = {p} PROVE Cardinality(running) <= 1
      BY <3>2, FS_Singleton
    <3>3. QED
      BY <3>1, <3>2 DEF IInv, Runs
  <2>2. interrupted \in 0..MaxPushes
    <3>1. Failed \in SUBSET Users
      BY DEF Failed
    <3>2. Cardinality(Failed) \in Nat /\ Cardinality(Failed) <= MaxPushes
      BY <3>1, UsersAreFinite
    <3>3. QED
      BY <3>2, ConstantsAssumption DEF IInv, Counted
  <2>3. QED
    BY <2>1, <2>2 DEF IInv, Types, Runs, TypeOK
<1>2. QED
  BY <1>1, Invariance, PTL

\* While pushes come one by one, master is what is deployed whenever nothing is going on, unless a
\* push has gone astray since the last deployment that was accepted: failures are reverted, and so
\* are pushes of topics.
THEOREM MasterFollowsDeployments == Spec => []MasterIsDeployed
<1>1. IInv => MasterIsDeployed
  BY PushesAreNumbers DEF IInv, SerialInv, Keeps, MasterIsDeployed, AtRest, AtWork, Active
<1>2. QED
  BY <1>1, Invariance, PTL

\* While pushes come one by one, no more pushes go undeployed for want of a look at who has
\* left the marker than deployments have died with it in place.
THEOREM StraysAreCounted == Spec => []OneStrayPushPerInterruption
<1>1. IInv => OneStrayPushPerInterruption
  BY DEF IInv, SerialInv, Debts, Strays, OneStrayPushPerInterruption
<1>2. QED
  BY <1>1, Invariance, PTL

\* No push is stuck, in any history: whoever looks for other deployments either may deploy or meets
\* one that makes it give up, and a deployment waits for a push that is going on or over.
THEOREM PushesMoveOn == Spec => []NoPushIsStuck
<1>1. Types /\ Runs /\ Slot => NoPushIsStuck
  <2> SUFFICES ASSUME Types, Runs, Slot PROVE NoPushIsStuck
    OBVIOUS
  <2>1. ASSUME NEW q \in Pushes, pc[q] = "hook"
        PROVE  (running = {} /\ q \notin ran) \/ Found(q)
    <3>1. q \notin ran
      <4>1. CASE q \in Users
        BY <2>1, <4>1 DEF Slot
      <4>2. CASE -q \in Users
        <5>1. -(-q) = q
          BY PushesAreNumbers
        <5>2. QED
          BY <4>2, <5>1 DEF Slot
      <4>3. QED
        BY <4>1, <4>2, PushesAreNumbers
    <3>2. CASE running # {}
      BY <3>2 DEF Runs, Slot, Found
    <3>3. QED
      BY <3>1, <3>2
  <2>2. \A p \in Users : dep[p] = "pushing" => pc[-p] \notin {"idle", "accepted"}
    BY DEF Slot, Runs
  <2>3. QED
    BY <2>1, <2>2 DEF NoPushIsStuck
<1>2. QED
  BY <1>1, Invariance, PTL DEF IInv

\* While pushes come one by one, a deployment that succeeds has deployed the commit of its push or,
\* if its hook has left it before, the one that post-receive has brought back.
THEOREM DeploymentsAreOfTheirPush == Spec => DeploysWhatWasPushed
<1>1. IInv /\ [Next]_vars => [\A p \in Users : overlaps = 0 /\ DeploymentDone(p) =>
                                 /\ wc \in {p, old[p]}
                                 /\ p \notin astray => wc = p /\ master = p]_vars
  <2> SUFFICES ASSUME IInv, NEW p \in Users, overlaps = 0, dep[p] = "rest"
               PROVE  wc \in {p, old[p]} /\ (p \notin astray => wc = p /\ master = p)
    BY DEF DeploymentDone
  <2>1. CourseOf(p)
    BY DEF IInv, SerialInv, Course
  <2>2. QED
    BY <2>1 DEF CourseOf, Left, Level, Behind, AtWork, Deploying
<1>2. QED
  BY <1>1, Invariance, PTL DEF Spec, DeploysWhatWasPushed
=============================================================================
