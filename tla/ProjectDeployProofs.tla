----------------------- MODULE ProjectDeployProofs -----------------------
(***************************************************************************)
(* Proofs about ProjectDeploy, for any number of deployments, crashes and  *)
(* archives to keep, and for any requests.                                 *)
(*                                                                         *)
(* The argument: until a deployment fails it has a clean record (Clean)    *)
(* and, once past the archive step, an archive that is equal to what was   *)
(* there before (SafetyNet); the flag that asks for a rollback comes after *)
(* the archive, so a rollback restores just that.                          *)
(***************************************************************************)
EXTENDS ProjectDeploy, TLAPS, FiniteSetTheorems, WellFoundedInduction

\* no step has failed yet
Early == {"archive", "modules", "release_sync", "modules2", "install", "rotate_archives"}

Begun == pc # "done" => d > 0

Clean == pc \in Early => result = "ok" /\ failures = {} /\ flag = "no"

\* no archive is younger than the deployment, and none is empty
ArchivesAreReal ==
  \A a \in DOMAIN archives : a <= d /\ archives[a].project # NoProject

StillThere == prior # NoProject => wc # NoProject

Archived == d \in DOMAIN archives /\ archives[d].project = prior

SafetyNet ==
  /\ pc = "archive" => wc = prior
  /\ \/ prior = NoProject \/ "archive" \in skip
     \/ pc \notin Early \ {"archive"} /\ flag = "no"
     \/ Archived

\* the result, and then the outcome, tell whether a step has failed that counts
Light == {"fixperms", "notify"}
Results ==
  /\ pc \in Early \cup {"rollback"} => failures \cap Light = {}
  /\ pc = "rollback" => (result = "failed" <=> failures # {})
  /\ pc \in Light => (outcome = "failed" <=> failures \ Light # {})
  /\ pc = "done" => (result = "failed" <=> failures \ Light # {})

\* the deployments whose failure has to restore what was there
MustRestore ==
  /\ env = "prod" /\ prior # NoProject
  /\ "archive" \notin skip /\ "rollback" \notin skip
  /\ "rollback" \notin failures /\ "rotate_archives" \notin failures

Restores ==
  MustRestore =>
    /\ pc = "rollback" /\ result = "failed" => wc = prior \/ flag = "yes"
    /\ pc \in Light /\ outcome = "failed" => wc = prior
    /\ pc = "done" /\ result = "failed" => wc = prior

DevFlag == env = "dev" /\ flag = "yes" /\ Exists => "release_sync" \in failures

\* a deployment without a failure has put its revision there step by step
Installs ==
  /\ pc = "rollback" /\ result = "ok" => flag = "no"
  /\ "release_sync" \notin skip /\ pc \in {"modules2", "install"}
       => wc = [rev |-> d, state |-> "synced"]
  /\ "release_sync" \notin skip /\ "install" \notin skip /\ "deploy" \notin skip /\ d > 0 =>
       /\ pc = "rotate_archives" => wc = [rev |-> d, state |-> "installed"]
       /\ pc = "rollback" /\ result = "ok" => wc = [rev |-> d, state |-> "installed"]
       /\ pc \in Light /\ outcome = "ok" => wc = [rev |-> d, state |-> "installed"]
       /\ pc = "done" /\ result = "ok" => wc = [rev |-> d, state |-> "installed"]

\* a deployment whose rotation has not failed has kept its own archive, and not too many
Rotated ==
  /\ Cardinality(DOMAIN archives) <= KeepArchives
  /\ prior = NoProject \/ d \in DOMAIN archives

Rotates ==
  KeepArchives > 0 /\ d > 0 /\ skip \cap {"deploy", "archive", "rotate_archives"} = {} =>
    /\ pc = "rollback" /\ result = "ok" => Rotated
    /\ pc \in Light /\ outcome = "ok" => Rotated
    /\ pc = "done" /\ result = "ok" => Rotated

\* until the archive step, and without it, the deployment has no archive of its own
OwnArchive == pc = "archive" \/ "archive" \in skip => d \notin DOMAIN archives

\* What the last successful installation left is in an archive from the archive step up to the
\* next success, and for as long as a rollback is due; the steps that do without the archive
\* are those that leave the working copy alone.
InArchives == \E a \in DOMAIN archives : archives[a].project = good

WholeSkips ==
  /\ "archive" \notin skip \/ {"release_sync", "install"} \subseteq skip
  /\ "install" \notin skip \/ "rotate_archives" \in skip

Recoverable ==
  /\ whole /\ pc \notin {"done", "dead"} => WholeSkips
  /\ whole /\ good # NoProject =>
       /\ wc = good \/ InArchives
       /\ pc \in {"modules", "release_sync", "modules2", "install"} /\ "archive" \notin skip
            => InArchives
       /\ pc = "rotate_archives" /\ pc \notin skip => wc = good
       /\ pc = "rollback" /\ flag = "yes" /\ d \in DOMAIN archives => InArchives

IInv ==
  /\ TypeOK /\ Begun /\ Clean /\ ArchivesAreReal /\ OwnArchive /\ StillThere
  /\ SafetyNet /\ PriorIsArchived
  /\ Results /\ Restores /\ DevFlag /\ Installs /\ Rotates /\ Recoverable

-----------------------------------------------------------------------------
(* Types *)

LEMMA ContentTypes == NoProject \in Contents
  BY ParametersAssumption DEF Contents, NoProject, States

\* What archive.sls adds is an archive of the deployment, next to the ones there are.
LEMMA AddArchiveTypes ==
  ASSUME TypeOK, d > 0, NEW content \in Contents, AddArchive(content)
  PROVE  /\ DOMAIN archives' = DOMAIN archives \cup {d}
         /\ DOMAIN archives' \subseteq Deployments
         /\ \A a \in DOMAIN archives' : archives'[a] \in Archive
         /\ \A a \in DOMAIN archives : a # d => archives'[a] = archives[a]
         /\ archives'[d].project = content
<1>1. [project |-> content, failed |-> NoProject] \in Archive
  BY ContentTypes DEF Archive
<1>2. d \in Deployments
  BY ParametersAssumption DEF TypeOK, Deployments
<1>3. QED
  BY <1>1, <1>2 DEF TypeOK, AddArchive

\* rollback.sls adds the copy of what has failed and leaves the archive as it was.
LEMMA RollbackKeepsProjects ==
  ASSUME TypeOK, d \in DOMAIN archives, archives' = [archives EXCEPT ![d].failed = wc]
  PROVE  /\ DOMAIN archives' = DOMAIN archives
         /\ \A a \in DOMAIN archives : archives'[a] \in Archive
         /\ \A a \in DOMAIN archives : archives'[a].project = archives[a].project
<1>1. archives[d] \in Archive /\ wc \in Contents
  BY DEF TypeOK
<1>2. [archives[d] EXCEPT !.failed = wc] \in Archive
  BY <1>1 DEF Archive
<1>3. [archives[d] EXCEPT !.failed = wc].project = archives[d].project
  BY <1>1 DEF Archive
<1>4. QED
  BY <1>1, <1>2, <1>3 DEF TypeOK

\* Every action keeps the types.
LEMMA TypeStep == IInv /\ Next => TypeOK'
<1> SUFFICES ASSUME IInv, Next PROVE TypeOK'
  OBVIOUS
<1> USE DEF IInv, TypeOK, vars, Deployments, Archive, PCs, Contents, States, NoProject, Steps
<1>1. CASE Begin
  BY <1>1, ParametersAssumption DEF Begin, Goto, Skipped
<1>2. CASE Skip
  BY <1>2 DEF Skip, Goto
<1>3. CASE ArchiveDone
  <2>1. AddArchive(wc) /\ wc \in Contents /\ d > 0
    BY <1>3 DEF ArchiveDone, Begun
  <2>2. QED
    BY <1>3, <2>1, AddArchiveTypes DEF ArchiveDone, Goto
<1>4. CASE ArchiveFails
  <2> DEFINE partial == [wc EXCEPT !.state = "partial"]
  <2>1. partial \in Contents /\ d > 0
    BY <1>4 DEF ArchiveFails, Begun
  <2>2. DOMAIN archives' \subseteq Deployments /\ \A a \in DOMAIN archives' : archives'[a] \in Archive
    BY <1>4, <2>1, AddArchiveTypes DEF ArchiveFails
  <2>3. QED
    BY <1>4, <2>2 DEF ArchiveFails, Fail, Goto
<1>5. CASE ModulesDone
  BY <1>5 DEF ModulesDone, Goto
<1>6. CASE ModulesFail
  BY <1>6 DEF ModulesFail, Fail, RollbackUnlessDev, Goto
<1>7. CASE ReleaseDone
  BY <1>7 DEF ReleaseDone, Goto
<1>8. CASE ReleaseFails
  BY <1>8 DEF ReleaseFails, Fail, Goto
<1>9. CASE InstallDone
  BY <1>9 DEF InstallDone, Goto
<1>10. CASE InstallFails
  BY <1>10 DEF InstallFails, Fail, RollbackUnlessDev, Goto
<1>11. CASE RotateDone
  BY <1>11 DEF RotateDone, Goto, Restrict, ToKeep
<1>12. CASE RotateFails
  BY <1>12 DEF RotateFails, RotateUpTo, Fail, Goto, Restrict, Older
<1>13. CASE Rollback
  BY <1>13 DEF Rollback, RollsBack, Goto
<1>14. CASE NoRollback
  BY <1>14 DEF NoRollback, RollsBack, Goto
<1>15. CASE RollbackFails
  BY <1>15 DEF RollbackFails, FailLightly, RollsBack, Goto
<1>16. CASE FixpermsPasses
  BY <1>16 DEF FixpermsPasses, Goto
<1>17. CASE FixpermsFails
  BY <1>17 DEF FixpermsFails, FailLightly, Goto
<1>18. CASE Notify
  BY <1>18 DEF Notify, Announcement, Goto
<1>19. CASE NotifyFails
  BY <1>19 DEF NotifyFails, Goto
<1>20. CASE Crash
  <2> DEFINE partial == [wc EXCEPT !.state = "partial"]
  <2>1. partial \in Contents /\ d > 0
    BY <1>20 DEF Crash, Begun
  <2>2. DOMAIN archives' \subseteq Deployments /\ \A a \in DOMAIN archives' : archives'[a] \in Archive
    <3>1. CASE AddArchive(partial)
      BY <2>1, <3>1, AddArchiveTypes
    <3>2. ASSUME NEW a \in DOMAIN archives, RotateUpTo(a)
          PROVE  /\ DOMAIN archives' \subseteq Deployments
                 /\ \A b \in DOMAIN archives' : archives'[b] \in Archive
      BY <3>2 DEF RotateUpTo, Restrict
    <3>3. QED
      BY <1>20, <3>1, <3>2 DEF Crash
  <2>3. wc' \in Contents
    BY <1>20 DEF Crash
  <2>4. crashes' \in 0..MaxCrashes
    BY <1>20, ParametersAssumption DEF Crash
  <2>5. QED
    BY <1>20, <2>2, <2>3, <2>4 DEF Crash, Goto
<1>21. QED
  BY <1>1, <1>2, <1>3, <1>4, <1>5, <1>6, <1>7, <1>8, <1>9, <1>10, <1>11, <1>12, <1>13, <1>14, <1>15, <1>16, <1>17, <1>18, <1>19, <1>20 DEF Next

-----------------------------------------------------------------------------
(* The other parts of the invariant *)

\* A deployment that runs has a number.
LEMMA BegunStep == IInv /\ Next => Begun'
<1> SUFFICES ASSUME IInv, Next PROVE Begun'
  OBVIOUS
<1> USE DEF IInv, TypeOK, Begun, Deployments
<1>1. CASE Begin
  BY <1>1 DEF Begin, Goto
<1>2. CASE Skip
  BY <1>2 DEF Skip, Goto
<1>3. CASE ArchiveDone
  BY <1>3 DEF ArchiveDone, AddArchive, Goto
<1>4. CASE ArchiveFails
  BY <1>4 DEF ArchiveFails, Fail, AddArchive, Goto
<1>5. CASE ModulesDone
  BY <1>5 DEF ModulesDone, Goto
<1>6. CASE ModulesFail
  BY <1>6 DEF ModulesFail, Fail, RollbackUnlessDev, Goto
<1>7. CASE ReleaseDone
  BY <1>7 DEF ReleaseDone, Goto
<1>8. CASE ReleaseFails
  BY <1>8 DEF ReleaseFails, Fail, Goto
<1>9. CASE InstallDone
  BY <1>9 DEF InstallDone, Goto
<1>10. CASE InstallFails
  BY <1>10 DEF InstallFails, Fail, RollbackUnlessDev, Goto
<1>11. CASE RotateDone
  BY <1>11 DEF RotateDone, Goto
<1>12. CASE RotateFails
  BY <1>12 DEF RotateFails, Fail, Goto
<1>13. CASE Rollback
  BY <1>13 DEF Rollback, RollsBack, Goto
<1>14. CASE NoRollback
  BY <1>14 DEF NoRollback, RollsBack, Goto
<1>15. CASE RollbackFails
  BY <1>15 DEF RollbackFails, FailLightly, RollsBack, Goto
<1>16. CASE FixpermsPasses
  BY <1>16 DEF FixpermsPasses, Goto
<1>17. CASE FixpermsFails
  BY <1>17 DEF FixpermsFails, FailLightly, Goto
<1>18. CASE Notify
  BY <1>18 DEF Notify, Goto
<1>19. CASE NotifyFails
  BY <1>19 DEF NotifyFails, Goto
<1>20. CASE Crash
  BY <1>20 DEF Crash, AddArchive, RollsBack, Goto
<1>21. QED
  BY <1>1, <1>2, <1>3, <1>4, <1>5, <1>6, <1>7, <1>8, <1>9, <1>10, <1>11, <1>12, <1>13, <1>14, <1>15, <1>16, <1>17, <1>18, <1>19, <1>20 DEF Next

\* The record is clean until a step fails, and each failure ends the early steps.
LEMMA CleanStep == IInv /\ Next => Clean'
<1> SUFFICES ASSUME IInv, Next PROVE Clean'
  OBVIOUS
<1> USE DEF IInv, TypeOK, Clean, Early
<1>1. CASE Begin
  BY <1>1 DEF Begin, Goto
<1>2. CASE Skip
  BY <1>2 DEF Skip, Goto
<1>3. CASE ArchiveDone
  BY <1>3 DEF ArchiveDone, AddArchive, Goto
<1>4. CASE ArchiveFails
  BY <1>4 DEF ArchiveFails, Fail, AddArchive, Goto
<1>5. CASE ModulesDone
  BY <1>5 DEF ModulesDone, Goto
<1>6. CASE ModulesFail
  BY <1>6 DEF ModulesFail, Fail, RollbackUnlessDev, Goto
<1>7. CASE ReleaseDone
  BY <1>7 DEF ReleaseDone, Goto
<1>8. CASE ReleaseFails
  BY <1>8 DEF ReleaseFails, Fail, Goto
<1>9. CASE InstallDone
  BY <1>9 DEF InstallDone, Goto
<1>10. CASE InstallFails
  BY <1>10 DEF InstallFails, Fail, RollbackUnlessDev, Goto
<1>11. CASE RotateDone
  BY <1>11 DEF RotateDone, Goto
<1>12. CASE RotateFails
  BY <1>12 DEF RotateFails, Fail, Goto
<1>13. CASE Rollback
  BY <1>13 DEF Rollback, RollsBack, Goto
<1>14. CASE NoRollback
  BY <1>14 DEF NoRollback, RollsBack, Goto
<1>15. CASE RollbackFails
  BY <1>15 DEF RollbackFails, FailLightly, RollsBack, Goto
<1>16. CASE FixpermsPasses
  BY <1>16 DEF FixpermsPasses, Goto
<1>17. CASE FixpermsFails
  BY <1>17 DEF FixpermsFails, FailLightly, Goto
<1>18. CASE Notify
  BY <1>18 DEF Notify, Goto
<1>19. CASE NotifyFails
  BY <1>19 DEF NotifyFails, Goto
<1>20. CASE Crash
  BY <1>20 DEF Crash, AddArchive, RollsBack, Goto
<1>21. QED
  BY <1>1, <1>2, <1>3, <1>4, <1>5, <1>6, <1>7, <1>8, <1>9, <1>10, <1>11, <1>12, <1>13, <1>14, <1>15, <1>16, <1>17, <1>18, <1>19, <1>20 DEF Next

\* Only a project that exists is archived, by the deployment in progress.
LEMMA RealStep == IInv /\ Next => ArchivesAreReal'
<1> SUFFICES ASSUME IInv, Next PROVE ArchivesAreReal'
  OBVIOUS
<1> USE DEF IInv, TypeOK, ArchivesAreReal, NoProject, Exists, Deployments
<1>1. CASE Begin
  BY <1>1 DEF Begin, Goto
<1>2. CASE Skip
  BY <1>2 DEF Skip, Goto
<1>3. CASE ArchiveDone
  BY <1>3 DEF ArchiveDone, AddArchive, Goto
<1>4. CASE ArchiveFails
  BY <1>4 DEF ArchiveFails, Fail, AddArchive, Goto
<1>5. CASE ModulesDone
  BY <1>5 DEF ModulesDone, Goto
<1>6. CASE ModulesFail
  BY <1>6 DEF ModulesFail, Fail, RollbackUnlessDev, Goto
<1>7. CASE ReleaseDone
  BY <1>7 DEF ReleaseDone, Goto
<1>8. CASE ReleaseFails
  BY <1>8 DEF ReleaseFails, Fail, Goto
<1>9. CASE InstallDone
  BY <1>9 DEF InstallDone, Goto
<1>10. CASE InstallFails
  BY <1>10 DEF InstallFails, Fail, RollbackUnlessDev, Goto
<1>11. CASE RotateDone
  BY <1>11 DEF RotateDone, Goto, Restrict, ToKeep
<1>12. CASE RotateFails
  BY <1>12 DEF RotateFails, RotateUpTo, Fail, Goto, Restrict
<1>13. CASE Rollback
  BY <1>13, RollbackKeepsProjects DEF Rollback
<1>14. CASE NoRollback
  BY <1>14 DEF NoRollback, RollsBack, Goto
<1>15. CASE RollbackFails
  BY <1>15 DEF RollbackFails, FailLightly, RollsBack, Goto
<1>16. CASE FixpermsPasses
  BY <1>16 DEF FixpermsPasses, Goto
<1>17. CASE FixpermsFails
  BY <1>17 DEF FixpermsFails, FailLightly, Goto
<1>18. CASE Notify
  BY <1>18 DEF Notify, Goto
<1>19. CASE NotifyFails
  BY <1>19 DEF NotifyFails, Goto
<1>20. CASE Crash
  <2>1. UNCHANGED d
    BY <1>20 DEF Crash
  <2>2. CASE UNCHANGED archives
    BY <2>1, <2>2
  <2>3. CASE Exists /\ AddArchive([wc EXCEPT !.state = "partial"])
    BY <2>1, <2>3 DEF AddArchive
  <2>4. ASSUME NEW a \in DOMAIN archives, RotateUpTo(a) PROVE ArchivesAreReal'
    BY <2>1, <2>4 DEF RotateUpTo, Restrict
  <2>5. QED
    BY <1>20, <2>2, <2>3, <2>4 DEF Crash
<1>21. QED
  BY <1>1, <1>2, <1>3, <1>4, <1>5, <1>6, <1>7, <1>8, <1>9, <1>10, <1>11, <1>12, <1>13, <1>14, <1>15, <1>16, <1>17, <1>18, <1>19, <1>20 DEF Next

\* No step removes the project: a rollback puts a real archive there.
LEMMA ThereStep == IInv /\ Next => StillThere'
<1> SUFFICES ASSUME IInv, Next PROVE StillThere'
  OBVIOUS
<1> USE DEF IInv, TypeOK, ArchivesAreReal, StillThere, NoProject, Exists
<1>1. CASE Begin
  BY <1>1 DEF Begin, Goto
<1>2. CASE Skip
  BY <1>2 DEF Skip, Goto
<1>3. CASE ArchiveDone
  BY <1>3 DEF ArchiveDone, AddArchive, Goto
<1>4. CASE ArchiveFails
  BY <1>4 DEF ArchiveFails, Fail, AddArchive, Goto
<1>5. CASE ModulesDone
  BY <1>5 DEF ModulesDone, Goto
<1>6. CASE ModulesFail
  BY <1>6 DEF ModulesFail, Fail, RollbackUnlessDev, Goto
<1>7. CASE ReleaseDone
  BY <1>7 DEF ReleaseDone, Goto
<1>8. CASE ReleaseFails
  BY <1>8 DEF ReleaseFails, Fail, Goto
<1>9. CASE InstallDone
  BY <1>9 DEF InstallDone, Goto
<1>10. CASE InstallFails
  BY <1>10 DEF InstallFails, Fail, RollbackUnlessDev, Goto
<1>11. CASE RotateDone
  BY <1>11 DEF RotateDone, Goto
<1>12. CASE RotateFails
  BY <1>12 DEF RotateFails, Fail, Goto
<1>13. CASE Rollback
  BY <1>13 DEF Rollback, RollsBack, Goto
<1>14. CASE NoRollback
  BY <1>14 DEF NoRollback, RollsBack, Goto
<1>15. CASE RollbackFails
  BY <1>15 DEF RollbackFails, FailLightly, RollsBack, Goto
<1>16. CASE FixpermsPasses
  BY <1>16 DEF FixpermsPasses, Goto
<1>17. CASE FixpermsFails
  BY <1>17 DEF FixpermsFails, FailLightly, Goto
<1>18. CASE Notify
  BY <1>18 DEF Notify, Goto
<1>19. CASE NotifyFails
  BY <1>19 DEF NotifyFails, Goto
<1>20. CASE Crash
  BY <1>20 DEF Crash, AddArchive, RollsBack, Goto
<1>21. QED
  BY <1>1, <1>2, <1>3, <1>4, <1>5, <1>6, <1>7, <1>8, <1>9, <1>10, <1>11, <1>12, <1>13, <1>14, <1>15, <1>16, <1>17, <1>18, <1>19, <1>20 DEF Next

\* So does a rotation that stops half way, wherever it stops.
LEMMA PartialRotationKeepsOwn ==
  ASSUME IInv, Archived, UNCHANGED <<d, prior>>, NEW a \in DOMAIN archives, RotateUpTo(a)
  PROVE  Archived'
<1>1. a <= d
  BY DEF IInv, ArchivesAreReal
<1>2. d \notin Older(a)
  BY <1>1 DEF IInv, TypeOK, Older, Deployments
<1>3. QED
  BY <1>2 DEF Archived, RotateUpTo, Restrict

\* A rotation keeps the archive of the deployment, which is the last one.
LEMMA RotationKeepsOwn == IInv /\ (RotateDone \/ RotateFails) /\ Archived => Archived'
<1> SUFFICES ASSUME IInv, RotateDone \/ RotateFails, Archived PROVE Archived'
  OBVIOUS
<1> USE DEF IInv, TypeOK, ArchivesAreReal, Archived
<1>1. CASE RotateDone
  <2>1. d \in ToKeep
    <3>1. DOMAIN archives \ Older(d) = {d}
      BY DEF Older, Deployments
    <3>2. Cardinality({d}) = 1
      BY FS_Singleton
    <3>3. KeepArchives = 0 \/ Cardinality(DOMAIN archives \ Older(d)) <= KeepArchives
      <4>1. KeepArchives \in Nat
        BY ParametersAssumption
      <4>2. Cardinality(DOMAIN archives \ Older(d)) = 1
        BY <3>1, <3>2, Zenon
      <4>3. QED
        BY <4>1, <4>2
    <3>4. d \in DOMAIN archives
      OBVIOUS
    <3>5. QED
      BY <3>3, <3>4 DEF ToKeep
  <2>2. archives' = Restrict(archives, ToKeep)
    BY <1>1 DEF RotateDone
  <2>3. QED
    BY <1>1, <2>1, <2>2 DEF RotateDone, Restrict
<1>2. CASE RotateFails
  BY <1>2, PartialRotationKeepsOwn DEF RotateFails
<1>3. QED
  BY <1>1, <1>2

\* The archive is complete before the project is touched or a rollback asked for.
LEMMA SafetyNetStep == IInv /\ Next => SafetyNet'
<1> SUFFICES ASSUME IInv, Next PROVE SafetyNet'
  OBVIOUS
<1> USE DEF IInv, TypeOK, Begun, Clean, ArchivesAreReal, SafetyNet, Early, Archived
<1>1. CASE Begin
  BY <1>1 DEF Begin, Goto
<1>2. CASE Skip
  <2>1. CASE pc = "archive" /\ ("archive" \in skip \/ ~Exists) /\ Goto("modules")
    BY <1>2, <2>1 DEF Skip, Goto, Exists, NoProject
  <2>2. CASE pc = "release_sync" /\ pc \in skip /\ Goto("modules2")
    BY <1>2, <2>2 DEF Skip, Goto
  <2>3. CASE pc = "install" /\ pc \in skip /\ Goto("rotate_archives")
    BY <1>2, <2>3 DEF Skip, Goto
  <2>4. CASE pc = "rotate_archives" /\ pc \in skip /\ Goto("rollback")
    BY <1>2, <2>4 DEF Skip, Goto
  <2>5. QED
    BY <1>2, <2>1, <2>2, <2>3, <2>4 DEF Skip
<1>3. CASE ArchiveDone
  <2>1. AddArchive(wc) /\ wc \in Contents /\ d > 0
    BY <1>3 DEF ArchiveDone
  <2>2. QED
    BY <1>3, <2>1, AddArchiveTypes DEF ArchiveDone, Goto
<1>4. CASE ArchiveFails
  BY <1>4 DEF ArchiveFails, Fail, AddArchive, Goto
<1>5. CASE ModulesDone
  BY <1>5 DEF ModulesDone, Goto
<1>6. CASE ModulesFail
  BY <1>6 DEF ModulesFail, Fail, RollbackUnlessDev, Goto
<1>7. CASE ReleaseDone
  BY <1>7 DEF ReleaseDone, Goto
<1>8. CASE ReleaseFails
  BY <1>8 DEF ReleaseFails, Fail, Goto
<1>9. CASE InstallDone
  BY <1>9 DEF InstallDone, Goto
<1>10. CASE InstallFails
  BY <1>10 DEF InstallFails, Fail, RollbackUnlessDev, Goto
<1>11. CASE RotateDone
  BY <1>11, RotationKeepsOwn DEF RotateDone, Goto
<1>12. CASE RotateFails
  BY <1>12, RotationKeepsOwn DEF RotateFails, Fail, Goto
<1>13. CASE Rollback
  BY <1>13, RollbackKeepsProjects DEF Rollback, Goto
<1>14. CASE NoRollback
  BY <1>14 DEF NoRollback, RollsBack, Goto
<1>15. CASE RollbackFails
  BY <1>15 DEF RollbackFails, FailLightly, RollsBack, Goto
<1>16. CASE FixpermsPasses
  BY <1>16 DEF FixpermsPasses, Goto
<1>17. CASE FixpermsFails
  BY <1>17 DEF FixpermsFails, FailLightly, Goto
<1>18. CASE Notify
  BY <1>18 DEF Notify, Goto
<1>19. CASE NotifyFails
  BY <1>19 DEF NotifyFails, Goto
<1>20. CASE Crash
  BY <1>20 DEF Crash, AddArchive, RollsBack, Goto
<1>21. QED
  BY <1>1, <1>2, <1>3, <1>4, <1>5, <1>6, <1>7, <1>8, <1>9, <1>10, <1>11, <1>12, <1>13, <1>14, <1>15, <1>16, <1>17, <1>18, <1>19, <1>20 DEF Next

\* Whatever touches the project does so with the archive in place.
LEMMA PriorStep == IInv /\ Next => PriorIsArchived'
<1> SUFFICES ASSUME IInv, Next PROVE PriorIsArchived'
  OBVIOUS
<1> USE DEF IInv, TypeOK, Begun, Clean, ArchivesAreReal, SafetyNet, PriorIsArchived, Early, Archived
<1>1. CASE Begin
  BY <1>1 DEF Begin, Goto
<1>2. CASE Skip
  BY <1>2 DEF Skip, Goto
<1>3. CASE ArchiveDone
  BY <1>3 DEF ArchiveDone, AddArchive, Goto
<1>4. CASE ArchiveFails
  BY <1>4 DEF ArchiveFails, Fail, AddArchive, Goto
<1>5. CASE ModulesDone
  BY <1>5 DEF ModulesDone, Goto
<1>6. CASE ModulesFail
  BY <1>6 DEF ModulesFail, Fail, RollbackUnlessDev, Goto
<1>7. CASE ReleaseDone
  BY <1>7 DEF ReleaseDone, Goto
<1>8. CASE ReleaseFails
  BY <1>8 DEF ReleaseFails, Fail, Goto
<1>9. CASE InstallDone
  BY <1>9 DEF InstallDone, Goto
<1>10. CASE InstallFails
  BY <1>10 DEF InstallFails, Fail, RollbackUnlessDev, Goto
<1>11. CASE RotateDone
  BY <1>11, RotationKeepsOwn DEF RotateDone, Goto
<1>12. CASE RotateFails
  BY <1>12, RotationKeepsOwn DEF RotateFails, Fail, Goto
<1>13. CASE Rollback
  BY <1>13 DEF Rollback, RollsBack, Goto
<1>14. CASE NoRollback
  BY <1>14 DEF NoRollback, RollsBack, Goto
<1>15. CASE RollbackFails
  BY <1>15 DEF RollbackFails, FailLightly, RollsBack, Goto
<1>16. CASE FixpermsPasses
  BY <1>16 DEF FixpermsPasses, Goto
<1>17. CASE FixpermsFails
  BY <1>17 DEF FixpermsFails, FailLightly, Goto
<1>18. CASE Notify
  BY <1>18 DEF Notify, Goto
<1>19. CASE NotifyFails
  BY <1>19 DEF NotifyFails, Goto
<1>20. CASE Crash
  <2>1. CASE pc = "rotate_archives"
    <3>1. \/ UNCHANGED archives
          \/ \E a \in DOMAIN archives : RotateUpTo(a)
      BY <1>20, <2>1 DEF Crash
    <3>2. UNCHANGED <<d, prior, wc, skip>>
      BY <1>20, <2>1 DEF Crash
    <3>3. Archived => Archived'
      BY <3>1, <3>2, PartialRotationKeepsOwn
    <3>4. QED
      BY <3>2, <3>3
  <2>2. CASE pc # "rotate_archives"
    BY <1>20, <2>2 DEF Crash, AddArchive, RollsBack, Goto
  <2>3. QED
    BY <2>1, <2>2
<1>21. QED
  BY <1>1, <1>2, <1>3, <1>4, <1>5, <1>6, <1>7, <1>8, <1>9, <1>10, <1>11, <1>12, <1>13, <1>14, <1>15, <1>16, <1>17, <1>18, <1>19, <1>20 DEF Next

\* Failures and the result go together; the outcome keeps them past fixperms and notify.
LEMMA ResultsStep == IInv /\ Next => Results'
<1> SUFFICES ASSUME IInv, Next PROVE Results'
  OBVIOUS
<1> USE DEF IInv, TypeOK, Clean, Results, Early, Light
<1>1. CASE Begin
  BY <1>1 DEF Begin, Goto
<1>2. CASE Skip
  BY <1>2 DEF Skip, Goto
<1>3. CASE ArchiveDone
  BY <1>3 DEF ArchiveDone, AddArchive, Goto
<1>4. CASE ArchiveFails
  BY <1>4 DEF ArchiveFails, Fail, AddArchive, Goto
<1>5. CASE ModulesDone
  BY <1>5 DEF ModulesDone, Goto
<1>6. CASE ModulesFail
  BY <1>6 DEF ModulesFail, Fail, RollbackUnlessDev, Goto
<1>7. CASE ReleaseDone
  BY <1>7 DEF ReleaseDone, Goto
<1>8. CASE ReleaseFails
  BY <1>8 DEF ReleaseFails, Fail, Goto
<1>9. CASE InstallDone
  BY <1>9 DEF InstallDone, Goto
<1>10. CASE InstallFails
  BY <1>10 DEF InstallFails, Fail, RollbackUnlessDev, Goto
<1>11. CASE RotateDone
  BY <1>11 DEF RotateDone, Goto
<1>12. CASE RotateFails
  BY <1>12 DEF RotateFails, Fail, Goto
<1>13. CASE Rollback
  BY <1>13 DEF Rollback, RollsBack, Goto
<1>14. CASE NoRollback
  BY <1>14 DEF NoRollback, RollsBack, Goto
<1>15. CASE RollbackFails
  BY <1>15 DEF RollbackFails, FailLightly, RollsBack, Goto
<1>16. CASE FixpermsPasses
  BY <1>16 DEF FixpermsPasses, Goto
<1>17. CASE FixpermsFails
  BY <1>17 DEF FixpermsFails, FailLightly, Goto
<1>18. CASE Notify
  BY <1>18 DEF Notify, Goto
<1>19. CASE NotifyFails
  BY <1>19 DEF NotifyFails, Goto
<1>20. CASE Crash
  BY <1>20 DEF Crash, AddArchive, RollsBack, Goto
<1>21. QED
  BY <1>1, <1>2, <1>3, <1>4, <1>5, <1>6, <1>7, <1>8, <1>9, <1>10, <1>11, <1>12, <1>13, <1>14, <1>15, <1>16, <1>17, <1>18, <1>19, <1>20 DEF Next

\* A failure in production raises the flag, and the rollback restores the archive.
LEMMA RestoresStep == IInv /\ Next => Restores'
<1> SUFFICES ASSUME IInv, Next PROVE Restores'
  OBVIOUS
<1> USE DEF IInv, TypeOK, Clean, StillThere, SafetyNet, Restores, Early, Light, MustRestore, Archived, Exists
<1>1. CASE Begin
  BY <1>1 DEF Begin, Goto
<1>2. CASE Skip
  BY <1>2 DEF Skip, Goto
<1>3. CASE ArchiveDone
  BY <1>3 DEF ArchiveDone, AddArchive, Goto
<1>4. CASE ArchiveFails
  BY <1>4 DEF ArchiveFails, Fail, AddArchive, Goto
<1>5. CASE ModulesDone
  BY <1>5 DEF ModulesDone, Goto
<1>6. CASE ModulesFail
  BY <1>6 DEF ModulesFail, Fail, RollbackUnlessDev, Goto
<1>7. CASE ReleaseDone
  BY <1>7 DEF ReleaseDone, Goto
<1>8. CASE ReleaseFails
  BY <1>8 DEF ReleaseFails, Fail, Goto
<1>9. CASE InstallDone
  BY <1>9 DEF InstallDone, Goto
<1>10. CASE InstallFails
  BY <1>10 DEF InstallFails, Fail, RollbackUnlessDev, Goto
<1>11. CASE RotateDone
  BY <1>11 DEF RotateDone, Goto
<1>12. CASE RotateFails
  BY <1>12 DEF RotateFails, Fail, Goto
<1>13. CASE Rollback
  BY <1>13 DEF Rollback, RollsBack, Goto
<1>14. CASE NoRollback
  BY <1>14 DEF NoRollback, RollsBack, Goto
<1>15. CASE RollbackFails
  BY <1>15 DEF RollbackFails, FailLightly, RollsBack, Goto
<1>16. CASE FixpermsPasses
  BY <1>16 DEF FixpermsPasses, Goto
<1>17. CASE FixpermsFails
  BY <1>17 DEF FixpermsFails, FailLightly, Goto
<1>18. CASE Notify
  BY <1>18 DEF Notify, Goto
<1>19. CASE NotifyFails
  BY <1>19 DEF NotifyFails, Goto
<1>20. CASE Crash
  BY <1>20 DEF Crash, AddArchive, RollsBack, Goto
<1>21. QED
  BY <1>1, <1>2, <1>3, <1>4, <1>5, <1>6, <1>7, <1>8, <1>9, <1>10, <1>11, <1>12, <1>13, <1>14, <1>15, <1>16, <1>17, <1>18, <1>19, <1>20 DEF Next

\* In dev only a failed release_sync raises the flag, unless there is no project.
LEMMA DevFlagStep == IInv /\ Next => DevFlag'
<1> SUFFICES ASSUME IInv, Next PROVE DevFlag'
  OBVIOUS
<1> USE DEF IInv, TypeOK, Clean, DevFlag, Early, Exists
<1>1. CASE Begin
  BY <1>1 DEF Begin, Goto
<1>2. CASE Skip
  BY <1>2 DEF Skip, Goto
<1>3. CASE ArchiveDone
  BY <1>3 DEF ArchiveDone, AddArchive, Goto
<1>4. CASE ArchiveFails
  BY <1>4 DEF ArchiveFails, Fail, AddArchive, Goto
<1>5. CASE ModulesDone
  BY <1>5 DEF ModulesDone, Goto
<1>6. CASE ModulesFail
  BY <1>6 DEF ModulesFail, Fail, RollbackUnlessDev, Goto
<1>7. CASE ReleaseDone
  BY <1>7 DEF ReleaseDone, Goto
<1>8. CASE ReleaseFails
  BY <1>8 DEF ReleaseFails, Fail, Goto
<1>9. CASE InstallDone
  BY <1>9 DEF InstallDone, Goto
<1>10. CASE InstallFails
  BY <1>10 DEF InstallFails, Fail, RollbackUnlessDev, Goto
<1>11. CASE RotateDone
  BY <1>11 DEF RotateDone, Goto
<1>12. CASE RotateFails
  BY <1>12 DEF RotateFails, Fail, Goto
<1>13. CASE Rollback
  BY <1>13 DEF Rollback, RollsBack, Goto
<1>14. CASE NoRollback
  BY <1>14 DEF NoRollback, RollsBack, Goto
<1>15. CASE RollbackFails
  BY <1>15 DEF RollbackFails, FailLightly, RollsBack, Goto
<1>16. CASE FixpermsPasses
  BY <1>16 DEF FixpermsPasses, Goto
<1>17. CASE FixpermsFails
  BY <1>17 DEF FixpermsFails, FailLightly, Goto
<1>18. CASE Notify
  BY <1>18 DEF Notify, Goto
<1>19. CASE NotifyFails
  BY <1>19 DEF NotifyFails, Goto
<1>20. CASE Crash
  BY <1>20 DEF Crash, AddArchive, RollsBack, Goto
<1>21. QED
  BY <1>1, <1>2, <1>3, <1>4, <1>5, <1>6, <1>7, <1>8, <1>9, <1>10, <1>11, <1>12, <1>13, <1>14, <1>15, <1>16, <1>17, <1>18, <1>19, <1>20 DEF Next

\* Without a failure every step finds what the one before it has left.
LEMMA InstallsStep == IInv /\ Next => Installs'
<1> SUFFICES ASSUME IInv, Next PROVE Installs'
  OBVIOUS
<1> USE DEF IInv, TypeOK, Clean, Results, Installs, Early, Light
<1>1. CASE Begin
  BY <1>1 DEF Begin, Goto
<1>2. CASE Skip
  BY <1>2 DEF Skip, Goto
<1>3. CASE ArchiveDone
  BY <1>3 DEF ArchiveDone, AddArchive, Goto
<1>4. CASE ArchiveFails
  BY <1>4 DEF ArchiveFails, Fail, AddArchive, Goto
<1>5. CASE ModulesDone
  BY <1>5 DEF ModulesDone, Goto
<1>6. CASE ModulesFail
  BY <1>6 DEF ModulesFail, Fail, RollbackUnlessDev, Goto
<1>7. CASE ReleaseDone
  BY <1>7 DEF ReleaseDone, Goto
<1>8. CASE ReleaseFails
  BY <1>8 DEF ReleaseFails, Fail, Goto
<1>9. CASE InstallDone
  BY <1>9 DEF InstallDone, Goto, Exists
<1>10. CASE InstallFails
  BY <1>10 DEF InstallFails, Fail, RollbackUnlessDev, Goto
<1>11. CASE RotateDone
  BY <1>11 DEF RotateDone, Goto
<1>12. CASE RotateFails
  BY <1>12 DEF RotateFails, Fail, Goto
<1>13. CASE Rollback
  BY <1>13 DEF Rollback, RollsBack, Goto
<1>14. CASE NoRollback
  BY <1>14 DEF NoRollback, RollsBack, Goto
<1>15. CASE RollbackFails
  BY <1>15 DEF RollbackFails, FailLightly, RollsBack, Goto
<1>16. CASE FixpermsPasses
  BY <1>16 DEF FixpermsPasses, Goto
<1>17. CASE FixpermsFails
  BY <1>17 DEF FixpermsFails, FailLightly, Goto
<1>18. CASE Notify
  BY <1>18 DEF Notify, Goto
<1>19. CASE NotifyFails
  BY <1>19 DEF NotifyFails, Goto
<1>20. CASE Crash
  BY <1>20 DEF Crash, AddArchive, RollsBack, Goto
<1>21. QED
  BY <1>1, <1>2, <1>3, <1>4, <1>5, <1>6, <1>7, <1>8, <1>9, <1>10, <1>11, <1>12, <1>13, <1>14, <1>15, <1>16, <1>17, <1>18, <1>19, <1>20 DEF Next

\* A set of numbers has a least one: the sets of the numbers below them are ordered by inclusion.
LEMMA LeastExists ==
  ASSUME NEW S, S \subseteq Nat, S # {}
  PROVE  \E m \in S : \A n \in S : m <= n
<1> DEFINE Below(n) == 0 .. (n - 1)
           T == {Below(n) : n \in S}
<1>1. T # {} /\ T \subseteq FiniteSubsetsOf(Nat)
  <2>1. ASSUME NEW n \in S PROVE Below(n) \in FiniteSubsetsOf(Nat)
    <3>1. IsFiniteSet(Below(n))
      <4>1. 0 \in Int /\ n - 1 \in Int
        OBVIOUS
      <4>2. QED
        BY <4>1, FS_Interval
    <3>2. Below(n) \subseteq Nat
      OBVIOUS
    <3> HIDE DEF Below
    <3>3. QED
      BY <3>1, <3>2 DEF FiniteSubsetsOf
  <2> HIDE DEF Below
  <2>2. QED
    BY <2>1
<1>2. PICK x \in T : \A y \in T : <<y, x>> \notin StrictSubsetOrdering(Nat)
  <2> HIDE DEF T
  <2>1. QED
    BY <1>1, FS_StrictSubsetOrderingWellFounded, WFMin
<1>3. PICK m \in S : x = Below(m)
  OBVIOUS
<1>4. ASSUME NEW n \in S, n < m PROVE FALSE
  <2>1. n \in Below(m) /\ n \notin Below(n) /\ Below(n) \subseteq Below(m)
    BY <1>4
  <2>2. Below(n) \in T /\ Below(n) \in SUBSET Nat /\ Below(m) \in SUBSET Nat
    OBVIOUS
  <2> HIDE DEF Below, T
  <2>3. <<Below(n), x>> \in StrictSubsetOrdering(Nat)
    BY <1>3, <2>1, <2>2 DEF StrictSubsetOrdering
  <2>4. QED
    BY <1>2, <2>2, <2>3
<1>5. QED
  BY <1>4

\* What a rotation keeps is the oldest archive of them and the younger ones: as many as it may.
LEMMA FewAreKept ==
  ASSUME TypeOK, KeepArchives > 0
  PROVE  Cardinality(ToKeep) <= KeepArchives
<1>1. KeepArchives \in Nat /\ MaxDeploys \in Nat
  BY ParametersAssumption
<1>2. CASE ToKeep = {}
  BY <1>1, <1>2, FS_EmptySet
<1>3. CASE ToKeep # {}
  <2>1. DOMAIN archives \subseteq Deployments /\ ToKeep \subseteq DOMAIN archives
    BY DEF TypeOK, ToKeep
  <2>2. ToKeep \subseteq Nat /\ IsFiniteSet(Deployments)
    BY <1>1, <2>1, FS_Interval DEF Deployments
  <2>3. PICK m \in ToKeep : \A n \in ToKeep : m <= n
    BY <1>3, <2>2, LeastExists
  <2> DEFINE Younger == DOMAIN archives \ Older(m)
  <2>4. ToKeep \subseteq Younger
    <3>1. ASSUME NEW n \in ToKeep PROVE n \notin Older(m)
      BY <2>2, <2>3, <3>1 DEF Older
    <3>2. QED
      BY <2>1, <3>1
  <2>5. Cardinality(Younger) <= KeepArchives
    BY <1>1, <2>3 DEF ToKeep
  <2>6. IsFiniteSet(Younger)
    BY <2>1, <2>2, FS_Subset
  <2> HIDE DEF Younger
  <2>7. Cardinality(ToKeep) <= Cardinality(Younger) /\ IsFiniteSet(ToKeep)
    BY <2>4, <2>6, FS_Subset
  <2>8. Cardinality(ToKeep) \in Nat /\ Cardinality(Younger) \in Nat
    BY <2>6, <2>7, FS_CardinalityType
  <2>9. QED
    BY <1>1, <2>5, <2>7, <2>8
<1>4. QED
  BY <1>2, <1>3

\* A rotation that has not failed has kept few archives, and that of the deployment.
LEMMA RotatesStep == IInv /\ Next => Rotates'
<1> SUFFICES ASSUME IInv, Next PROVE Rotates'
  OBVIOUS
<1> USE DEF IInv, TypeOK, Clean, Results, Installs, SafetyNet, Rotates, Rotated, Early, Light
<1>1. CASE Begin
  BY <1>1 DEF Begin, Goto
<1>2. CASE Skip
  BY <1>2 DEF Skip, Goto
<1>3. CASE ArchiveDone
  BY <1>3 DEF ArchiveDone, AddArchive, Goto
<1>4. CASE ArchiveFails
  BY <1>4 DEF ArchiveFails, Fail, AddArchive, Goto
<1>5. CASE ModulesDone
  BY <1>5 DEF ModulesDone, Goto
<1>6. CASE ModulesFail
  BY <1>6 DEF ModulesFail, Fail, RollbackUnlessDev, Goto
<1>7. CASE ReleaseDone
  BY <1>7 DEF ReleaseDone, Goto
<1>8. CASE ReleaseFails
  BY <1>8 DEF ReleaseFails, Fail, Goto
<1>9. CASE InstallDone
  BY <1>9 DEF InstallDone, Goto, Exists
<1>10. CASE InstallFails
  BY <1>10 DEF InstallFails, Fail, RollbackUnlessDev, Goto
<1>11. CASE RotateDone
  <2>1. KeepArchives > 0 => Cardinality(DOMAIN archives') <= KeepArchives
    <3>1. archives' = Restrict(archives, ToKeep) /\ ToKeep \subseteq DOMAIN archives
      BY <1>11 DEF RotateDone, ToKeep
    <3>2. DOMAIN archives' = ToKeep
      BY <3>1 DEF Restrict
    <3>3. QED
      BY <3>2, FewAreKept
  <2>2. "archive" \notin skip => prior = NoProject \/ Archived
    BY <1>11 DEF RotateDone
  <2>3. pc' = "rollback" /\ UNCHANGED <<d, skip, prior>>
    BY <1>11 DEF RotateDone, Goto
  <2>4. Archived => d \in DOMAIN archives'
    BY <1>11, <2>3, RotationKeepsOwn DEF Archived
  <2>5. QED
    BY <2>1, <2>2, <2>3, <2>4
<1>12. CASE RotateFails
  BY <1>12 DEF RotateFails, Fail, Goto
<1>13. CASE Rollback
  BY <1>13 DEF Rollback, RollsBack, Goto
<1>14. CASE NoRollback
  BY <1>14 DEF NoRollback, RollsBack, Goto
<1>15. CASE RollbackFails
  BY <1>15 DEF RollbackFails, FailLightly, RollsBack, Goto
<1>16. CASE FixpermsPasses
  BY <1>16 DEF FixpermsPasses, Goto
<1>17. CASE FixpermsFails
  BY <1>17 DEF FixpermsFails, FailLightly, Goto
<1>18. CASE Notify
  BY <1>18 DEF Notify, Goto
<1>19. CASE NotifyFails
  BY <1>19 DEF NotifyFails, Goto
<1>20. CASE Crash
  BY <1>20 DEF Crash, AddArchive, RollsBack, Goto
<1>21. QED
  BY <1>1, <1>2, <1>3, <1>4, <1>5, <1>6, <1>7, <1>8, <1>9, <1>10, <1>11, <1>12, <1>13, <1>14, <1>15, <1>16, <1>17, <1>18, <1>19, <1>20 DEF Next

\* A deployment archives nothing before its archive step.
LEMMA OwnStep == IInv /\ Next => OwnArchive'
<1> SUFFICES ASSUME IInv, Next PROVE OwnArchive'
  OBVIOUS
<1> USE DEF IInv, TypeOK, Begun, ArchivesAreReal, OwnArchive, Deployments
<1>1. CASE Begin
  BY <1>1 DEF Begin, Goto, Skipped, Whole
<1>2. CASE Skip
  BY <1>2 DEF Skip, Goto
<1>3. CASE ArchiveDone
  BY <1>3 DEF ArchiveDone, AddArchive, Goto
<1>4. CASE ArchiveFails
  BY <1>4 DEF ArchiveFails, Fail, AddArchive, Goto
<1>5. CASE ModulesDone
  BY <1>5 DEF ModulesDone, Goto
<1>6. CASE ModulesFail
  BY <1>6 DEF ModulesFail, Fail, Goto
<1>7. CASE ReleaseDone
  BY <1>7 DEF ReleaseDone, Goto
<1>8. CASE ReleaseFails
  BY <1>8 DEF ReleaseFails, Fail, Goto
<1>9. CASE InstallDone
  BY <1>9 DEF InstallDone, Goto, Exists
<1>10. CASE InstallFails
  BY <1>10 DEF InstallFails, Fail, Goto
<1>11. CASE RotateDone
  BY <1>11 DEF RotateDone, Goto, Restrict, ToKeep
<1>12. CASE RotateFails
  BY <1>12 DEF RotateFails, RotateUpTo, Fail, Goto, Restrict
<1>13. CASE Rollback
  BY <1>13 DEF Rollback, Goto
<1>14. CASE NoRollback
  BY <1>14 DEF NoRollback, RollsBack, Goto
<1>15. CASE RollbackFails
  BY <1>15 DEF RollbackFails, FailLightly, RollsBack, Goto
<1>16. CASE FixpermsPasses
  BY <1>16 DEF FixpermsPasses, Goto
<1>17. CASE FixpermsFails
  BY <1>17 DEF FixpermsFails, FailLightly, Goto
<1>18. CASE Notify
  BY <1>18 DEF Notify, Goto
<1>19. CASE NotifyFails
  BY <1>19 DEF NotifyFails, Goto
<1>20. CASE Crash
  BY <1>20 DEF Crash, AddArchive, RotateUpTo, Restrict, RollsBack, Goto
<1>21. QED
  BY <1>1, <1>2, <1>3, <1>4, <1>5, <1>6, <1>7, <1>8, <1>9, <1>10, <1>11, <1>12, <1>13, <1>14, <1>15, <1>16, <1>17, <1>18, <1>19, <1>20 DEF Next

\* Archiving keeps the archives of the deployments before.
LEMMA ArchivingKeepsGood ==
  ASSUME TypeOK, d > 0, d \notin DOMAIN archives, good' = good,
         NEW content \in Contents, AddArchive(content)
  PROVE  /\ InArchives => InArchives'
         /\ content = good => InArchives'
<1>1. /\ DOMAIN archives' = DOMAIN archives \cup {d}
      /\ \A a \in DOMAIN archives : archives'[a] = archives[a]
      /\ archives'[d].project = content
  BY AddArchiveTypes
<1>2. QED
  BY <1>1 DEF InArchives

\* What was installed last is archived before it is changed, and until the next installation.
LEMMA RecoverableStep == IInv /\ Next => Recoverable'
<1> SUFFICES ASSUME IInv, Next PROVE Recoverable'
  OBVIOUS
<1> USE DEF IInv, TypeOK, Begun, Clean, OwnArchive, Recoverable, WholeSkips, Early
<1>1. CASE Begin
  BY <1>1 DEF Begin, Goto, Skipped, Whole, InArchives
<1>2. CASE Skip
  <2>0. UNCHANGED <<skip, wc, archives, flag, good, whole>> /\ InArchives' = InArchives
    BY <1>2 DEF Skip, InArchives
  <2>1. CASE pc = "archive" /\ ("archive" \in skip \/ ~Exists) /\ Goto("modules")
    BY <2>0, <2>1 DEF Goto, Exists
  <2>2. CASE pc = "release_sync" /\ pc \in skip /\ Goto("modules2")
    BY <2>0, <2>2 DEF Goto
  <2>3. CASE pc = "install" /\ pc \in skip /\ Goto("rotate_archives")
    BY <2>0, <2>3 DEF Goto
  <2>4. CASE pc = "rotate_archives" /\ pc \in skip /\ Goto("rollback")
    BY <2>0, <2>4 DEF Goto
  <2>5. QED
    BY <1>2, <2>1, <2>2, <2>3, <2>4 DEF Skip
<1>3. CASE ArchiveDone
  <2>1. InArchives \/ wc = good => InArchives'
    BY <1>3, ArchivingKeepsGood DEF ArchiveDone
  <2>2. QED
    BY <1>3, <2>1 DEF ArchiveDone, Goto
<1>4. CASE ArchiveFails
  <2> DEFINE partial == [wc EXCEPT !.state = "partial"]
  <2>1. partial \in Contents
    BY DEF Contents, States
  <2>2. InArchives => InArchives'
    <3>1. CASE AddArchive(partial)
      BY <1>4, <2>1, <3>1, ArchivingKeepsGood DEF ArchiveFails
    <3>2. CASE UNCHANGED archives
      BY <1>4, <3>2 DEF ArchiveFails, InArchives
    <3>3. QED
      BY <1>4, <3>1, <3>2 DEF ArchiveFails
  <2>3. QED
    BY <1>4, <2>2 DEF ArchiveFails, Fail, Goto
<1>5. CASE ModulesDone
  BY <1>5 DEF ModulesDone, Goto, InArchives
<1>6. CASE ModulesFail
  BY <1>6 DEF ModulesFail, Fail, Goto, InArchives
<1>7. CASE ReleaseDone
  BY <1>7 DEF ReleaseDone, Goto, InArchives
<1>8. CASE ReleaseFails
  BY <1>8 DEF ReleaseFails, Fail, Goto, InArchives
<1>9. CASE InstallDone
  BY <1>9 DEF InstallDone, Goto, Exists, NoProject
<1>10. CASE InstallFails
  BY <1>10 DEF InstallFails, Fail, Goto, InArchives
<1>11. CASE RotateDone
  BY <1>11 DEF RotateDone, Goto
<1>12. CASE RotateFails
  BY <1>12 DEF RotateFails, Fail, Goto
<1>13. CASE Rollback
  <2>1. InArchives => InArchives'
    <3>1. CASE d \in DOMAIN archives
      BY <1>13, <3>1, RollbackKeepsProjects DEF Rollback, InArchives
    <3>2. CASE d \notin DOMAIN archives
      BY <1>13, <3>2 DEF Rollback, InArchives
    <3>3. QED
      BY <3>1, <3>2
  <2>2. QED
    BY <1>13, <2>1 DEF Rollback, RollsBack, Goto
<1>14. CASE NoRollback
  BY <1>14 DEF NoRollback, RollsBack, Goto, InArchives
<1>15. CASE RollbackFails
  BY <1>15 DEF RollbackFails, FailLightly, RollsBack, Goto, InArchives
<1>16. CASE FixpermsPasses
  BY <1>16 DEF FixpermsPasses, Goto, InArchives
<1>17. CASE FixpermsFails
  BY <1>17 DEF FixpermsFails, FailLightly, Goto, InArchives
<1>18. CASE Notify
  BY <1>18 DEF Notify, Goto, InArchives
<1>19. CASE NotifyFails
  BY <1>19 DEF NotifyFails, Goto, InArchives
<1>20. CASE Crash
  <2>1. InArchives /\ (pc # "rotate_archives" \/ UNCHANGED archives) => InArchives'
    <3> DEFINE partial == [wc EXCEPT !.state = "partial"]
    <3>1. partial \in Contents
      BY DEF Contents, States
    <3>2. CASE UNCHANGED archives
      BY <1>20, <3>2 DEF Crash, InArchives
    <3>3. CASE pc = "archive" /\ AddArchive(partial)
      BY <1>20, <3>1, <3>3, ArchivingKeepsGood DEF Crash
    <3>4. QED
      BY <1>20, <3>2, <3>3 DEF Crash
  <2>2. QED
    BY <1>20, <2>1 DEF Crash, RollsBack, Goto
<1>21. QED
  BY <1>1, <1>2, <1>3, <1>4, <1>5, <1>6, <1>7, <1>8, <1>9, <1>10, <1>11, <1>12, <1>13, <1>14, <1>15, <1>16, <1>17, <1>18, <1>19, <1>20 DEF Next

-----------------------------------------------------------------------------
(* The invariant, and what follows from it *)

LEMMA InitHolds == Init => IInv
<1> SUFFICES ASSUME Init PROVE IInv
  OBVIOUS
<1>1. TypeOK
  BY ParametersAssumption, ContentTypes
     DEF Init, TypeOK, NoProject, Contents, States, Steps, PCs, Deployments
<1>2. QED
  BY <1>1 DEF Init, IInv, Begun, Clean, Early, ArchivesAreReal, StillThere, SafetyNet, Archived,
              PriorIsArchived, Results, Light, Restores, DevFlag, Installs,
              Rotates, OwnArchive, Recoverable, InArchives, WholeSkips

LEMMA StutterHolds == IInv /\ UNCHANGED vars => IInv'
  BY DEF vars, IInv, TypeOK, Begun, Clean, ArchivesAreReal, StillThere, SafetyNet, Archived,
         PriorIsArchived, Results, Restores, MustRestore, DevFlag, Exists, Installs,
         Rotates, Rotated, Light, OwnArchive, Recoverable, InArchives, WholeSkips

\* IInv holds in every state.
THEOREM Invariance == Spec => []IInv
<1>1. IInv /\ Next => IInv'
  BY TypeStep, BegunStep, CleanStep, RealStep, ThereStep, SafetyNetStep, PriorStep, ResultsStep,
     RestoresStep, DevFlagStep, InstallsStep, RotatesStep, OwnStep, RecoverableStep DEF IInv
<1>2. IInv /\ [Next]_vars => IInv'
  BY <1>1, StutterHolds
<1>3. QED
  BY InitHolds, <1>2, PTL DEF Spec

\* Variables keep their types.
THEOREM TypeCorrect == Spec => []TypeOK
<1>1. IInv => TypeOK
  BY DEF IInv
<1>2. QED
  BY <1>1, Invariance, PTL

\* What was there when a deployment began can be recovered, wherever the deployment stops or
\* dies: its archive is complete before the project is touched, and no rotation removes it.
THEOREM PriorIsRecoverable == Spec => []PriorIsArchived
<1>1. IInv => PriorIsArchived
  BY DEF IInv
<1>2. QED
  BY <1>1, Invariance, PTL

\* A failed deployment in production leaves the project as it was, unless its rollback or its
\* rotation has failed as well, or archive or rollback are skipped.
THEOREM FailureRestores == Spec => []FailedDeploymentRestores
<1>1. IInv => FailedDeploymentRestores
  <2> SUFFICES ASSUME IInv PROVE FailedDeploymentRestores
    OBVIOUS
  <2>1. MustRestore /\ pc = "done" /\ result = "failed" => wc = prior
    BY DEF IInv, Restores
  <2>2. QED
    BY <2>1 DEF FailedDeploymentRestores, MustRestore
<1>2. QED
  BY <1>1, Invariance, PTL

\* The result of a deployment is a failure exactly when a step that counts has failed.
THEOREM ResultIsTrue == Spec => []ResultTellsFailures
<1>1. IInv => ResultTellsFailures
  BY DEF IInv, TypeOK, Results, Light, ResultTellsFailures
<1>2. QED
  BY <1>1, Invariance, PTL

\* A success of a whole deployment has installed the revision that was pushed.
THEOREM SuccessInstalls == Spec => []SuccessIsInstalled
<1>1. IInv => SuccessIsInstalled
  BY DEF IInv, Installs, SuccessIsInstalled
<1>2. QED
  BY <1>1, Invariance, PTL

\* A deployment that succeeds leaves at most keep_archives archives, and its own among them.
THEOREM RotationIsRight == Spec => []RotationKeepsTheLast
<1>1. IInv => RotationKeepsTheLast
  BY DEF IInv, Rotates, Rotated, RotationKeepsTheLast
<1>2. QED
  BY <1>1, Invariance, PTL

\* Across any number of deployments that fail or die, what the last successful installation left
\* is in place or in an archive, as long as no request has given up the archive or rotated
\* without installing.
THEOREM LastGoodIsRecoverable == Spec => []GoodIsRecoverable
<1>1. IInv => GoodIsRecoverable
  BY DEF IInv, Recoverable, InArchives, GoodIsRecoverable
<1>2. QED
  BY <1>1, Invariance, PTL

\* In dev only a failed release_sync makes a deployment overwrite the working copy.
THEOREM DevIsLeftAlone == Spec => DevKeepsFailures
<1> DEFINE A == env = "dev" /\ pc = "rollback" /\ wc' # wc => "release_sync" \in failures
<1>1. IInv /\ Next => A
  <2> SUFFICES ASSUME IInv, Next, env = "dev", pc = "rollback", wc' # wc
               PROVE  "release_sync" \in failures
    OBVIOUS
  <2>1. flag = "yes" /\ Exists
    <3>1. CASE Begin
      BY <3>1 DEF Begin
    <3>2. CASE Skip
      BY <3>2 DEF Skip
    <3>3. CASE ArchiveDone
      BY <3>3 DEF ArchiveDone
    <3>4. CASE ArchiveFails
      BY <3>4 DEF ArchiveFails
    <3>5. CASE ModulesDone
      BY <3>5 DEF ModulesDone
    <3>6. CASE ModulesFail
      BY <3>6 DEF ModulesFail
    <3>7. CASE ReleaseDone
      BY <3>7 DEF ReleaseDone
    <3>8. CASE ReleaseFails
      BY <3>8 DEF ReleaseFails
    <3>9. CASE InstallDone
      BY <3>9 DEF InstallDone
    <3>10. CASE InstallFails
      BY <3>10 DEF InstallFails
    <3>11. CASE RotateDone
      BY <3>11 DEF RotateDone
    <3>12. CASE RotateFails
      BY <3>12 DEF RotateFails
    <3>13. CASE Rollback
      BY <3>13 DEF Rollback, RollsBack
    <3>14. CASE NoRollback
      BY <3>14 DEF NoRollback, RollsBack
    <3>15. CASE RollbackFails
      BY <3>15 DEF RollbackFails, RollsBack
    <3>16. CASE FixpermsPasses
      BY <3>16 DEF FixpermsPasses
    <3>17. CASE FixpermsFails
      BY <3>17 DEF FixpermsFails
    <3>18. CASE Notify
      BY <3>18 DEF Notify
    <3>19. CASE NotifyFails
      BY <3>19 DEF NotifyFails
    <3>20. CASE Crash
      BY <3>20 DEF Crash, RollsBack
    <3>21. QED
      BY <3>1, <3>2, <3>3, <3>4, <3>5, <3>6, <3>7, <3>8, <3>9, <3>10, <3>11, <3>12, <3>13, <3>14, <3>15, <3>16, <3>17, <3>18, <3>19, <3>20 DEF Next
  <2>2. QED
    BY <2>1 DEF IInv, DevFlag
<1>2. IInv /\ [Next]_vars => [A]_vars
  BY <1>1
<1>3. QED
  BY <1>2, Invariance, PTL DEF Spec, DevKeepsFailures

=============================================================================
