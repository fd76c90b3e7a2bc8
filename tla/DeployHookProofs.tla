------------------------- MODULE DeployHookProofs -------------------------
(***************************************************************************)
(* The theorems about deploy_hook.py, for any number of invocations.       *)
(***************************************************************************)
EXTENDS DeployHook, Integers, TLAPS

(***************************************************************************)
(* Type correctness.                                                       *)
(***************************************************************************)
LEMMA InitTypeOK == ASSUME Init PROVE TypeOK
BY DEF Init, TypeOK, LockFile, MainPC, WorkerPC, TimerPC, SaltPC, Ret

LEMMA TypeOKMain ==
  ASSUME TypeOK, NEW h \in Hooks, MainStep(h) PROVE TypeOK'
<1> USE DEF TypeOK, LockFile, MainPC, Scanning, Admitted, NoCode
<1>1. CASE ScanSalt(h)
  BY <1>1 DEF ScanSalt
<1>2. CASE ScanHooks(h)
  BY <1>2 DEF ScanHooks
<1>3. CASE Reject(h)
  BY <1>3 DEF Reject
<1>4. CASE Admit(h)
  BY <1>4 DEF Admit
<1>5. CASE RemoveStaleLock(h)
  BY <1>5 DEF RemoveStaleLock
<1>6. CASE Fork(h)
  BY <1>6 DEF Fork, WorkerPC
<1>7. CASE ReadPid(h)
  BY <1>7 DEF ReadPid, TimerPC
<1>8. CASE ReadTimeout(h)
  BY <1>8 DEF ReadTimeout, Terminate, WorkerPC, TimerPC, Ret
<1>9. CASE ReadEnd(h)
  BY <1>9 DEF ReadEnd, Terminate, WorkerPC, TimerPC
<1>10. CASE ReadError(h)
  BY <1>10 DEF ReadError, Terminate, WorkerPC, TimerPC, Ret
<1>11. CASE Join(h)
  BY <1>11 DEF Join
<1>12. CASE Exit(h)
  BY <1>12 DEF Exit, ExitCode, Ret
<1>13. QED
  BY <1>1, <1>2, <1>3, <1>4, <1>5, <1>6, <1>7, <1>8, <1>9, <1>10, <1>11, <1>12 DEF MainStep

LEMMA TypeOKWorker ==
  ASSUME TypeOK, NEW h \in Hooks, WorkerStep(h) PROVE TypeOK'
<1> USE DEF TypeOK, LockFile, WorkerPC, Holding, Deploying
<1>1. CASE SendPid(h)
  BY <1>1 DEF SendPid, Message
<1>2. CASE TakeLock(h)
  BY <1>2 DEF TakeLock
<1>3. CASE TakeLockFails(h)
  BY <1>3 DEF TakeLockFails
<1>3a. CASE InstallHandler(h)
  BY <1>3a DEF InstallHandler
<1>3b. CASE LockWriteFails(h)
  BY <1>3b DEF LockWriteFails
<1>4. CASE Spawn(h)
  BY <1>4 DEF Spawn, SaltPC
<1>5. CASE SpawnFails(h)
  BY <1>5 DEF SpawnFails
<1>6. CASE Reap(h)
  BY <1>6 DEF Reap
<1>7. CASE CleanLocks(h)
  BY <1>7 DEF CleanLocks
<1>8. CASE ReportEnd(h)
  BY <1>8 DEF ReportEnd, Message
<1>9. CASE ReportError(h)
  BY <1>9 DEF ReportError, Message
<1>10. CASE Result(h)
  BY <1>10 DEF Result, Ret
<1>11. CASE IdleEnds(h)
  BY <1>11 DEF IdleEnds
<1>12. CASE HandleSigusr2(h)
  BY <1>12 DEF HandleSigusr2
<1>13. QED
  BY <1>1, <1>2, <1>3, <1>3a, <1>3b, <1>4, <1>5, <1>6, <1>7, <1>8, <1>9, <1>10, <1>11, <1>12
  DEF WorkerStep

LEMMA TypeOKTimer ==
  ASSUME TypeOK, NEW h \in Hooks, TimerStep(h) \/ SaltEnds(h) PROVE TypeOK'
<1> USE DEF TypeOK
<1>1. CASE TimerStops(h)
  BY <1>1 DEF TimerStops, TimerPC
<1>2. CASE TimerOverdue(h)
  BY <1>2 DEF TimerOverdue, TimerPC
<1>3. CASE TimerKill(h)
  BY <1>3 DEF TimerKill, TimerPC, WorkerPC
<1>4. CASE TimerKillFails(h)
  BY <1>4 DEF TimerKillFails, TimerPC
<1>4r. CASE TimerReports(h)
  BY <1>4r DEF TimerReports, TimerPC
<1>5. CASE SaltEnds(h)
  BY <1>5 DEF SaltEnds, SaltPC
<1>6. QED
  BY <1>1, <1>2, <1>3, <1>4, <1>4r, <1>5 DEF TimerStep

LEMMA TypeOKEnvironment ==
  ASSUME TypeOK, NEW h \in Hooks, Environment(h) PROVE TypeOK'
<1> USE DEF TypeOK, MainPC, Scanning, NoCode
<1>1. CASE Start(h)
  BY <1>1 DEF Start
<1>2. CASE Detach(h)
  BY <1>2 DEF Detach, ExitCode, Ret
<1>3. CASE Interrupt(h)
  BY <1>3 DEF Interrupt
<1>4. CASE Hangup(h)
  BY <1>4 DEF Hangup, WorkerPC, TimerPC, SaltPC
<1>5. CASE KillMain(h)
  BY <1>5 DEF KillMain
<1>6. CASE KillWorker(h)
  BY <1>6 DEF KillWorker, WorkerPC
<1>7. CASE KillTimer(h)
  BY <1>7 DEF KillTimer, TimerPC
<1>8. CASE KillSalt(h)
  BY <1>8 DEF KillSalt, SaltPC
<1>9. QED
  BY <1>1, <1>2, <1>3, <1>4, <1>5, <1>6, <1>7, <1>8 DEF Environment

LEMMA NextTypeOK == ASSUME TypeOK, [Next]_vars PROVE TypeOK'
<1>1. CASE UNCHANGED vars
  BY <1>1 DEF TypeOK, vars
<1>2. CASE Next
  BY <1>2, TypeOKMain, TypeOKWorker, TypeOKTimer, TypeOKEnvironment DEF Next
<1>3. QED
  BY <1>1, <1>2

\* Type correctness: every variable of the executor keeps its type.
THEOREM TypeCorrect == Spec => []TypeOK
BY InitTypeOK, NextTypeOK, PTL DEF Spec

(***************************************************************************)
(* One executor.  The invariant has to say when an invocation is committed *)
(* (its scan has found nobody), what has not happened before the fork, and *)
(* that a salt-call which the first ps of a scan has missed still has its  *)
(* worker for the second one to find.                                      *)
(***************************************************************************)

\* every invocation is the same program, started by the same path
SameProgram == \A g, h \in Hooks : g # h => <<g, h>> \in HookSees /\ <<g, h>> \in SaltSees

BeforeFork == {"idle", "rmlock", "fork"} \cup Scanning

Committed(h) == Executing(h) \/ (main[h] = "decide" /\ found[h] = {})

Fresh == \A h \in Hooks :
  main[h] \in BeforeFork => /\ worker[h] = "none" /\ timer[h] = "none" /\ salt[h] = "none"
                            /\ h \notin manager /\ h \notin abandoned

OneCommitted == \A g, h \in Hooks : g # h => ~(Committed(g) /\ Committed(h))

MissedSaltHasWorker == \A g, h \in Hooks :
  g # h /\ main[g] = "scanHooks" /\ found[g] = {} /\ salt[h] = "running" => worker[h] = "wait"

NotSpawned == \A h \in Hooks :
  worker[h] \in {"none", "boot", "prelock", "taken", "spawn", "fail", "failed"} => salt[h] = "none"

StaleLockStays == \A h \in Hooks : main[h] = "rmlock" => IsLocked

IInv ==
  /\ TypeOK /\ Fresh /\ NotSpawned /\ OneCommitted
  /\ MissedSaltHasWorker /\ LockCoversDeployment /\ StaleLockStays

\* Only the second ps of a scan commits an invocation.
LEMMA CommittedByScan ==
  ASSUME TypeOK, NEW h \in Hooks, NEW x \in Hooks, Committed(x)',
         \/ MainStep(h) /\ ~ScanHooks(h)
         \/ WorkerStep(h) \/ TimerStep(h) \/ SaltEnds(h) \/ Environment(h)
  PROVE  Committed(x)
<1>1. CASE ScanSalt(h)
  <2>1. /\ UNCHANGED <<worker, timer, salt>> /\ main'[h] = "scanHooks"
        /\ x # h => main'[x] = main[x] /\ found'[x] = found[x]
        /\ main[h] = "scanSalt"
    BY <1>1 DEF ScanSalt, TypeOK
  <2>2. QED
    BY <2>1 DEF Committed, Executing, Admitted, WorkerAlive, TimerAlive
<1> USE DEF TypeOK, Committed, Executing, Admitted, WorkerAlive, TimerAlive
<1>2. CASE Reject(h)
  BY <1>2 DEF Reject
<1>3. CASE Admit(h)
  BY <1>3 DEF Admit
<1>4. CASE RemoveStaleLock(h)
  BY <1>4 DEF RemoveStaleLock
<1>5. CASE Fork(h)
  BY <1>5 DEF Fork
<1>6. CASE ReadPid(h)
  BY <1>6 DEF ReadPid
<1>7. CASE ReadTimeout(h)
  BY <1>7 DEF ReadTimeout, Terminate
<1>8. CASE ReadEnd(h)
  BY <1>8 DEF ReadEnd, Terminate
<1>9. CASE ReadError(h)
  BY <1>9 DEF ReadError, Terminate
<1>10. CASE Join(h)
  BY <1>10 DEF Join
<1>11. CASE Exit(h)
  BY <1>11 DEF Exit
<1>12. CASE SendPid(h)
  BY <1>12 DEF SendPid
<1>13. CASE TakeLock(h)
  BY <1>13 DEF TakeLock
<1>14. CASE TakeLockFails(h)
  BY <1>14 DEF TakeLockFails
<1>14a. CASE InstallHandler(h)
  BY <1>14a DEF InstallHandler
<1>14b. CASE LockWriteFails(h)
  BY <1>14b DEF LockWriteFails
<1>15. CASE Spawn(h)
  BY <1>15 DEF Spawn
<1>16. CASE SpawnFails(h)
  BY <1>16 DEF SpawnFails
<1>17. CASE Reap(h)
  BY <1>17 DEF Reap
<1>18. CASE CleanLocks(h)
  BY <1>18 DEF CleanLocks
<1>19. CASE ReportEnd(h)
  BY <1>19 DEF ReportEnd
<1>20. CASE ReportError(h)
  BY <1>20 DEF ReportError
<1>21. CASE Result(h)
  BY <1>21 DEF Result
<1>22. CASE IdleEnds(h)
  BY <1>22 DEF IdleEnds
<1>23. CASE HandleSigusr2(h)
  BY <1>23 DEF HandleSigusr2
<1>24. CASE TimerStops(h)
  BY <1>24 DEF TimerStops
<1>25. CASE TimerOverdue(h)
  BY <1>25 DEF TimerOverdue
<1>26. CASE TimerKill(h)
  BY <1>26 DEF TimerKill
<1>27. CASE TimerKillFails(h)
  BY <1>27 DEF TimerKillFails
<1>27r. CASE TimerReports(h)
  BY <1>27r DEF TimerReports
<1>28. CASE SaltEnds(h)
  BY <1>28 DEF SaltEnds
<1>29. CASE Start(h)
  BY <1>29 DEF Start
<1>30. CASE Detach(h)
  BY <1>30 DEF Detach
<1>31. CASE Interrupt(h)
  BY <1>31 DEF Interrupt, MainAlive
<1>32. CASE Hangup(h)
  BY <1>32 DEF Hangup, MainAlive
<1>33. CASE KillMain(h)
  BY <1>33 DEF KillMain, MainAlive
<1>34. CASE KillWorker(h)
  BY <1>34 DEF KillWorker
<1>35. CASE KillTimer(h)
  BY <1>35 DEF KillTimer
<1>36. CASE KillSalt(h)
  BY <1>36 DEF KillSalt
<1>37. QED
  BY <1>1, <1>2, <1>3, <1>4, <1>5, <1>6, <1>7, <1>8, <1>9, <1>10, <1>11, <1>12, <1>13, <1>14,
    <1>14a, <1>14b, <1>15, <1>16, <1>17, <1>18, <1>19, <1>20, <1>21, <1>22, <1>23, <1>24,
    <1>25, <1>26, <1>27, <1>27r, <1>28, <1>29, <1>30, <1>31, <1>32, <1>33, <1>34, <1>35, <1>36
  DEF MainStep, WorkerStep,
    TimerStep, Environment

\* Nothing of an invocation exists before its fork.
LEMMA NextFresh ==
  ASSUME TypeOK, Fresh, NEW h \in Hooks,
         MainStep(h) \/ WorkerStep(h) \/ TimerStep(h) \/ SaltEnds(h) \/ Environment(h)
  PROVE  Fresh'
<1> USE DEF TypeOK, Fresh, BeforeFork, Scanning
<1>1. CASE ScanSalt(h)
  BY <1>1 DEF ScanSalt
<1>2. CASE ScanHooks(h)
  BY <1>2 DEF ScanHooks
<1>3. CASE Reject(h)
  BY <1>3 DEF Reject
<1>4. CASE Admit(h)
  BY <1>4 DEF Admit
<1>5. CASE RemoveStaleLock(h)
  BY <1>5 DEF RemoveStaleLock
<1>6. CASE Fork(h)
  BY <1>6 DEF Fork
<1>7. CASE ReadPid(h)
  BY <1>7 DEF ReadPid
<1>8. CASE ReadTimeout(h)
  BY <1>8 DEF ReadTimeout, Terminate, TimerAlive
<1>9. CASE ReadEnd(h)
  BY <1>9 DEF ReadEnd, Terminate, TimerAlive
<1>10. CASE ReadError(h)
  BY <1>10 DEF ReadError, Terminate, TimerAlive
<1>11. CASE Join(h)
  BY <1>11 DEF Join
<1>12. CASE Exit(h)
  BY <1>12 DEF Exit
<1>13. CASE SendPid(h)
  BY <1>13 DEF SendPid
<1>14. CASE TakeLock(h)
  BY <1>14 DEF TakeLock
<1>15. CASE TakeLockFails(h)
  BY <1>15 DEF TakeLockFails
<1>15a. CASE InstallHandler(h)
  BY <1>15a DEF InstallHandler
<1>15b. CASE LockWriteFails(h)
  BY <1>15b DEF LockWriteFails
<1>16. CASE Spawn(h)
  BY <1>16 DEF Spawn
<1>17. CASE SpawnFails(h)
  BY <1>17 DEF SpawnFails
<1>18. CASE Reap(h)
  BY <1>18 DEF Reap
<1>19. CASE CleanLocks(h)
  BY <1>19 DEF CleanLocks
<1>20. CASE ReportEnd(h)
  BY <1>20 DEF ReportEnd
<1>21. CASE ReportError(h)
  BY <1>21 DEF ReportError
<1>22. CASE Result(h)
  BY <1>22 DEF Result
<1>23. CASE IdleEnds(h)
  BY <1>23 DEF IdleEnds
<1>24. CASE HandleSigusr2(h)
  BY <1>24 DEF HandleSigusr2
<1>25. CASE TimerStops(h)
  BY <1>25 DEF TimerStops
<1>26. CASE TimerOverdue(h)
  BY <1>26 DEF TimerOverdue
<1>27. CASE TimerKill(h)
  BY <1>27 DEF TimerKill, WorkerAlive
<1>28. CASE TimerKillFails(h)
  BY <1>28 DEF TimerKillFails
<1>28r. CASE TimerReports(h)
  BY <1>28r DEF TimerReports
<1>29. CASE SaltEnds(h)
  BY <1>29 DEF SaltEnds
<1>30. CASE Start(h)
  BY <1>30 DEF Start
<1>31. CASE Detach(h)
  BY <1>31 DEF Detach
<1>32. CASE Interrupt(h)
  BY <1>32 DEF Interrupt, MainAlive
<1>33. CASE Hangup(h)
  BY <1>33 DEF Hangup, MainAlive, WorkerAlive, TimerAlive
<1>34. CASE KillMain(h)
  BY <1>34 DEF KillMain, MainAlive
<1>35. CASE KillWorker(h)
  BY <1>35 DEF KillWorker, WorkerAlive
<1>36. CASE KillTimer(h)
  BY <1>36 DEF KillTimer, TimerAlive
<1>37. CASE KillSalt(h)
  BY <1>37 DEF KillSalt
<1>38. QED
  BY <1>1, <1>2, <1>3, <1>4, <1>5, <1>6, <1>7, <1>8, <1>9, <1>10, <1>11, <1>12, <1>13, <1>14,
    <1>15, <1>15a, <1>15b, <1>16, <1>17, <1>18, <1>19, <1>20, <1>21, <1>22, <1>23, <1>24,
    <1>25, <1>26, <1>27, <1>28, <1>28r, <1>29, <1>30, <1>31, <1>32, <1>33, <1>34, <1>35, <1>36, <1>37
  DEF MainStep, WorkerStep, TimerStep, Environment

\* Whoever is alive is found by the second ps.
LEMMA FoundAlive ==
  ASSUME TypeOK, SameProgram, NEW h \in Hooks, ScanHooks(h), found'[h] = {},
         NEW y \in Hooks, y # h
  PROVE  ~Alive(y)
<1>1. found'[h] = found[h] \cup {g \in Hooks \ {h} : Alive(g) /\ <<h, g>> \in HookSees}
  BY DEF ScanHooks, TypeOK
<1>2. <<h, y>> \in HookSees
  BY DEF SameProgram
<1>3. QED
  BY <1>1, <1>2

\* Whatever salt-call runs is found by the first ps.
LEMMA FoundSalt ==
  ASSUME TypeOK, SameProgram, NEW h \in Hooks, ScanSalt(h), found'[h] = {},
         NEW y \in Hooks, y # h
  PROVE  salt[y] # "running"
<1>1. found'[h] = {g \in Hooks : salt[g] = "running" /\ <<h, g>> \in SaltSees}
  BY DEF ScanSalt, TypeOK
<1>2. <<h, y>> \in SaltSees
  BY DEF SameProgram
<1>3. QED
  BY <1>1, <1>2

\* An invocation whose scan finds nobody is the only one: the others are not alive, and
\* the salt-call that ScanSalt has missed still has its worker.
LEMMA ScanHooksCommits ==
  ASSUME TypeOK, SameProgram, OneCommitted, MissedSaltHasWorker,
         NEW h \in Hooks, ScanHooks(h)
  PROVE  OneCommitted'
<1> SUFFICES ASSUME NEW g \in Hooks, NEW x \in Hooks, g # x, Committed(g)', Committed(x)'
             PROVE  FALSE
  BY DEF OneCommitted
<1> USE DEF TypeOK, ScanHooks, Committed, Executing, WorkerAlive, TimerAlive, Admitted
<1>1. ASSUME NEW y \in Hooks, y # h, Committed(y)' PROVE Committed(y)
  BY <1>1
<1>2. ASSUME NEW y \in Hooks, y # h, Committed(y)', Committed(h)' PROVE FALSE
  <2>1. Committed(y)
    BY <1>1, <1>2
  <2>2. CASE Committed(h)
    BY <1>2, <2>1, <2>2 DEF OneCommitted
  <2>3. CASE ~Committed(h)
    <3>1. found'[h] = {} /\ found[h] = {}
      <4>1. main'[h] \notin Admitted
        OBVIOUS
      <4>2. ~Executing(h)'
        BY <2>3, <4>1
      <4>3. found'[h] = {}
        BY <1>2, <4>2
      <4>4. found[h] \subseteq found'[h]
        OBVIOUS
      <4>5. QED
        BY <4>3, <4>4
    <3>2. ~Alive(y)
      BY <1>2, <3>1, FoundAlive
    <3>3. salt[y] = "running" /\ worker[y] # "wait"
      BY <2>1, <3>2, <1>2 DEF Alive, MainAlive
    <3>4. QED
      BY <3>1, <3>3, <1>2 DEF MissedSaltHasWorker
  <2>4. QED
    BY <2>2, <2>3
<1> HIDE DEF TypeOK, ScanHooks, Committed
<1>3. CASE g = h
  BY <1>2, <1>3
<1>4. CASE x = h
  BY <1>2, <1>4
<1>5. CASE g # h /\ x # h
  BY <1>1, <1>5 DEF OneCommitted
<1>6. QED
  BY <1>3, <1>4, <1>5

LEMMA NextOneCommitted ==
  ASSUME TypeOK, SameProgram, OneCommitted, MissedSaltHasWorker, NEW h \in Hooks,
         MainStep(h) \/ WorkerStep(h) \/ TimerStep(h) \/ SaltEnds(h) \/ Environment(h)
  PROVE  OneCommitted'
<1>1. CASE ScanHooks(h)
  BY <1>1, ScanHooksCommits
<1>2. CASE ~ScanHooks(h)
  BY <1>2, CommittedByScan DEF OneCommitted
<1>3. QED
  BY <1>1, <1>2

\* Whoever removes the lock is committed, so that nobody else deploys.
LEMMA NextLockCovers ==
  ASSUME TypeOK, Fresh, OneCommitted, LockCoversDeployment, NEW h \in Hooks,
         MainStep(h) \/ WorkerStep(h) \/ TimerStep(h) \/ SaltEnds(h) \/ Environment(h)
  PROVE  LockCoversDeployment'
<1> USE DEF TypeOK, LockFile, LockCoversDeployment, IsLocked, Holding, Deploying
<1>1. CASE ScanSalt(h)
  BY <1>1 DEF ScanSalt
<1>2. CASE ScanHooks(h)
  BY <1>2 DEF ScanHooks
<1>3. CASE Reject(h)
  BY <1>3 DEF Reject
<1>4. CASE Admit(h)
  BY <1>4 DEF Admit
<1>5. CASE RemoveStaleLock(h)
  BY <1>5 DEF RemoveStaleLock, OneCommitted, Committed, Executing, Admitted, WorkerAlive, Fresh,
    BeforeFork
<1>6. CASE Fork(h)
  BY <1>6 DEF Fork
<1>7. CASE ReadPid(h)
  BY <1>7 DEF ReadPid
<1>8. CASE ReadTimeout(h)
  BY <1>8 DEF ReadTimeout, Terminate
<1>9. CASE ReadEnd(h)
  BY <1>9 DEF ReadEnd, Terminate
<1>10. CASE ReadError(h)
  BY <1>10 DEF ReadError, Terminate
<1>11. CASE Join(h)
  BY <1>11 DEF Join
<1>12. CASE Exit(h)
  BY <1>12 DEF Exit
<1>13. CASE SendPid(h)
  BY <1>13 DEF SendPid
<1>14. CASE TakeLock(h)
  BY <1>14 DEF TakeLock
<1>15. CASE TakeLockFails(h)
  BY <1>15 DEF TakeLockFails
<1>15a. CASE InstallHandler(h)
  BY <1>15a DEF InstallHandler
<1>15b. CASE LockWriteFails(h)
  BY <1>15b DEF LockWriteFails
<1>16. CASE Spawn(h)
  BY <1>16 DEF Spawn
<1>17. CASE SpawnFails(h)
  BY <1>17 DEF SpawnFails
<1>18. CASE Reap(h)
  BY <1>18 DEF Reap
<1>19. CASE CleanLocks(h)
  BY <1>19 DEF CleanLocks, OneCommitted, Committed, Executing, Admitted, WorkerAlive
<1>20. CASE ReportEnd(h)
  BY <1>20 DEF ReportEnd
<1>21. CASE ReportError(h)
  BY <1>21 DEF ReportError
<1>22. CASE Result(h)
  BY <1>22 DEF Result
<1>23. CASE IdleEnds(h)
  BY <1>23 DEF IdleEnds
<1>24. CASE HandleSigusr2(h)
  BY <1>24 DEF HandleSigusr2, OneCommitted, Committed, Executing, Admitted, WorkerAlive
<1>25. CASE TimerStops(h)
  BY <1>25 DEF TimerStops
<1>26. CASE TimerOverdue(h)
  BY <1>26 DEF TimerOverdue
<1>27. CASE TimerKill(h)
  BY <1>27 DEF TimerKill
<1>28. CASE TimerKillFails(h)
  BY <1>28 DEF TimerKillFails
<1>28r. CASE TimerReports(h)
  BY <1>28r DEF TimerReports
<1>29. CASE SaltEnds(h)
  BY <1>29 DEF SaltEnds
<1>30. CASE Start(h)
  BY <1>30 DEF Start
<1>31. CASE Detach(h)
  BY <1>31 DEF Detach
<1>32. CASE Interrupt(h)
  BY <1>32 DEF Interrupt, MainAlive
<1>33. CASE Hangup(h)
  BY <1>33 DEF Hangup, MainAlive
<1>34. CASE KillMain(h)
  BY <1>34 DEF KillMain, MainAlive
<1>35. CASE KillWorker(h)
  BY <1>35 DEF KillWorker
<1>36. CASE KillTimer(h)
  BY <1>36 DEF KillTimer
<1>37. CASE KillSalt(h)
  BY <1>37 DEF KillSalt
<1>38. QED
  BY <1>1, <1>2, <1>3, <1>4, <1>5, <1>6, <1>7, <1>8, <1>9, <1>10, <1>11, <1>12, <1>13, <1>14,
    <1>15, <1>15a, <1>15b, <1>16, <1>17, <1>18, <1>19, <1>20, <1>21, <1>22, <1>23, <1>24,
    <1>25, <1>26, <1>27, <1>28, <1>28r, <1>29, <1>30, <1>31, <1>32, <1>33, <1>34, <1>35, <1>36, <1>37
  DEF MainStep, WorkerStep, TimerStep, Environment

\* Only the one committed invocation can remove the lock it has found stale.
LEMMA NextStaleLock ==
  ASSUME TypeOK, Fresh, OneCommitted, StaleLockStays, NEW h \in Hooks,
         MainStep(h) \/ WorkerStep(h) \/ TimerStep(h) \/ SaltEnds(h) \/ Environment(h)
  PROVE  StaleLockStays'
<1> USE DEF TypeOK, LockFile, StaleLockStays, IsLocked
<1>1. CASE ScanSalt(h)
  BY <1>1 DEF ScanSalt
<1>2. CASE ScanHooks(h)
  BY <1>2 DEF ScanHooks
<1>3. CASE Reject(h)
  BY <1>3 DEF Reject
<1>4. CASE Admit(h)
  BY <1>4 DEF Admit
<1>5. CASE RemoveStaleLock(h)
  BY <1>5 DEF RemoveStaleLock, OneCommitted, Committed, Executing, Admitted, WorkerAlive
<1>6. CASE Fork(h)
  BY <1>6 DEF Fork
<1>7. CASE ReadPid(h)
  BY <1>7 DEF ReadPid
<1>8. CASE ReadTimeout(h)
  BY <1>8 DEF ReadTimeout, Terminate
<1>9. CASE ReadEnd(h)
  BY <1>9 DEF ReadEnd, Terminate
<1>10. CASE ReadError(h)
  BY <1>10 DEF ReadError, Terminate
<1>11. CASE Join(h)
  BY <1>11 DEF Join
<1>12. CASE Exit(h)
  BY <1>12 DEF Exit
<1>13. CASE SendPid(h)
  BY <1>13 DEF SendPid
<1>14. CASE TakeLock(h)
  BY <1>14 DEF TakeLock
<1>15. CASE TakeLockFails(h)
  BY <1>15 DEF TakeLockFails
<1>15a. CASE InstallHandler(h)
  BY <1>15a DEF InstallHandler
<1>15b. CASE LockWriteFails(h)
  BY <1>15b DEF LockWriteFails
<1>16. CASE Spawn(h)
  BY <1>16 DEF Spawn
<1>17. CASE SpawnFails(h)
  BY <1>17 DEF SpawnFails
<1>18. CASE Reap(h)
  BY <1>18 DEF Reap
<1>19. CASE CleanLocks(h)
  BY <1>19 DEF CleanLocks, OneCommitted, Committed, Executing, Admitted, WorkerAlive, Fresh,
    BeforeFork
<1>20. CASE ReportEnd(h)
  BY <1>20 DEF ReportEnd
<1>21. CASE ReportError(h)
  BY <1>21 DEF ReportError
<1>22. CASE Result(h)
  BY <1>22 DEF Result
<1>23. CASE IdleEnds(h)
  BY <1>23 DEF IdleEnds
<1>24. CASE HandleSigusr2(h)
  BY <1>24 DEF HandleSigusr2, OneCommitted, Committed, Executing, Admitted, WorkerAlive, Fresh,
    BeforeFork
<1>25. CASE TimerStops(h)
  BY <1>25 DEF TimerStops
<1>26. CASE TimerOverdue(h)
  BY <1>26 DEF TimerOverdue
<1>27. CASE TimerKill(h)
  BY <1>27 DEF TimerKill
<1>28. CASE TimerKillFails(h)
  BY <1>28 DEF TimerKillFails
<1>28r. CASE TimerReports(h)
  BY <1>28r DEF TimerReports
<1>29. CASE SaltEnds(h)
  BY <1>29 DEF SaltEnds
<1>30. CASE Start(h)
  BY <1>30 DEF Start
<1>31. CASE Detach(h)
  BY <1>31 DEF Detach
<1>32. CASE Interrupt(h)
  BY <1>32 DEF Interrupt, MainAlive
<1>33. CASE Hangup(h)
  BY <1>33 DEF Hangup, MainAlive
<1>34. CASE KillMain(h)
  BY <1>34 DEF KillMain, MainAlive
<1>35. CASE KillWorker(h)
  BY <1>35 DEF KillWorker
<1>36. CASE KillTimer(h)
  BY <1>36 DEF KillTimer
<1>37. CASE KillSalt(h)
  BY <1>37 DEF KillSalt
<1>38. QED
  BY <1>1, <1>2, <1>3, <1>4, <1>5, <1>6, <1>7, <1>8, <1>9, <1>10, <1>11, <1>12, <1>13, <1>14,
    <1>15, <1>15a, <1>15b, <1>16, <1>17, <1>18, <1>19, <1>20, <1>21, <1>22, <1>23, <1>24,
    <1>25, <1>26, <1>27, <1>28, <1>28r, <1>29, <1>30, <1>31, <1>32, <1>33, <1>34, <1>35, <1>36, <1>37
  DEF MainStep, WorkerStep, TimerStep, Environment

\* Between the two ps of a scan no worker leaves its salt-call: it waits for it, the lock
\* keeps SIGTERM away, and nobody kills it then.
LEMMA NextMissedSalt ==
  ASSUME TypeOK, SameProgram, ~KillMidScan, Fresh, LockCoversDeployment,
         MissedSaltHasWorker, NEW h \in Hooks,
         MainStep(h) \/ WorkerStep(h) \/ TimerStep(h) \/ SaltEnds(h) \/ Environment(h)
  PROVE  MissedSaltHasWorker'
<1>1. CASE ScanSalt(h)
  <2>1. SUFFICES ASSUME NEW g \in Hooks, NEW x \in Hooks, g # x, main'[g] = "scanHooks",
                        found'[g] = {}, salt'[x] = "running"
                 PROVE  worker'[x] = "wait"
    BY DEF MissedSaltHasWorker
  <2>2. UNCHANGED <<salt, worker>> /\ (g # h => main'[g] = main[g] /\ found'[g] = found[g])
    BY <1>1 DEF ScanSalt, TypeOK
  <2>3. g # h
    BY <1>1, <2>1, <2>2, FoundSalt
  <2>4. QED
    BY <2>1, <2>2, <2>3 DEF MissedSaltHasWorker
<1>2. CASE ScanHooks(h)
  <2>1. /\ \A g \in Hooks : main'[g] = "scanHooks" => main[g] = "scanHooks" /\ found'[g] = found[g]
        /\ UNCHANGED <<salt, worker>>
    BY <1>2 DEF ScanHooks, TypeOK
  <2>2. QED
    BY <2>1 DEF MissedSaltHasWorker
<1> USE DEF TypeOK, MissedSaltHasWorker
<1>3. CASE Reject(h)
  BY <1>3 DEF Reject
<1>4. CASE Admit(h)
  BY <1>4 DEF Admit
<1>5. CASE RemoveStaleLock(h)
  BY <1>5 DEF RemoveStaleLock
<1>6. CASE Fork(h)
  BY <1>6 DEF Fork, Fresh, BeforeFork
<1>7. CASE ReadPid(h)
  BY <1>7 DEF ReadPid
<1>8. CASE ReadTimeout(h)
  BY <1>8 DEF ReadTimeout, Terminate, LockCoversDeployment, Holding, Deploying
<1>9. CASE ReadEnd(h)
  BY <1>9 DEF ReadEnd, Terminate, LockCoversDeployment, Holding, Deploying
<1>10. CASE ReadError(h)
  BY <1>10 DEF ReadError, Terminate, LockCoversDeployment, Holding, Deploying
<1>11. CASE Join(h)
  BY <1>11 DEF Join
<1>12. CASE Exit(h)
  BY <1>12 DEF Exit
<1>13. CASE SendPid(h)
  BY <1>13 DEF SendPid
<1>14. CASE TakeLock(h)
  BY <1>14 DEF TakeLock
<1>15. CASE TakeLockFails(h)
  BY <1>15 DEF TakeLockFails
<1>15a. CASE InstallHandler(h)
  BY <1>15a DEF InstallHandler
<1>15b. CASE LockWriteFails(h)
  BY <1>15b DEF LockWriteFails
<1>16. CASE Spawn(h)
  BY <1>16 DEF Spawn
<1>17. CASE SpawnFails(h)
  BY <1>17 DEF SpawnFails
<1>18. CASE Reap(h)
  BY <1>18 DEF Reap
<1>19. CASE CleanLocks(h)
  BY <1>19 DEF CleanLocks
<1>20. CASE ReportEnd(h)
  BY <1>20 DEF ReportEnd
<1>21. CASE ReportError(h)
  BY <1>21 DEF ReportError
<1>22. CASE Result(h)
  BY <1>22 DEF Result
<1>23. CASE IdleEnds(h)
  BY <1>23 DEF IdleEnds
<1>24. CASE HandleSigusr2(h)
  BY <1>24 DEF HandleSigusr2
<1>25. CASE TimerStops(h)
  BY <1>25 DEF TimerStops
<1>26. CASE TimerOverdue(h)
  BY <1>26 DEF TimerOverdue
<1>27. CASE TimerKill(h)
  BY <1>27 DEF TimerKill, QuietScan
<1>28. CASE TimerKillFails(h)
  BY <1>28 DEF TimerKillFails
<1>28r. CASE TimerReports(h)
  BY <1>28r DEF TimerReports
<1>29. CASE SaltEnds(h)
  BY <1>29 DEF SaltEnds
<1>30. CASE Start(h)
  BY <1>30 DEF Start
<1>31. CASE Detach(h)
  BY <1>31 DEF Detach
<1>32. CASE Interrupt(h)
  BY <1>32 DEF Interrupt, MainAlive
<1>33. CASE Hangup(h)
  BY <1>33 DEF Hangup, MainAlive, QuietScan, WorkerAlive
<1>34. CASE KillMain(h)
  BY <1>34 DEF KillMain, MainAlive
<1>35. CASE KillWorker(h)
  BY <1>35 DEF KillWorker, QuietScan
<1>36. CASE KillTimer(h)
  BY <1>36 DEF KillTimer
<1>37. CASE KillSalt(h)
  BY <1>37 DEF KillSalt
<1>38. QED
  BY <1>1, <1>2, <1>3, <1>4, <1>5, <1>6, <1>7, <1>8, <1>9, <1>10, <1>11, <1>12, <1>13, <1>14,
    <1>15, <1>15a, <1>15b, <1>16, <1>17, <1>18, <1>19, <1>20, <1>21, <1>22, <1>23, <1>24,
    <1>25, <1>26, <1>27, <1>28, <1>28r, <1>29, <1>30, <1>31, <1>32, <1>33, <1>34, <1>35, <1>36, <1>37
  DEF MainStep, WorkerStep, TimerStep, Environment

\* A worker launches its salt-call once, when it leaves "spawn".
LEMMA NextNotSpawned ==
  ASSUME TypeOK, Fresh, NotSpawned, NEW h \in Hooks,
         MainStep(h) \/ WorkerStep(h) \/ TimerStep(h) \/ SaltEnds(h) \/ Environment(h)
  PROVE  NotSpawned'
<1> USE DEF TypeOK, NotSpawned
<1>1. CASE ScanSalt(h)
  BY <1>1 DEF ScanSalt
<1>2. CASE ScanHooks(h)
  BY <1>2 DEF ScanHooks
<1>3. CASE Reject(h)
  BY <1>3 DEF Reject
<1>4. CASE Admit(h)
  BY <1>4 DEF Admit
<1>5. CASE RemoveStaleLock(h)
  BY <1>5 DEF RemoveStaleLock
<1>6. CASE Fork(h)
  BY <1>6 DEF Fork, Fresh, BeforeFork
<1>7. CASE ReadPid(h)
  BY <1>7 DEF ReadPid
<1>8. CASE ReadTimeout(h)
  BY <1>8 DEF ReadTimeout, Terminate
<1>9. CASE ReadEnd(h)
  BY <1>9 DEF ReadEnd, Terminate
<1>10. CASE ReadError(h)
  BY <1>10 DEF ReadError, Terminate
<1>11. CASE Join(h)
  BY <1>11 DEF Join
<1>12. CASE Exit(h)
  BY <1>12 DEF Exit
<1>13. CASE SendPid(h)
  BY <1>13 DEF SendPid
<1>14. CASE TakeLock(h)
  BY <1>14 DEF TakeLock
<1>15. CASE TakeLockFails(h)
  BY <1>15 DEF TakeLockFails
<1>15a. CASE InstallHandler(h)
  BY <1>15a DEF InstallHandler
<1>15b. CASE LockWriteFails(h)
  BY <1>15b DEF LockWriteFails
<1>16. CASE Spawn(h)
  BY <1>16 DEF Spawn
<1>17. CASE SpawnFails(h)
  BY <1>17 DEF SpawnFails
<1>18. CASE Reap(h)
  BY <1>18 DEF Reap
<1>19. CASE CleanLocks(h)
  BY <1>19 DEF CleanLocks
<1>20. CASE ReportEnd(h)
  BY <1>20 DEF ReportEnd
<1>21. CASE ReportError(h)
  BY <1>21 DEF ReportError
<1>22. CASE Result(h)
  BY <1>22 DEF Result
<1>23. CASE IdleEnds(h)
  BY <1>23 DEF IdleEnds
<1>24. CASE HandleSigusr2(h)
  BY <1>24 DEF HandleSigusr2
<1>25. CASE TimerStops(h)
  BY <1>25 DEF TimerStops
<1>26. CASE TimerOverdue(h)
  BY <1>26 DEF TimerOverdue
<1>27. CASE TimerKill(h)
  BY <1>27 DEF TimerKill
<1>28. CASE TimerKillFails(h)
  BY <1>28 DEF TimerKillFails
<1>28r. CASE TimerReports(h)
  BY <1>28r DEF TimerReports
<1>29. CASE SaltEnds(h)
  BY <1>29 DEF SaltEnds
<1>30. CASE Start(h)
  BY <1>30 DEF Start
<1>31. CASE Detach(h)
  BY <1>31 DEF Detach
<1>32. CASE Interrupt(h)
  BY <1>32 DEF Interrupt, MainAlive
<1>33. CASE Hangup(h)
  BY <1>33 DEF Hangup, MainAlive, WorkerAlive
<1>34. CASE KillMain(h)
  BY <1>34 DEF KillMain, MainAlive
<1>35. CASE KillWorker(h)
  BY <1>35 DEF KillWorker, WorkerAlive
<1>36. CASE KillTimer(h)
  BY <1>36 DEF KillTimer
<1>37. CASE KillSalt(h)
  BY <1>37 DEF KillSalt
<1>38. QED
  BY <1>1, <1>2, <1>3, <1>4, <1>5, <1>6, <1>7, <1>8, <1>9, <1>10, <1>11, <1>12, <1>13, <1>14,
    <1>15, <1>15a, <1>15b, <1>16, <1>17, <1>18, <1>19, <1>20, <1>21, <1>22, <1>23, <1>24,
    <1>25, <1>26, <1>27, <1>28, <1>28r, <1>29, <1>30, <1>31, <1>32, <1>33, <1>34, <1>35, <1>36, <1>37
  DEF MainStep, WorkerStep, TimerStep, Environment

LEMMA InitIInv == ASSUME Init PROVE IInv
<1>1. TypeOK
  BY InitTypeOK
<1>2. Fresh /\ NotSpawned /\ MissedSaltHasWorker /\ LockCoversDeployment /\ StaleLockStays
  BY DEF Init, Fresh, NotSpawned, MissedSaltHasWorker, LockCoversDeployment, Holding, Deploying,
    StaleLockStays
<1>3. OneCommitted
  BY DEF Init, OneCommitted, Committed, Executing, Admitted, WorkerAlive, TimerAlive
<1>4. QED
  BY <1>1, <1>2, <1>3 DEF IInv

LEMMA NextIInv ==
  ASSUME SameProgram, ~KillMidScan, IInv, [Next]_vars
  PROVE  IInv'
<1>1. CASE UNCHANGED vars
  BY <1>1 DEF vars, IInv, TypeOK, Fresh, NotSpawned, OneCommitted, MissedSaltHasWorker,
    Committed, Executing,    LockCoversDeployment, StaleLockStays, IsLocked, WorkerAlive, TimerAlive
<1>2. CASE Next
  <2>1. PICK h \in Hooks :
          MainStep(h) \/ WorkerStep(h) \/ TimerStep(h) \/ SaltEnds(h) \/ Environment(h)
    BY <1>2 DEF Next
  <2>2. TypeOK'
    BY NextTypeOK DEF IInv
  <2>3. Fresh'
    BY <2>1, NextFresh DEF IInv
  <2>4. OneCommitted'
    BY <2>1, NextOneCommitted DEF IInv
  <2>5. MissedSaltHasWorker'
    BY <2>1, NextMissedSalt DEF IInv
  <2>6. LockCoversDeployment'
    BY <2>1, NextLockCovers DEF IInv
  <2>7. StaleLockStays'
    BY <2>1, NextStaleLock DEF IInv
  <2>8. NotSpawned'
    BY <2>1, NextNotSpawned DEF IInv
  <2>9. QED
    BY <2>2, <2>3, <2>4, <2>5, <2>6, <2>7, <2>8 DEF IInv
<1>3. QED
  BY <1>1, <1>2

\* The inductive invariant holds when all invocations see each other and no worker is
\* killed in the instant between the two ps of a scan.
THEOREM Invariance ==
  ASSUME SameProgram, ~KillMidScan PROVE Spec => []IInv
BY InitIInv, NextIInv, PTL DEF Spec

\* At most one invocation is ever past test_deploy with anything of it at work.
THEOREM MutualExclusion ==
  ASSUME SameProgram, ~KillMidScan PROVE Spec => []OneExecutor
<1>1. IInv => OneExecutor
  BY DEF IInv, OneCommitted, Committed, OneExecutor
<1>2. QED
  BY <1>1, Invariance, PTL

\* The lock file exists for as long as a worker deploys.
THEOREM LockIsKept ==
  ASSUME SameProgram, ~KillMidScan PROVE Spec => []LockCoversDeployment
<1>1. IInv => LockCoversDeployment
  BY DEF IInv
<1>2. QED
  BY <1>1, Invariance, PTL

\* test_deploy only removes a lock that belongs to nobody and that is still there.
THEOREM StaleLockRemoval ==
  ASSUME SameProgram, ~KillMidScan PROVE Spec => []RemovedLockIsStale
<1>1. ASSUME IInv PROVE RemovedLockIsStale
  <2>1. SUFFICES ASSUME NEW h \in Hooks, main[h] = "rmlock"
                 PROVE  IsLocked /\ \A g \in Hooks : ~WorkerAlive(g) /\ salt[g] # "running"
    BY DEF RemovedLockIsStale
  <2>2. IsLocked
    BY <1>1, <2>1 DEF IInv, StaleLockStays
  <2>3. ASSUME NEW g \in Hooks PROVE ~WorkerAlive(g) /\ salt[g] # "running"
    <3>1. CASE g = h
      BY <1>1, <2>1, <3>1 DEF IInv, Fresh, BeforeFork, WorkerAlive
    <3>2. CASE g # h
      BY <1>1, <2>1, <2>3, <3>2 DEF IInv, OneCommitted, Committed, Executing, Admitted
    <3>3. QED
      BY <3>1, <3>2
  <2>4. QED
    BY <2>2, <2>3
<1>2. QED
  BY <1>1, Invariance, PTL

(***************************************************************************)
(* The executions are those of the abstract singleton: the worker's Spawn  *)
(* is Begin, the end of a salt-call is End, everything else stutters.      *)
(***************************************************************************)
Running == {h \in Hooks : salt[h] = "running"}
Ran     == {h \in Hooks : salt[h] # "none"}

LEMMA SpawnBegins ==
  ASSUME IInv, NEW h \in Hooks, Spawn(h) PROVE Executions!Begin(h)
<1>1. salt[h] = "none"
  BY DEF Spawn, IInv, NotSpawned
<1>2. \A g \in Hooks : g # h => salt[g] # "running"
  BY DEF Spawn, IInv, OneCommitted, Committed, Executing, WorkerAlive
<1>3. salt' = [salt EXCEPT ![h] = "running"] /\ salt \in [Hooks -> SaltPC]
  BY DEF Spawn, IInv, TypeOK
<1>4. Running = {} /\ h \notin Ran
  BY <1>1, <1>2 DEF Running, Ran
<1>5. Running' = {h}
  BY <1>2, <1>3 DEF Running
<1>6. Ran' = Ran \cup {h}
  BY <1>3 DEF Ran
<1>7. QED
  BY <1>4, <1>5, <1>6 DEF Executions!Begin, Running, Ran

LEMMA SaltStops ==
  ASSUME TypeOK, NEW h \in Hooks, salt[h] = "running",
         NEW outcome \in {"ok", "fail", "killed"}, salt' = [salt EXCEPT ![h] = outcome]
  PROVE  Executions!End(h)
<1>1. h \in Running /\ Running' = Running \ {h}
  BY DEF TypeOK, Running
<1>2. UNCHANGED Ran
  BY DEF TypeOK, Ran
<1>3. QED
  BY <1>1, <1>2 DEF Executions!End, Running, Ran

LEMMA StepRefines ==
  ASSUME IInv, [Next]_vars PROVE [Executions!SNext]_(Executions!svars)
<1> SUFFICES ASSUME salt' # salt PROVE Executions!SNext
  BY DEF Executions!svars
<1>1. PICK h \in Hooks :
        MainStep(h) \/ WorkerStep(h) \/ TimerStep(h) \/ SaltEnds(h) \/ Environment(h)
  BY DEF Next, vars
<1>2. Spawn(h) \/ SaltEnds(h) \/ KillSalt(h) \/ Hangup(h)
  <2>1. ~MainStep(h)
    BY DEF MainStep, ScanSalt, ScanHooks, Reject, Admit, RemoveStaleLock, Fork, ReadPid,
      ReadTimeout, ReadEnd, ReadError, Join, Exit
  <2>2. WorkerStep(h) => Spawn(h)
    BY DEF WorkerStep, SendPid, TakeLock, TakeLockFails, InstallHandler, LockWriteFails, SpawnFails,
      Reap, CleanLocks, ReportEnd, ReportError, Result, IdleEnds, HandleSigusr2
  <2>3. ~TimerStep(h)
    BY DEF TimerStep, TimerStops, TimerOverdue, TimerKill, TimerKillFails, TimerReports
  <2>4. Environment(h) => KillSalt(h) \/ Hangup(h)
    BY DEF Environment, Start, Detach, Interrupt, KillMain, KillWorker, KillTimer
  <2>5. QED
    BY <1>1, <2>1, <2>2, <2>3, <2>4
<1>3. CASE Spawn(h)
  BY <1>3, SpawnBegins DEF Executions!SNext
<1>4. CASE SaltEnds(h)
  BY <1>4, SaltStops DEF SaltEnds, Executions!SNext, IInv
<1>5. CASE KillSalt(h)
  BY <1>5, SaltStops DEF KillSalt, Executions!SNext, IInv
<1>6. CASE Hangup(h)
  <2>1. salt' = [salt EXCEPT ![h] = IF salt[h] = "running" THEN "killed" ELSE salt[h]]
    BY <1>6 DEF Hangup
  <2>2. salt[h] = "running"
    <3>1. SUFFICES ASSUME salt[h] # "running" PROVE salt' = salt
      OBVIOUS
    <3>2. QED
      BY <2>1, <3>1 DEF IInv, TypeOK
  <2>3. QED
    BY <2>1, <2>2, SaltStops DEF Executions!SNext, IInv
<1>7. QED
  BY <1>2, <1>3, <1>4, <1>5, <1>6

\* The executor implements the singleton: at most one salt-call runs at any time, and
\* each invocation launches at most one.
THEOREM Refinement ==
  ASSUME SameProgram, ~KillMidScan PROVE Spec => OneAtATime
<1>1. Init => Executions!SInit
  BY DEF Init, Executions!SInit
<1>2. QED
  BY <1>1, StepRefines, Invariance, PTL DEF Spec, OneAtATime, Executions!SSpec

(***************************************************************************)
(* What a program leaves behind, with no assumption on who sees whom.      *)
(***************************************************************************)

\* the worker of h has done with its salt-call, and launches no other
Over(h) ==
  worker[h] \notin {"none", "boot", "prelock", "taken", "spawn", "wait"} /\ salt[h] # "running"

Reported(h) == \E i \in 1..Len(protocol[h]) : protocol[h][i] # "pid"

Ends(h) ==
  /\ worker[h] \in {"clean", "send", "result", "idle"} => salt[h] # "running"
  /\ Reported(h) => Over(h)
  /\ main[h] \in {"join", "unlock"} /\ ret[h] # "TimeoutError" => Over(h)
  /\ main[h] = "unlock" => ~WorkerAlive(h) /\ ~TimerAlive(h)
  /\ code[h] # NoCode => main[h] = "exited"
  /\ code[h] \in {0, 1} /\ ret[h] \notin {"detached", "TimeoutError"} =>
       ~WorkerAlive(h) /\ ~TimerAlive(h) /\ h \notin manager /\ salt[h] # "running"

EndInv == TypeOK /\ Fresh /\ NotSpawned /\ \A h \in Hooks : Ends(h)

\* a message that arrives is the last of its queue
LEMMA ReportArrives ==
  ASSUME TypeOK, NEW h \in Hooks, NEW m \in Message, m = "pid" \/ Over(h),
         protocol'[h] = Append(protocol[h], m), Reported(h) => Over(h)
  PROVE  Reported(h)' => Over(h)
<1> SUFFICES ASSUME NEW i \in 1..Len(protocol'[h]), protocol'[h][i] # "pid" PROVE Over(h)
  BY DEF Reported
<1>1. protocol[h] \in Seq(Message)
  BY DEF TypeOK
<1>2. CASE i \in 1..Len(protocol[h])
  BY <1>1, <1>2 DEF Reported
<1>3. CASE i = Len(protocol[h]) + 1
  BY <1>1, <1>3
<1>4. QED
  BY <1>1, <1>2, <1>3

\* what main reads was in the queue, and what is left was
LEMMA ReportIsRead ==
  ASSUME TypeOK, NEW h \in Hooks, protocol[h] # <<>>
  PROVE  /\ Head(protocol[h]) # "pid" => Reported(h)
         /\ protocol'[h] = Tail(protocol[h]) /\ Reported(h)' => Reported(h)
<1>1. protocol[h] \in Seq(Message)
  BY DEF TypeOK
<1>2. Head(protocol[h]) = protocol[h][1] /\ 1 \in 1..Len(protocol[h])
  BY <1>1
<1>3. ASSUME protocol'[h] = Tail(protocol[h]), Reported(h)' PROVE Reported(h)
  <2>1. PICK i \in 1..Len(Tail(protocol[h])) : Tail(protocol[h])[i] # "pid"
    BY <1>3 DEF Reported
  <2>2. i + 1 \in 1..Len(protocol[h]) /\ protocol[h][i + 1] # "pid"
    BY <1>1, <2>1
  <2>3. QED
    BY <2>2 DEF Reported
<1>4. QED
  BY <1>2, <1>3 DEF Reported

LEMMA MainEnds ==
  ASSUME EndInv, NEW h \in Hooks, MainStep(h) PROVE Ends(h)'
<1> USE DEF EndInv, TypeOK, Ends, Over, WorkerAlive, TimerAlive, NoCode
<1>1. CASE ScanSalt(h) \/ ScanHooks(h) \/ Reject(h) \/ Admit(h)
  BY <1>1 DEF ScanSalt, ScanHooks, Reject, Admit, Reported
<1>2. CASE RemoveStaleLock(h)
  BY <1>2 DEF RemoveStaleLock, Reported, Fresh, BeforeFork
<1>3. CASE Fork(h)
  BY <1>3 DEF Fork, Reported, Fresh, BeforeFork
<1>4. CASE ReadPid(h)
  <2>1. protocol[h] # <<>> /\ protocol'[h] = Tail(protocol[h])
    BY <1>4 DEF ReadPid
  <2>2. Reported(h)' => Over(h)
    BY <2>1, ReportIsRead
  <2>3. QED
    BY <1>4, <2>2 DEF ReadPid
<1>5. CASE ReadTimeout(h)
  BY <1>5 DEF ReadTimeout, Terminate, Reported
<1>6. CASE ReadEnd(h) \/ ReadError(h)
  <2>1. Over(h) /\ main[h] = "loop"
    BY <1>6, ReportIsRead DEF ReadEnd, ReadError
  <2>2. QED
    BY <1>6, <2>1 DEF ReadEnd, ReadError, Terminate
<1>7. CASE Join(h)
  BY <1>7 DEF Join, Reported
<1>8. CASE Exit(h)
  BY <1>8 DEF Exit, Reported
<1>9. QED
  BY <1>1, <1>2, <1>3, <1>4, <1>5, <1>6, <1>7, <1>8 DEF MainStep

LEMMA WorkerEnds ==
  ASSUME EndInv, NEW h \in Hooks, WorkerStep(h) PROVE Ends(h)'
<1> USE DEF EndInv, TypeOK, Ends, Over, WorkerAlive, TimerAlive, NotSpawned
<1>1. CASE SendPid(h)
  <2>1. Reported(h)' => Over(h)
    BY <1>1, ReportArrives DEF SendPid, Message
  <2>2. QED
    BY <1>1, <2>1 DEF SendPid
<1>2. CASE \/ TakeLock(h) \/ TakeLockFails(h) \/ InstallHandler(h) \/ LockWriteFails(h)
           \/ Spawn(h) \/ SpawnFails(h)
  <2>1. ~Reported(h) /\ (Reported(h)' <=> Reported(h))
    BY <1>2 DEF TakeLock, TakeLockFails, InstallHandler, LockWriteFails, Spawn, SpawnFails,
                Reported
  <2>2. CASE TakeLock(h)
    BY <2>1, <2>2 DEF TakeLock
  <2>3. CASE TakeLockFails(h)
    BY <2>1, <2>3 DEF TakeLockFails
  <2>4. CASE Spawn(h)
    BY <2>1, <2>4 DEF Spawn
  <2>3a. CASE InstallHandler(h)
    BY <2>1, <2>3a DEF InstallHandler
  <2>3b. CASE LockWriteFails(h)
    BY <2>1, <2>3b DEF LockWriteFails
  <2>5. CASE SpawnFails(h)
    BY <2>1, <2>5 DEF SpawnFails
  <2>6. QED
    BY <1>2, <2>2, <2>3, <2>3a, <2>3b, <2>4, <2>5
<1>3. CASE Reap(h)
  BY <1>3 DEF Reap, Reported
<1>3c. CASE CleanLocks(h)
  BY <1>3c DEF CleanLocks, Reported
<1>4. CASE ReportEnd(h)
  <2>1. Over(h)
    BY <1>4 DEF ReportEnd
  <2>2. Over(h)'
    BY <1>4, <2>1 DEF ReportEnd
  <2>3. QED
    BY <1>4, <2>2 DEF ReportEnd
<1>5. CASE ReportError(h)
  <2>1. Over(h)
    BY <1>5 DEF ReportError
  <2>2. Over(h)'
    BY <1>5, <2>1 DEF ReportError
  <2>3. QED
    BY <1>5, <2>2 DEF ReportError
<1>6. CASE Result(h)
  <2>1. (Reported(h)' <=> Reported(h)) /\ worker'[h] = "idle" /\ salt'[h] # "running"
    BY <1>6 DEF Result, Reported
  <2>2. CASE main[h] = "loop"
    BY <1>6, <2>1, <2>2 DEF Result, NoCode
  <2>3. CASE main[h] # "loop"
    <3>1. ret'[h] = ret[h]
      BY <1>6, <2>3 DEF Result
    <3>2. QED
      BY <1>6, <2>1, <3>1 DEF Result
  <2>4. QED
    BY <2>2, <2>3
<1>7. CASE IdleEnds(h) \/ HandleSigusr2(h)
  BY <1>7 DEF IdleEnds, HandleSigusr2, Reported
<1>8. QED
  BY <1>1, <1>2, <1>3, <1>3c, <1>4, <1>5, <1>6, <1>7 DEF WorkerStep

LEMMA OthersEnd ==
  ASSUME EndInv, NEW h \in Hooks, TimerStep(h) \/ SaltEnds(h) \/ Environment(h) PROVE Ends(h)'
<1> USE DEF EndInv, TypeOK, Ends, Over, WorkerAlive, TimerAlive, Reported, NoCode
<1>1. CASE TimerStops(h) \/ TimerOverdue(h) \/ TimerKillFails(h) \/ TimerReports(h)
  BY <1>1 DEF TimerStops, TimerOverdue, TimerKillFails, TimerReports
<1>2. CASE TimerKill(h)
  BY <1>2 DEF TimerKill, NotSpawned
<1>3. CASE SaltEnds(h)
  BY <1>3 DEF SaltEnds
<1>4. CASE Start(h)
  BY <1>4 DEF Start
<1>5. CASE Detach(h)
  BY <1>5 DEF Detach
<1>6. CASE Interrupt(h)
  BY <1>6 DEF Interrupt, MainAlive, Fresh, BeforeFork, MainPC, Scanning, Admitted
<1>7. CASE KillMain(h)
  BY <1>7 DEF KillMain
<1>8. CASE KillWorker(h) \/ KillTimer(h) \/ KillSalt(h)
  BY <1>8 DEF KillWorker, KillTimer, KillSalt
<1>9. CASE Hangup(h)
  BY <1>9 DEF Hangup
<1>10. QED
  BY <1>1, <1>2, <1>3, <1>4, <1>5, <1>6, <1>7, <1>8, <1>9 DEF TimerStep, Environment

\* the steps of an invocation are its own, but for the lock
LEMMA OthersStay ==
  ASSUME TypeOK, NEW h \in Hooks, NEW g \in Hooks \ {h},
         MainStep(h) \/ WorkerStep(h) \/ TimerStep(h) \/ SaltEnds(h) \/ Environment(h)
  PROVE  /\ main'[g] = main[g] /\ worker'[g] = worker[g] /\ timer'[g] = timer[g]
         /\ salt'[g] = salt[g] /\ protocol'[g] = protocol[g] /\ ret'[g] = ret[g]
         /\ timerQueue'[g] = timerQueue[g] /\ code'[g] = code[g]
         /\ (g \in manager' <=> g \in manager) /\ (g \in abandoned' <=> g \in abandoned)
<1> USE DEF TypeOK
<1>1. CASE MainStep(h)
  <2>1. CASE ScanSalt(h) \/ ScanHooks(h) \/ Reject(h) \/ Admit(h) \/ RemoveStaleLock(h) \/ Fork(h)
    BY <2>1 DEF ScanSalt, ScanHooks, Reject, Admit, RemoveStaleLock, Fork
  <2>2. CASE ReadPid(h) \/ Join(h) \/ Exit(h)
    BY <2>2 DEF ReadPid, Join, Exit
  <2>3. CASE ReadTimeout(h) \/ ReadEnd(h) \/ ReadError(h)
    BY <2>3 DEF ReadTimeout, ReadEnd, ReadError, Terminate
  <2>4. QED
    BY <1>1, <2>1, <2>2, <2>3 DEF MainStep
<1>2. CASE WorkerStep(h)
  <2>1. CASE SendPid(h) \/ TakeLock(h) \/ TakeLockFails(h) \/ InstallHandler(h) \/ LockWriteFails(h)
    BY <2>1 DEF SendPid, TakeLock, TakeLockFails, InstallHandler, LockWriteFails
  <2>1s. CASE Spawn(h) \/ SpawnFails(h) \/ Reap(h)
    BY <2>1s DEF Spawn, SpawnFails, Reap
  <2>2. CASE CleanLocks(h) \/ ReportEnd(h) \/ ReportError(h) \/ Result(h)
    BY <2>2 DEF CleanLocks, ReportEnd, ReportError, Result
  <2>3. CASE IdleEnds(h) \/ HandleSigusr2(h)
    BY <2>3 DEF IdleEnds, HandleSigusr2
  <2>4. QED
    BY <1>2, <2>1, <2>1s, <2>2, <2>3 DEF WorkerStep
<1>3. CASE TimerStep(h) \/ SaltEnds(h)
  BY <1>3 DEF TimerStep, TimerStops, TimerOverdue, TimerKill, TimerKillFails, TimerReports, SaltEnds
<1>4. CASE Environment(h)
  <2>1. CASE Start(h) \/ Detach(h) \/ Interrupt(h) \/ Hangup(h)
    BY <2>1 DEF Start, Detach, Interrupt, Hangup
  <2>2. CASE KillMain(h) \/ KillWorker(h) \/ KillTimer(h) \/ KillSalt(h)
    BY <2>2 DEF KillMain, KillWorker, KillTimer, KillSalt
  <2>3. QED
    BY <1>4, <2>1, <2>2 DEF Environment
<1>5. QED
  BY <1>1, <1>2, <1>3, <1>4

LEMMA NextEndInv == ASSUME EndInv, [Next]_vars PROVE EndInv'
<1>1. CASE UNCHANGED vars
  BY <1>1 DEF vars, EndInv, TypeOK, Fresh, NotSpawned, Ends, Over, Reported, WorkerAlive, TimerAlive
<1>2. CASE Next
  <2>1. PICK h \in Hooks :
          MainStep(h) \/ WorkerStep(h) \/ TimerStep(h) \/ SaltEnds(h) \/ Environment(h)
    BY <1>2 DEF Next
  <2>2. TypeOK' /\ Fresh' /\ NotSpawned'
    BY <1>2, <2>1, NextTypeOK, NextFresh, NextNotSpawned DEF EndInv
  <2>3. Ends(h)'
    BY <2>1, MainEnds, WorkerEnds, OthersEnd
  <2>4. ASSUME NEW g \in Hooks \ {h} PROVE Ends(g)'
    BY <2>1, OthersStay DEF EndInv, Ends, Over, Reported, WorkerAlive, TimerAlive
  <2>5. QED
    BY <2>2, <2>3, <2>4 DEF EndInv
<1>3. QED
  BY <1>1, <1>2

\* A program that ends by itself, neither detached nor after a timeout, leaves no process behind,
\* whoever runs at the same time and whatever is killed.
THEOREM NothingIsLeft == Spec => []NothingLeftBehind
<1>1. Init => EndInv
  BY InitTypeOK DEF Init, EndInv, Fresh, NotSpawned, Ends, Over, Reported, WorkerAlive, TimerAlive,
                    NoCode, BeforeFork
<1>2. EndInv => NothingLeftBehind
  BY DEF EndInv, Ends, NothingLeftBehind, Alive, MainAlive, NoCode
<1>3. QED
  BY <1>1, <1>2, NextEndInv, PTL DEF Spec

(***************************************************************************)
(* What main waits for, when nobody kills those that owe it a report.      *)
(***************************************************************************)

\* the worker has yet to report
Reporting == {"boot", "prelock", "send", "fail"} \cup Holding

\* the pid comes first, once, and before the timer
PidOnce(h) ==
  /\ worker[h] \in {"none", "boot"} => protocol[h] = <<>> /\ timer[h] = "none"
  /\ \A i \in 1..Len(protocol[h]) : protocol[h][i] = "pid" => i = 1 /\ timer[h] = "none"

Awaited(h) ==
  /\ main[h] = "loop" => \/ Reported(h) \/ timerQueue[h] = "TIMEOUT" \/ timer[h] = "report"
                         \/ worker[h] \in Reporting
  /\ timer[h] = "report" \/ timerQueue[h] = "TIMEOUT" \/ main[h] = "join"
       => worker[h] \in {"sigusr2", "dead"}
  /\ Reported(h) => worker[h] \in {"result", "idle", "failed", "sigusr2", "dead"}

\* from the fork on only the worker of h holds the lock
OwnLock(h) ==
  main[h] \in {"fork", "loop", "join", "unlock"} /\ IsLocked
    => worker[h] \in Holding \cup {"sigusr2"} \/ h \in abandoned

WaitInv == IInv /\ \A h \in Hooks : PidOnce(h) /\ Awaited(h) /\ OwnLock(h)

\* a report that is sent is there
LEMMA SentIsReported ==
  ASSUME TypeOK, NEW h \in Hooks, NEW m \in {"END", "ERROR"},
         protocol'[h] = Append(protocol[h], m)
  PROVE  Reported(h)'
<1>1. protocol[h] \in Seq(Message) /\ m \in Message
  BY DEF TypeOK, Message
<1>2. Len(protocol'[h]) = Len(protocol[h]) + 1 /\ protocol'[h][Len(protocol[h]) + 1] = m
  BY <1>1
<1>3. Len(protocol[h]) + 1 \in 1..Len(protocol'[h])
  BY <1>1, <1>2
<1>4. QED
  BY <1>2, <1>3 DEF Reported

\* reading the pid leaves the reports
LEMMA PidIsRead ==
  ASSUME TypeOK, NEW h \in Hooks, protocol[h] # <<>>, Head(protocol[h]) = "pid",
         protocol'[h] = Tail(protocol[h]), PidOnce(h)
  PROVE  /\ timer[h] = "none"
         /\ Reported(h) => Reported(h)'
         /\ \A i \in 1..Len(protocol'[h]) : protocol'[h][i] # "pid"
<1>1. protocol[h] \in Seq(Message)
  BY DEF TypeOK
<1>2. Head(protocol[h]) = protocol[h][1] /\ 1 \in 1..Len(protocol[h])
  BY <1>1
<1>3. ASSUME Reported(h) PROVE Reported(h)'
  <2>1. PICK i \in 1..Len(protocol[h]) : protocol[h][i] # "pid"
    BY <1>3 DEF Reported
  <2>2. i - 1 \in 1..Len(Tail(protocol[h])) /\ Tail(protocol[h])[i - 1] = protocol[h][i]
    BY <1>1, <1>2, <2>1
  <2>3. QED
    BY <2>1, <2>2 DEF Reported
<1>4. ASSUME NEW i \in 1..Len(Tail(protocol[h])) PROVE Tail(protocol[h])[i] # "pid"
  <2>1. i + 1 \in 1..Len(protocol[h]) /\ Tail(protocol[h])[i] = protocol[h][i + 1] /\ i + 1 # 1
    BY <1>1
  <2>2. QED
    BY <2>1 DEF PidOnce
<1>5. QED
  BY <1>2, <1>3, <1>4 DEF PidOnce

\* whatever else is read or sent, the pid stays where it was
LEMMA PidStaysFirst ==
  ASSUME TypeOK, NEW h \in Hooks, PidOnce(h),
         \/ protocol'[h] = protocol[h]
         \/ protocol[h] # <<>> /\ protocol'[h] = Tail(protocol[h])
         \/ \E m \in {"END", "ERROR"} : protocol'[h] = Append(protocol[h], m)
  PROVE  \A i \in 1..Len(protocol'[h]) : protocol'[h][i] = "pid" => i = 1 /\ timer[h] = "none"
<1>1. protocol[h] \in Seq(Message)
  BY DEF TypeOK
<1>2. CASE protocol'[h] = protocol[h]
  BY <1>2 DEF PidOnce
<1>3. CASE protocol[h] # <<>> /\ protocol'[h] = Tail(protocol[h])
  <2>1. ASSUME NEW i \in 1..Len(Tail(protocol[h])) PROVE Tail(protocol[h])[i] # "pid"
    <3>1. i + 1 \in 1..Len(protocol[h]) /\ Tail(protocol[h])[i] = protocol[h][i + 1] /\ i + 1 # 1
      BY <1>1
    <3>2. QED
      BY <3>1 DEF PidOnce
  <2>2. QED
    BY <1>3, <2>1
<1>4. ASSUME NEW m \in {"END", "ERROR"}, protocol'[h] = Append(protocol[h], m)
      PROVE  \A i \in 1..Len(protocol'[h]) : protocol'[h][i] = "pid" => i = 1 /\ timer[h] = "none"
  <2>1. ASSUME NEW i \in 1..Len(protocol'[h]), protocol'[h][i] = "pid"
        PROVE  i \in 1..Len(protocol[h]) /\ protocol[h][i] = "pid"
    <3>1. m \in Message
      BY DEF Message
    <3>2. QED
      BY <1>1, <1>4, <2>1, <3>1
  <2>2. QED
    BY <2>1 DEF PidOnce
<1>5. QED
  BY <1>2, <1>3, <1>4

\* what is true of the queue stays true while the queue stays as it is
LEMMA QueueStays ==
  ASSUME TypeOK, NEW h \in Hooks, protocol'[h] = protocol[h], PidOnce(h),
         worker'[h] \in {"none", "boot"} => worker[h] \in {"none", "boot"},
         timer[h] = "none" => timer'[h] = "none"
  PROVE  PidOnce(h)' /\ (Reported(h)' <=> Reported(h))
<1>1. Reported(h)' <=> Reported(h)
  BY DEF Reported
<1>2. PidOnce(h)'
  BY DEF PidOnce
<1>3. QED
  BY <1>1, <1>2

LEMMA MainAwaits ==
  ASSUME WaitInv, NEW h \in Hooks, MainStep(h) PROVE PidOnce(h)' /\ Awaited(h)' /\ OwnLock(h)'
<1> USE DEF WaitInv, IInv, TypeOK
<1>1. CASE ScanSalt(h) \/ ScanHooks(h) \/ Reject(h) \/ Admit(h)
  BY <1>1 DEF ScanSalt, ScanHooks, Reject, Admit, PidOnce, Awaited, OwnLock, Reported, IsLocked
<1>2. CASE RemoveStaleLock(h)
  BY <1>2 DEF RemoveStaleLock, PidOnce, Awaited, OwnLock, Reported, IsLocked
<1>3. CASE Fork(h)
  <2>1. worker[h] = "none" /\ protocol[h] = <<>> /\ timer[h] = "none"
    BY <1>3 DEF Fork, Fresh, BeforeFork, PidOnce
  <2>2. ~IsLocked /\ timerQueue[h] # "TIMEOUT" /\ ~Reported(h)
    BY <1>3, <2>1 DEF Fork, OwnLock, Awaited, Holding, Deploying, Fresh, BeforeFork, Reported
  <2>3. QED
    BY <1>3, <2>1, <2>2 DEF Fork, PidOnce, Awaited, OwnLock, Reported, Reporting, IsLocked
<1>4. CASE ReadPid(h)
  <2>1. protocol[h] # <<>> /\ Head(protocol[h]) = "pid" /\ protocol'[h] = Tail(protocol[h])
    BY <1>4 DEF ReadPid
  <2>2. /\ timer[h] = "none"
        /\ Reported(h) => Reported(h)'
        /\ \A i \in 1..Len(protocol'[h]) : protocol'[h][i] # "pid"
    BY <2>1, PidIsRead
  <2>3. Reported(h)' => Reported(h)
    BY <2>1, ReportIsRead
  <2>4. worker[h] \notin {"none", "boot"}
    BY <2>1 DEF PidOnce
  <2>5. PidOnce(h)'
    BY <1>4, <2>2, <2>4 DEF ReadPid, PidOnce
  <2>6. Awaited(h)' /\ OwnLock(h)'
    BY <1>4, <2>2, <2>3 DEF ReadPid, Awaited, OwnLock, IsLocked
  <2>7. QED
    BY <2>5, <2>6
<1>5. CASE ReadTimeout(h)
  <2>1. worker[h] \in {"sigusr2", "dead"}
    BY <1>5 DEF ReadTimeout, Awaited
  <2>2. PidOnce(h)'
    BY <1>5, <2>1 DEF ReadTimeout, Terminate, PidOnce, TimerAlive
  <2>3. Awaited(h)' /\ OwnLock(h)'
    BY <1>5, <2>1 DEF ReadTimeout, Terminate, Awaited, OwnLock, Reported, IsLocked
  <2>4. QED
    BY <2>2, <2>3
<1>6. CASE ReadEnd(h) \/ ReadError(h)
  <2>1. protocol[h] # <<>> /\ Head(protocol[h]) # "pid" /\ protocol'[h] = Tail(protocol[h])
    BY <1>6 DEF ReadEnd, ReadError
  <2>2. Reported(h)
    BY <2>1, ReportIsRead
  <2>3. worker[h] \in {"result", "idle", "failed", "sigusr2", "dead"}
    BY <2>2 DEF Awaited
  <2>4. main'[h] = "join" /\ worker'[h] \in {"sigusr2", "dead"} /\ UNCHANGED lock
    BY <1>6, <2>3 DEF ReadEnd, ReadError, Terminate, OwnLock, Holding, Deploying
  <2>5. timer[h] = "none" => timer'[h] = "none"
    BY <1>6 DEF ReadEnd, ReadError, Terminate, TimerAlive
  <2>6. PidOnce(h)'
    BY <2>1, <2>4, <2>5, PidStaysFirst DEF PidOnce
  <2>7. Awaited(h)'
    BY <2>4 DEF Awaited
  <2>8. OwnLock(h)'
    <3>1. CASE ~IsLocked
      BY <2>4, <3>1 DEF OwnLock, IsLocked
    <3>2. CASE IsLocked
      <4>1. worker[h] = "sigusr2" \/ h \in abandoned
        BY <1>6, <2>3, <3>2 DEF ReadEnd, ReadError, OwnLock, Holding, Deploying
      <4>2. worker'[h] = "sigusr2" \/ h \in abandoned'
        BY <1>6, <3>2, <4>1 DEF ReadEnd, ReadError, Terminate
      <4>3. QED
        BY <4>2 DEF OwnLock
    <3>3. QED
      BY <3>1, <3>2
  <2>9. QED
    BY <2>6, <2>7, <2>8
<1>7. CASE Join(h) \/ Exit(h)
  <2>1. /\ main'[h] \in {"unlock", "exited"}
        /\ main'[h] = "unlock" => main[h] = "join"
        /\ UNCHANGED <<lock, worker, timer, protocol, timerQueue, abandoned>>
    BY <1>7 DEF Join, Exit
  <2>2. QED
    BY <2>1, QueueStays DEF Awaited, OwnLock, IsLocked
<1>8. QED
  BY <1>1, <1>2, <1>3, <1>4, <1>5, <1>6, <1>7 DEF MainStep

LEMMA WorkerAwaits ==
  ASSUME WaitInv, NEW h \in Hooks, WorkerStep(h) PROVE PidOnce(h)' /\ Awaited(h)' /\ OwnLock(h)'
<1> USE DEF WaitInv, IInv, TypeOK, Holding, Deploying
<1>1. CASE SendPid(h)
  <2>1. /\ protocol[h] = <<>> /\ protocol'[h] = Append(protocol[h], "pid")
        /\ timer[h] = "none" /\ worker'[h] = "prelock"
    BY <1>1 DEF SendPid, PidOnce
  <2>2. Len(protocol'[h]) = 1 /\ protocol'[h][1] = "pid"
    <3>1. protocol[h] \in Seq(Message) /\ "pid" \in Message /\ Len(protocol[h]) = 0
      BY <2>1 DEF Message
    <3>2. QED
      BY <2>1, <3>1
  <2>3. \A i \in 1..Len(protocol'[h]) : i = 1
    BY <2>2
  <2>4. ~Reported(h)'
    BY <2>2, <2>3 DEF Reported
  <2>5. timer'[h] = "none"
    BY <1>1, <2>1 DEF SendPid
  <2>6. PidOnce(h)'
    BY <2>1, <2>3, <2>5 DEF PidOnce
  <2>7. Awaited(h)' /\ OwnLock(h)'
    BY <1>1, <2>1, <2>4, <2>5 DEF SendPid, Awaited, OwnLock, Reporting, IsLocked
  <2>8. QED
    BY <2>6, <2>7
<1>2. CASE TakeLock(h)
  <2>1. /\ worker[h] = "prelock" /\ worker'[h] \in Holding
        /\ UNCHANGED <<main, timer, protocol, timerQueue>>
    BY <1>2 DEF TakeLock
  <2>2. QED
    BY <2>1, QueueStays DEF Awaited, OwnLock, Reporting
<1>3. CASE TakeLockFails(h)
  BY <1>3, QueueStays DEF TakeLockFails, Awaited, OwnLock, Reporting, IsLocked
<1>3a. CASE InstallHandler(h)
  <2>1. /\ worker[h] = "taken" /\ worker'[h] \in Holding
        /\ UNCHANGED <<lock, main, timer, protocol, timerQueue, abandoned>>
    BY <1>3a DEF InstallHandler
  <2>2. QED
    BY <2>1, QueueStays DEF Awaited, OwnLock, Reporting, IsLocked
<1>3b. CASE LockWriteFails(h)
  <2>1. /\ worker[h] = "taken" /\ worker'[h] = "fail" /\ h \in abandoned'
        /\ UNCHANGED <<lock, main, timer, protocol, timerQueue>>
    BY <1>3b DEF LockWriteFails
  <2>2. QED
    BY <2>1, QueueStays DEF Awaited, OwnLock, Reporting
<1>4. CASE Spawn(h) \/ SpawnFails(h)
  <2>1. /\ worker[h] = "spawn" /\ worker'[h] \in Holding
        /\ UNCHANGED <<lock, main, timer, protocol, timerQueue, abandoned>>
    BY <1>4 DEF Spawn, SpawnFails
  <2>2. QED
    BY <2>1, QueueStays DEF Awaited, OwnLock, Reporting, IsLocked
<1>5. CASE Reap(h)
  <2>1. /\ worker[h] = "wait" /\ worker'[h] \in Holding
        /\ UNCHANGED <<lock, main, timer, protocol, timerQueue, abandoned>>
    BY <1>5 DEF Reap
  <2>2. QED
    BY <2>1, QueueStays DEF Awaited, OwnLock, Reporting, IsLocked
<1>6. CASE CleanLocks(h)
  BY <1>6, QueueStays DEF CleanLocks, Awaited, OwnLock, Reporting, IsLocked
<1>7. CASE ReportEnd(h) \/ ReportError(h)
  <2>1. \/ main[h] # "loop" /\ protocol'[h] = protocol[h]
        \/ \E m \in {"END", "ERROR"} : protocol'[h] = Append(protocol[h], m)
    BY <1>7 DEF ReportEnd, ReportError, MainAlive
  <2>2. /\ worker'[h] \in {"result", "failed"}
        /\ UNCHANGED <<lock, main, timer, timerQueue, abandoned>>
    BY <1>7 DEF ReportEnd, ReportError
  <2>3. PidOnce(h)'
    BY <2>1, <2>2, PidStaysFirst DEF PidOnce
  <2>4. main[h] = "loop" => Reported(h)'
    BY <2>1, SentIsReported
  <2>5. worker[h] \in {"send", "fail"}
    BY <1>7 DEF ReportEnd, ReportError
  <2>6. QED
    BY <2>2, <2>3, <2>4, <2>5 DEF Awaited, OwnLock, IsLocked
<1>8. CASE Result(h)
  BY <1>8, QueueStays DEF Result, Awaited, OwnLock, Reporting, IsLocked
<1>9. CASE IdleEnds(h)
  BY <1>9, QueueStays DEF IdleEnds, MainAlive, Awaited, OwnLock, IsLocked
<1>10. CASE HandleSigusr2(h)
  BY <1>10, QueueStays DEF HandleSigusr2, Awaited, OwnLock, Reporting, IsLocked
<1>11. QED
  BY <1>1, <1>2, <1>3, <1>3a, <1>3b, <1>4, <1>5, <1>6, <1>7, <1>8, <1>9, <1>10 DEF WorkerStep

LEMMA OthersAwait ==
  ASSUME WaitInv, Kill9 \cap {"worker", "reporter"} = {}, NEW h \in Hooks,
         TimerStep(h) \/ SaltEnds(h) \/ Environment(h)
  PROVE  PidOnce(h)' /\ Awaited(h)' /\ OwnLock(h)'
<1> USE DEF WaitInv, IInv, TypeOK, Awaited, OwnLock, IsLocked
<1>1. CASE TimerStops(h) \/ TimerOverdue(h) \/ TimerKillFails(h)
  <2>1. /\ timer[h] \in {"watch", "overdue"} /\ timer'[h] \in {"watch", "overdue", "dead"}
        /\ UNCHANGED <<lock, main, worker, protocol, timerQueue, abandoned>>
    BY <1>1 DEF TimerStops, TimerOverdue, TimerKillFails
  <2>2. QED
    BY <2>1, QueueStays
<1>2. CASE TimerKill(h)
  <2>1. /\ timer[h] = "overdue" /\ timer'[h] = "report"
        /\ worker'[h] \in {"sigusr2", "dead"} /\ worker[h] # "none"
        /\ UNCHANGED <<lock, main, protocol, timerQueue>>
    BY <1>2 DEF TimerKill, WorkerAlive
  <2>2. /\ worker'[h] = "dead" => worker[h] \notin Holding \cup {"sigusr2"} \/ h \in abandoned'
        /\ h \in abandoned => h \in abandoned'
    BY <1>2 DEF TimerKill, Holding, Deploying, NoHandler
  <2>3. PidOnce(h)' /\ (Reported(h)' <=> Reported(h))
    BY <2>1, QueueStays
  <2>4. Awaited(h)'
    BY <2>1, <2>3
  <2>5. OwnLock(h)'
    <3>1. CASE worker'[h] = "sigusr2"
      BY <3>1
    <3>2. CASE worker'[h] = "dead"
      <4>1. SUFFICES ASSUME main[h] \in {"fork", "loop", "join", "unlock"}, IsLocked
                     PROVE  h \in abandoned'
        BY <2>1
      <4>2. worker[h] \in Holding \cup {"sigusr2"} \/ h \in abandoned
        BY <4>1
      <4>3. QED
        BY <2>2, <3>2, <4>2
    <3>3. QED
      BY <2>1, <3>1, <3>2
  <2>6. QED
    BY <2>3, <2>4, <2>5
<1>3. CASE TimerReports(h)
  BY <1>3, QueueStays DEF TimerReports
<1>4. CASE SaltEnds(h)
  BY <1>4, QueueStays DEF SaltEnds
<1>5. CASE Start(h)
  BY <1>5, QueueStays DEF Start
<1>6. CASE Detach(h) \/ Interrupt(h) \/ KillMain(h)
  <2>1. main'[h] = "exited" /\ UNCHANGED <<lock, worker, timer, protocol, timerQueue, abandoned>>
    BY <1>6 DEF Detach, Interrupt, KillMain
  <2>2. QED
    BY <2>1, QueueStays
<1>7. CASE KillWorker(h)
  BY <1>7, QueueStays DEF KillWorker
<1>8. CASE KillTimer(h)
  <2>1. /\ timer[h] # "none" /\ timer[h] # "report" /\ timer'[h] = "dead"
        /\ UNCHANGED <<lock, main, worker, protocol, timerQueue, abandoned>>
    BY <1>8 DEF KillTimer
  <2>2. QED
    BY <2>1, QueueStays
<1>8s. CASE KillSalt(h)
  BY <1>8s, QueueStays DEF KillSalt
<1>9. CASE Hangup(h)
  BY <1>9, QueueStays DEF Hangup, WorkerAlive, TimerAlive
<1>10. QED
  BY <1>1, <1>2, <1>3, <1>4, <1>5, <1>6, <1>7, <1>8, <1>8s, <1>9 DEF TimerStep, Environment

\* the lock that another invocation takes is not in the way of h
LEMMA LockIsOwn ==
  ASSUME WaitInv, NEW h \in Hooks, NEW g \in Hooks \ {h}, OwnLock(g),
         MainStep(h) \/ WorkerStep(h) \/ TimerStep(h) \/ SaltEnds(h) \/ Environment(h)
  PROVE  OwnLock(g)'
<1>1. main'[g] = main[g] /\ worker'[g] = worker[g] /\ (g \in abandoned' <=> g \in abandoned)
  BY OthersStay DEF WaitInv, IInv
<1>2. CASE TakeLock(h)
  <2>1. Committed(h)
    BY <1>2 DEF TakeLock, Committed, Executing, WorkerAlive
  <2>2. main[g] \in {"fork", "loop", "join", "unlock"} => Committed(g)
    BY DEF Committed, Executing, Admitted
  <2>3. QED
    BY <1>1, <2>1, <2>2 DEF WaitInv, IInv, OneCommitted, OwnLock
<1>3. CASE ~TakeLock(h)
  <2>1. IsLocked' => IsLocked
    <3>1. CASE MainStep(h)
      BY <3>1 DEF MainStep, ScanSalt, ScanHooks, Reject, Admit, RemoveStaleLock, Fork, ReadPid,
                  ReadTimeout, ReadEnd, ReadError, Join, Exit, IsLocked
    <3>2. CASE WorkerStep(h)
      BY <1>3, <3>2 DEF WorkerStep, SendPid, TakeLockFails, InstallHandler, LockWriteFails, Spawn,
                        SpawnFails, Reap, CleanLocks, ReportEnd, ReportError, Result,
                        IdleEnds, HandleSigusr2, IsLocked
    <3>3. CASE TimerStep(h) \/ SaltEnds(h)
      BY <3>3 DEF TimerStep, TimerStops, TimerOverdue, TimerKill, TimerKillFails, TimerReports,
                  SaltEnds, IsLocked
    <3>4. CASE Environment(h)
      BY <3>4 DEF Environment, Start, Detach, Interrupt, Hangup, KillMain, KillWorker, KillTimer,
                  KillSalt, IsLocked
    <3>5. QED
      BY <3>1, <3>2, <3>3, <3>4
  <2>2. QED
    BY <1>1, <2>1 DEF OwnLock
<1>4. QED
  BY <1>2, <1>3

LEMMA NextWaitInv ==
  ASSUME SameProgram, ~KillMidScan, Kill9 \cap {"worker", "reporter"} = {}, WaitInv, [Next]_vars
  PROVE  WaitInv'
<1>1. IInv'
  BY NextIInv DEF WaitInv
<1>2. CASE UNCHANGED vars
  BY <1>1, <1>2 DEF vars, WaitInv, PidOnce, Awaited, OwnLock, Reported, IsLocked
<1>3. CASE Next
  <2>1. PICK h \in Hooks :
          MainStep(h) \/ WorkerStep(h) \/ TimerStep(h) \/ SaltEnds(h) \/ Environment(h)
    BY <1>3 DEF Next
  <2>2. PidOnce(h)' /\ Awaited(h)' /\ OwnLock(h)'
    BY <2>1, MainAwaits, WorkerAwaits, OthersAwait
  <2>3. ASSUME NEW g \in Hooks \ {h} PROVE PidOnce(g)' /\ Awaited(g)' /\ OwnLock(g)'
    <3>1. OwnLock(g)'
      BY <2>1, LockIsOwn DEF WaitInv
    <3>2. PidOnce(g)' /\ Awaited(g)'
      BY <2>1, OthersStay DEF WaitInv, IInv, PidOnce, Awaited, Reported
    <3>3. QED
      BY <3>1, <3>2
  <2>4. QED
    BY <1>1, <2>2, <2>3 DEF WaitInv
<1>4. QED
  BY <1>2, <1>3

\* Main never waits for what will not come, unless somebody kills with -9 the worker, or the
\* timer between its kill of the worker and its report: its queues hold a message or a process
\* that is at work owes it one, its pool is ending, and the lock is held by its own worker.
THEOREM WaitingEnds ==
  ASSUME SameProgram, ~KillMidScan, Kill9 \cap {"worker", "reporter"} = {}
  PROVE  Spec => []NobodyWaitsInVain
<1>1. Init => WaitInv
  BY InitIInv DEF Init, WaitInv, PidOnce, Awaited, OwnLock, Reported
<1>2. ASSUME WaitInv, NEW h \in Hooks PROVE Reported(h) => protocol[h] # <<>>
  <2>1. protocol[h] = <<>> => Len(protocol[h]) = 0
    OBVIOUS
  <2>2. QED
    BY <2>1 DEF Reported
<1>3. WaitInv => NobodyWaitsInVain
  BY <1>2 DEF WaitInv, Awaited, OwnLock, Reporting, WorkerAlive, NobodyWaitsInVain
<1>4. QED
  BY <1>1, <1>3, NextWaitInv, PTL DEF Spec
=============================================================================
