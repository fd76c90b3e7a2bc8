---------------------------- MODULE DeployHook ----------------------------
(***************************************************************************)
(* The singleton executor that a git push runs after it has updated the    *)
(* bare repository: src/files/projects/2/hooks/deploy_hook.py.             *)
(*                                                                         *)
(* Each invocation h is up to five operating system processes:             *)
(*   main[h]    the program itself: test_deploy, then enter_mainloop       *)
(*   worker[h]  the pool process that runs deploy() inside communicator()  *)
(*   timer[h]   the pool process that runs timer_terminator()              *)
(*   salt[h]    the salt-call that the worker launches and waits for       *)
(*   manager    (the set of those that have one) the server of the queues  *)
(* They share one lock file, and main reads two queues: the protocol queue *)
(* of the worker and the queue of the timer.                               *)
(***************************************************************************)
EXTENDS Sequences

CONSTANTS
  Hooks,        \* the invocations of the hook for one project on one host
  Timed,        \* those run with a non-zero --timeout
  HookSees,     \* <<h, g>>: h's `ps aux | grep argv[0]` matches processes of g
  SaltSees,     \* <<h, g>>: h's grep for salt_function matches g's salt-call
  Kill9,        \* the kinds of processes somebody may kill with SIGKILL; a "reporter" is a
                \* timer that has killed the worker and has not told main yet
  Hangups,      \* whether terminals may be closed (SIGHUP)
  KillMidScan   \* whether a worker may be killed between the two ps of a scan

ASSUME ConstantsAssumption ==
  /\ Timed \subseteq Hooks
  /\ HookSees \subseteq Hooks \X Hooks
  /\ SaltSees \subseteq Hooks \X Hooks
  /\ Kill9 \subseteq {"main", "worker", "timer", "reporter", "salt"}
  /\ Hangups \in BOOLEAN
  /\ KillMidScan \in BOOLEAN

VARIABLES
  lock,         \* whether the lock file exists
  main, worker, timer, salt,    \* the processes of each invocation
  manager,      \* the invocations whose Manager() server runs
  protocol,     \* protocol_queue of each invocation
  timerQueue,   \* the queue of its timer (to_p_queue)
  ret,          \* ret['return'] in enter_mainloop, or the exception raised
  found,        \* whose processes the scan of test_deploy has found
  code,         \* the exit code, NoCode while the program runs
  abandoned     \* history: the invocations whose own worker has left its lock file behind

vars == <<lock, main, worker, timer, salt, manager, protocol, timerQueue, ret, found, code,
          abandoned>>

NoCode == 999

Scanning  == {"scanSalt", "scanHooks", "decide"}
Admitted  == {"rmlock", "fork", "loop", "join", "unlock"}
Deploying == {"spawn", "wait", "clean"}        \* between the handler and clean_locks
Holding   == {"taken"} \cup Deploying           \* between open(lock) and clean_locks
LockFile  == {"absent", "present"}
MainPC    == {"idle", "exited"} \cup Scanning \cup Admitted
WorkerPC  == {"none", "boot", "prelock", "send", "fail", "failed", "result", "idle",
              "sigusr2", "dead"} \cup Holding
TimerPC   == {"none", "watch", "overdue", "report", "dead"}
SaltPC    == {"none", "running", "ok", "fail", "killed"}
Ret       == {"None", "ok", "fail", "detached", "ProcessError", "TimeoutError"}
Message   == {"pid", "END", "ERROR"}

IsLocked == lock = "present"

MainAlive(h)   == main[h] \notin {"idle", "exited"}
WorkerAlive(h) == worker[h] \notin {"none", "dead"}
TimerAlive(h)  == timer[h] \in {"watch", "overdue", "report"}

\* what main forks is the same program: ps shows the same argv
Alive(h) == MainAlive(h) \/ WorkerAlive(h) \/ TimerAlive(h) \/ h \in manager

TypeOK ==
  /\ lock \in LockFile
  /\ main \in [Hooks -> MainPC]
  /\ worker \in [Hooks -> WorkerPC]
  /\ timer \in [Hooks -> TimerPC]
  /\ salt \in [Hooks -> SaltPC]
  /\ manager \subseteq Hooks
  /\ protocol \in [Hooks -> Seq(Message)]
  /\ timerQueue \in [Hooks -> {"empty", "TIMEOUT"}]
  /\ ret \in [Hooks -> Ret]
  /\ found \in [Hooks -> SUBSET Hooks]
  /\ code \in [Hooks -> {NoCode, 0, 1, 127, 128, 129, 137}]
  /\ abandoned \subseteq Hooks

Init ==
  /\ lock \in LockFile          \* an earlier execution may have left it behind
  /\ main = [h \in Hooks |-> "idle"]
  /\ worker = [h \in Hooks |-> "none"]
  /\ timer = [h \in Hooks |-> "none"]
  /\ salt = [h \in Hooks |-> "none"]
  /\ manager = {}
  /\ protocol = [h \in Hooks |-> <<>>]
  /\ timerQueue = [h \in Hooks |-> "empty"]
  /\ ret = [h \in Hooks |-> "None"]
  /\ found = [h \in Hooks |-> {}]
  /\ code = [h \in Hooks |-> NoCode]
  /\ abandoned = {}

-----------------------------------------------------------------------------
(* test_deploy: two ps commands, one after the other, then the decision.   *)

Start(h) ==
  /\ main[h] = "idle"
  /\ main' = [main EXCEPT ![h] = "scanSalt"]
  /\ UNCHANGED <<lock, worker, timer, salt, manager, protocol, timerQueue, ret, found, code,
                 abandoned>>

\* Mutant: the scan does not look for salt-calls
ScanSaltMissing(h) ==
  /\ main[h] = "scanSalt"
  /\ main' = [main EXCEPT ![h] = "scanHooks"]
  /\ UNCHANGED <<lock, worker, timer, salt, manager, protocol, timerQueue, ret, found, code,
                 abandoned>>

\* get_worker_pids
ScanSalt(h) ==
  /\ main[h] = "scanSalt"
  /\ found' = [found EXCEPT ![h] = {g \in Hooks : salt[g] = "running" /\ <<h, g>> \in SaltSees}]
  /\ main' = [main EXCEPT ![h] = "scanHooks"]
  /\ UNCHANGED <<lock, worker, timer, salt, manager, protocol, timerQueue, ret, code, abandoned>>

\* Mutant: the scan finds programs but not the pool processes they have left
ScanMainsOnly(h) ==
  /\ main[h] = "scanHooks"
  /\ found' = [found EXCEPT
                 ![h] = @ \cup {g \in Hooks \ {h} : MainAlive(g) /\ <<h, g>> \in HookSees}]
  /\ main' = [main EXCEPT ![h] = "decide"]
  /\ UNCHANGED <<lock, worker, timer, salt, manager, protocol, timerQueue, ret, code, abandoned>>

\* get_deployer_pids: get_running_pids leaves out the caller's own pid
ScanHooks(h) ==
  /\ main[h] = "scanHooks"
  /\ found' = [found EXCEPT
                 ![h] = @ \cup {g \in Hooks \ {h} : Alive(g) /\ <<h, g>> \in HookSees}]
  /\ main' = [main EXCEPT ![h] = "decide"]
  /\ UNCHANGED <<lock, worker, timer, salt, manager, protocol, timerQueue, ret, code, abandoned>>

\* "Already in progress": sys.exit(128)
Reject(h) ==
  /\ main[h] = "decide" /\ found[h] # {}
  /\ main' = [main EXCEPT ![h] = "exited"]
  /\ code' = [code EXCEPT ![h] = 128]
  /\ UNCHANGED <<lock, worker, timer, salt, manager, protocol, timerQueue, ret, found, abandoned>>

\* Mutant: a program that finds others goes on
AdmitAnyway(h) ==
  /\ main[h] = "decide"
  /\ main' = [main EXCEPT ![h] = IF IsLocked THEN "rmlock" ELSE "fork"]
  /\ UNCHANGED <<lock, worker, timer, salt, manager, protocol, timerQueue, ret, found, code,
                 abandoned>>

Admit(h) ==
  /\ main[h] = "decide" /\ found[h] = {}
  /\ main' = [main EXCEPT ![h] = IF IsLocked THEN "rmlock" ELSE "fork"]
  /\ UNCHANGED <<lock, worker, timer, salt, manager, protocol, timerQueue, ret, found, code,
                 abandoned>>

\* "Stale lock": os.remove, whose OSError nobody catches if the file has gone
RemoveStaleLock(h) ==
  /\ main[h] = "rmlock"
  /\ lock' = "absent"
  /\ main' = [main EXCEPT ![h] = IF IsLocked THEN "fork" ELSE "exited"]
  /\ code' = [code EXCEPT ![h] = IF IsLocked THEN @ ELSE 1]
  /\ UNCHANGED <<worker, timer, salt, manager, protocol, timerQueue, ret, found, abandoned>>

\* Pool(1, init_worker(lockfile)), Manager() and apply_async(_run_deploy)
Fork(h) ==
  /\ main[h] = "fork"
  /\ main' = [main EXCEPT ![h] = "loop"]
  /\ worker' = [worker EXCEPT ![h] = "boot"]
  /\ manager' = manager \cup {h}
  /\ UNCHANGED <<lock, timer, salt, protocol, timerQueue, ret, found, code, abandoned>>

-----------------------------------------------------------------------------
(* The worker: communicator(deploy).                                       *)

SendPid(h) ==
  /\ worker[h] = "boot"
  /\ protocol' = [protocol EXCEPT ![h] = Append(@, "pid")]
  /\ worker' = [worker EXCEPT ![h] = "prelock"]
  /\ UNCHANGED <<lock, main, timer, salt, manager, timerQueue, ret, found, code, abandoned>>

\* open(lock, 'w') creates the file
TakeLock(h) ==
  /\ worker[h] = "prelock"
  /\ lock' = "present"
  /\ worker' = [worker EXCEPT ![h] = "taken"]
  /\ UNCHANGED <<main, timer, salt, manager, protocol, timerQueue, ret, found, code, abandoned>>

\* open(lock, 'w') raises: deploy() has not reached its try, communicator reports it
TakeLockFails(h) ==
  /\ worker[h] = "prelock"
  /\ worker' = [worker EXCEPT ![h] = "fail"]
  /\ UNCHANGED <<lock, main, timer, salt, manager, protocol, timerQueue, ret, found, code,
                 abandoned>>

\* the file is written, and closed, and the handler of SIGUSR2 installed
InstallHandler(h) ==
  /\ worker[h] = "taken"
  /\ worker' = [worker EXCEPT ![h] = "spawn"]
  /\ UNCHANGED <<lock, main, timer, salt, manager, protocol, timerQueue, ret, found, code,
                 abandoned>>

\* write, flush or close raises (a full disk): deploy() has not reached its try, and the file stays
LockWriteFails(h) ==
  /\ worker[h] = "taken"
  /\ worker' = [worker EXCEPT ![h] = "fail"]
  /\ abandoned' = abandoned \cup {h}
  /\ UNCHANGED <<lock, main, timer, salt, manager, protocol, timerQueue, ret, found, code>>

Spawn(h) ==
  /\ worker[h] = "spawn"
  /\ salt' = [salt EXCEPT ![h] = "running"]
  /\ worker' = [worker EXCEPT ![h] = "wait"]
  /\ UNCHANGED <<lock, main, timer, manager, protocol, timerQueue, ret, found, code, abandoned>>

\* Popen raises: caught inside the loop, the exit code is 1
SpawnFails(h) ==
  /\ worker[h] = "spawn"
  /\ worker' = [worker EXCEPT ![h] = "clean"]
  /\ UNCHANGED <<lock, main, timer, salt, manager, protocol, timerQueue, ret, found, code,
                 abandoned>>

SaltEnds(h) ==
  /\ salt[h] = "running"
  /\ \E outcome \in {"ok", "fail"} : salt' = [salt EXCEPT ![h] = outcome]
  /\ UNCHANGED <<lock, main, worker, timer, manager, protocol, timerQueue, ret, found, code,
                 abandoned>>

\* Mutant: the worker does not wait for its salt-call
ReapEarly(h) ==
  /\ worker[h] = "wait"
  /\ worker' = [worker EXCEPT ![h] = "clean"]
  /\ UNCHANGED <<lock, main, timer, salt, manager, protocol, timerQueue, ret, found, code,
                 abandoned>>

\* proc.wait(), then custom_communicate
Reap(h) ==
  /\ worker[h] = "wait" /\ salt[h] # "running"
  /\ worker' = [worker EXCEPT ![h] = "clean"]
  /\ UNCHANGED <<lock, main, timer, salt, manager, protocol, timerQueue, ret, found, code,
                 abandoned>>

\* Mutant: deploy() returns without clean_locks
CleanNothing(h) ==
  /\ worker[h] = "clean"
  /\ worker' = [worker EXCEPT ![h] = "send"]
  /\ UNCHANGED <<lock, main, timer, salt, manager, protocol, timerQueue, ret, found, code,
                 abandoned>>

\* the finally of deploy()
CleanLocks(h) ==
  /\ worker[h] = "clean"
  /\ lock' = "absent"
  /\ worker' = [worker EXCEPT ![h] = "send"]
  /\ UNCHANGED <<main, timer, salt, manager, protocol, timerQueue, ret, found, code, abandoned>>

\* blind_send: the worker reports to a parent that may be gone
ReportEnd(h) ==
  /\ worker[h] = "send"
  /\ protocol' = [protocol EXCEPT ![h] = IF MainAlive(h) THEN Append(@, "END") ELSE @]
  /\ worker' = [worker EXCEPT ![h] = "result"]
  /\ UNCHANGED <<lock, main, timer, salt, manager, timerQueue, ret, found, code, abandoned>>

\* the None that communicator then returns leaves ret['return'] as it is; the process waits for
\* another task, without the handler of SIGUSR2
ReportError(h) ==
  /\ worker[h] = "fail"
  /\ protocol' = [protocol EXCEPT ![h] = IF MainAlive(h) THEN Append(@, "ERROR") ELSE @]
  /\ worker' = [worker EXCEPT ![h] = "failed"]
  /\ UNCHANGED <<lock, main, timer, salt, manager, timerQueue, ret, found, code, abandoned>>

\* deploy()'s exit code reaches exit_callback over the pool's own result queue
Result(h) ==
  /\ worker[h] = "result"
  /\ ret' = [ret EXCEPT ![h] = IF main[h] # "loop" THEN @
                               ELSE IF salt[h] = "ok" THEN "ok" ELSE "fail"]
  /\ worker' = [worker EXCEPT ![h] = "idle"]
  /\ UNCHANGED <<lock, main, timer, salt, manager, protocol, timerQueue, found, code, abandoned>>

\* a pool process reads the end of its task queue when nobody is left who has its other end open:
\* main, and what main has forked since
IdleEnds(h) ==
  /\ worker[h] \in {"idle", "failed"} /\ ~MainAlive(h) /\ ~TimerAlive(h) /\ h \notin manager
  /\ worker' = [worker EXCEPT ![h] = "dead"]
  /\ UNCHANGED <<lock, main, timer, salt, manager, protocol, timerQueue, ret, found, code,
                 abandoned>>

\* Mutant: the handler kills the worker before it has cleaned the lock
Sigusr2KeepsLock(h) ==
  /\ worker[h] = "sigusr2"
  /\ worker' = [worker EXCEPT ![h] = "dead"]
  /\ UNCHANGED <<lock, main, timer, salt, manager, protocol, timerQueue, ret, found, code,
                 abandoned>>

\* handle_sigusr2: clean_locks, then SIGKILL to itself only
HandleSigusr2(h) ==
  /\ worker[h] = "sigusr2"
  /\ lock' = "absent"
  /\ worker' = [worker EXCEPT ![h] = "dead"]
  /\ UNCHANGED <<main, timer, salt, manager, protocol, timerQueue, ret, found, code, abandoned>>

-----------------------------------------------------------------------------
(* The timer: timer_terminator.  Time is abstract: a timer that finds the  *)
(* lock may find its delay elapsed or not.                                 *)

\* no worker is killed between the two ps commands of somebody's scan
QuietScan == KillMidScan \/ \A g \in Hooks : main[g] # "scanHooks"

\* no lock: the loop ends and the timer sends itself SIGTERM
TimerStops(h) ==
  /\ timer[h] = "watch" /\ ~IsLocked
  /\ timer' = [timer EXCEPT ![h] = "dead"]
  /\ UNCHANGED <<lock, main, worker, salt, manager, protocol, timerQueue, ret, found, code,
                 abandoned>>

\* is_locked, then not in_time
TimerOverdue(h) ==
  /\ timer[h] = "watch" /\ IsLocked
  /\ timer' = [timer EXCEPT ![h] = "overdue"]
  /\ UNCHANGED <<lock, main, worker, salt, manager, protocol, timerQueue, ret, found, code,
                 abandoned>>

\* deploy() has not installed its handler: SIGUSR2 just kills the worker, whatever it holds
NoHandler == {"boot", "prelock", "taken", "fail", "failed"}

\* os.kill(pid, SIGUSR2)
TimerKill(h) ==
  /\ timer[h] = "overdue" /\ WorkerAlive(h) /\ QuietScan
  /\ worker' = [worker EXCEPT ![h] = IF @ \in NoHandler THEN "dead" ELSE "sigusr2"]
  /\ abandoned' = IF worker[h] = "taken" THEN abandoned \cup {h} ELSE abandoned
  /\ timer' = [timer EXCEPT ![h] = "report"]
  /\ UNCHANGED <<lock, main, salt, manager, protocol, timerQueue, ret, found, code>>

\* TimeoutError, which communicator reports
TimerReports(h) ==
  /\ timer[h] = "report"
  /\ timer' = [timer EXCEPT ![h] = "dead"]
  /\ timerQueue' = [timerQueue EXCEPT ![h] = "TIMEOUT"]
  /\ UNCHANGED <<lock, main, worker, salt, manager, protocol, ret, found, code, abandoned>>

\* the worker has gone: an OSError that is ignored, and the loop goes on
TimerKillFails(h) ==
  /\ timer[h] = "overdue" /\ ~WorkerAlive(h)
  /\ timer' = [timer EXCEPT ![h] = "watch"]
  /\ UNCHANGED <<lock, main, worker, salt, manager, protocol, timerQueue, ret, found, code,
                 abandoned>>

-----------------------------------------------------------------------------
(* enter_mainloop and the end of main.                                     *)

ReadPid(h) ==
  /\ main[h] = "loop" /\ protocol[h] # <<>> /\ Head(protocol[h]) = "pid"
  /\ protocol' = [protocol EXCEPT ![h] = Tail(@)]
  /\ timer' = [timer EXCEPT ![h] = IF h \in Timed THEN "watch" ELSE @]
  /\ UNCHANGED <<lock, main, worker, salt, manager, timerQueue, ret, found, code, abandoned>>

\* terminate(pools): SIGTERM, which init_worker's handler obeys only without a lock
\* and which a worker that has reported obeys (resume_signals)
Terminate(h) ==
  /\ main' = [main EXCEPT ![h] = "join"]
  /\ worker' = [worker EXCEPT ![h] = IF ~IsLocked \/ @ \in {"result", "idle", "failed"}
                                     THEN "dead" ELSE @]
  /\ timer' = [timer EXCEPT ![h] = IF ~IsLocked /\ TimerAlive(h) THEN "dead" ELSE @]

\* 'TIMEOUT' is looked at before 'END' and 'ERROR'
ReadTimeout(h) ==
  /\ main[h] = "loop" /\ timerQueue[h] = "TIMEOUT"
  /\ Terminate(h)
  /\ ret' = [ret EXCEPT ![h] = "TimeoutError"]
  /\ UNCHANGED <<lock, salt, manager, protocol, timerQueue, found, code, abandoned>>

ReadEnd(h) ==
  /\ main[h] = "loop" /\ timerQueue[h] = "empty"
  /\ protocol[h] # <<>> /\ Head(protocol[h]) = "END"
  /\ protocol' = [protocol EXCEPT ![h] = Tail(@)]
  /\ Terminate(h)
  /\ UNCHANGED <<lock, salt, manager, timerQueue, ret, found, code, abandoned>>

ReadError(h) ==
  /\ main[h] = "loop" /\ timerQueue[h] = "empty"
  /\ protocol[h] # <<>> /\ Head(protocol[h]) = "ERROR"
  /\ protocol' = [protocol EXCEPT ![h] = Tail(@)]
  /\ Terminate(h)
  /\ ret' = [ret EXCEPT ![h] = "ProcessError"]
  /\ UNCHANGED <<lock, salt, manager, timerQueue, found, code, abandoned>>

\* pool.join() for both pools; the manager is shut down when enter_mainloop has returned, but an
\* exception keeps it until main() is left
Join(h) ==
  /\ main[h] = "join" /\ ~WorkerAlive(h) /\ ~TimerAlive(h)
  /\ main' = [main EXCEPT ![h] = "unlock"]
  /\ manager' = IF ret[h] \in {"ProcessError", "TimeoutError"} THEN manager ELSE manager \ {h}
  /\ UNCHANGED <<lock, worker, timer, salt, protocol, timerQueue, ret, found, code, abandoned>>

\* None and 0 are both 'Deployment success'
ExitCode(r) ==
  CASE r = "fail" -> 1
    [] r = "TimeoutError" -> 127
    [] r = "ProcessError" -> 128
    [] OTHER -> 0

\* waits until nobody holds the lock, then sys.exit
Exit(h) ==
  /\ main[h] = "unlock" /\ ~IsLocked
  /\ main' = [main EXCEPT ![h] = "exited"]
  /\ code' = [code EXCEPT ![h] = ExitCode(ret[h])]
  /\ manager' = manager \ {h}
  /\ UNCHANGED <<lock, worker, timer, salt, protocol, timerQueue, ret, found, abandoned>>

-----------------------------------------------------------------------------
(* What users and the kernel do to the processes.                          *)

\* Ctrl-C is a SIGINT to all of h: the manager ends, the pool processes ignore it.
\* enter_mainloop catches it and lets the worker go on
Detach(h) ==
  /\ main[h] \in {"loop", "join"}
  /\ main' = [main EXCEPT ![h] = "exited"]
  /\ ret' = [ret EXCEPT ![h] = "detached"]
  /\ code' = [code EXCEPT ![h] = ExitCode("detached")]
  /\ manager' = manager \ {h}
  /\ UNCHANGED <<lock, worker, timer, salt, protocol, timerQueue, found, abandoned>>

\* Ctrl-C elsewhere: nothing catches the KeyboardInterrupt
Interrupt(h) ==
  /\ MainAlive(h) /\ main[h] \notin {"loop", "join"}
  /\ main' = [main EXCEPT ![h] = "exited"]
  /\ code' = [code EXCEPT ![h] = 1]
  /\ manager' = manager \ {h}
  /\ UNCHANGED <<lock, worker, timer, salt, protocol, timerQueue, ret, found, abandoned>>

\* the server of the queues has no parent to serve any more, and goes on for ever
KillMain(h) ==
  /\ "main" \in Kill9 /\ MainAlive(h)
  /\ main' = [main EXCEPT ![h] = "exited"]
  /\ code' = [code EXCEPT ![h] = 137]
  /\ UNCHANGED <<lock, worker, timer, salt, manager, protocol, timerQueue, ret, found, abandoned>>

KillWorker(h) ==
  /\ "worker" \in Kill9 /\ WorkerAlive(h) /\ QuietScan
  /\ worker' = [worker EXCEPT ![h] = "dead"]
  /\ UNCHANGED <<lock, main, timer, salt, manager, protocol, timerQueue, ret, found, code,
                 abandoned>>

KillTimer(h) ==
  /\ \/ "timer" \in Kill9 /\ timer[h] \in {"watch", "overdue"}
     \/ "reporter" \in Kill9 /\ timer[h] = "report"
  /\ timer' = [timer EXCEPT ![h] = "dead"]
  /\ UNCHANGED <<lock, main, worker, salt, manager, protocol, timerQueue, ret, found, code,
                 abandoned>>

KillSalt(h) ==
  /\ "salt" \in Kill9 /\ salt[h] = "running"
  /\ salt' = [salt EXCEPT ![h] = "killed"]
  /\ UNCHANGED <<lock, main, worker, timer, manager, protocol, timerQueue, ret, found, code,
                 abandoned>>

\* the terminal is closed: SIGHUP, whose disposition nobody changes, ends all of h
Hangup(h) ==
  /\ Hangups /\ MainAlive(h) /\ QuietScan
  /\ main' = [main EXCEPT ![h] = "exited"]
  /\ code' = [code EXCEPT ![h] = 129]
  /\ worker' = [worker EXCEPT ![h] = IF WorkerAlive(h) THEN "dead" ELSE @]
  /\ timer' = [timer EXCEPT ![h] = IF TimerAlive(h) THEN "dead" ELSE @]
  /\ salt' = [salt EXCEPT ![h] = IF @ = "running" THEN "killed" ELSE @]
  /\ manager' = manager \ {h}
  /\ UNCHANGED <<lock, protocol, timerQueue, ret, found, abandoned>>

-----------------------------------------------------------------------------
MainStep(h) ==
  \/ ScanSalt(h) \/ ScanHooks(h) \/ Reject(h) \/ Admit(h) \/ RemoveStaleLock(h) \/ Fork(h)
  \/ ReadPid(h) \/ ReadTimeout(h) \/ ReadEnd(h) \/ ReadError(h) \/ Join(h) \/ Exit(h)

WorkerStep(h) ==
  \/ SendPid(h) \/ TakeLock(h) \/ TakeLockFails(h) \/ InstallHandler(h) \/ LockWriteFails(h)
  \/ Spawn(h) \/ SpawnFails(h) \/ Reap(h) \/ CleanLocks(h) \/ ReportEnd(h) \/ ReportError(h) \/ Result(h) \/ IdleEnds(h)
  \/ HandleSigusr2(h)

TimerStep(h) ==
  TimerStops(h) \/ TimerOverdue(h) \/ TimerKill(h) \/ TimerKillFails(h) \/ TimerReports(h)

Environment(h) ==
  \/ Start(h) \/ Detach(h) \/ Interrupt(h) \/ Hangup(h)
  \/ KillMain(h) \/ KillWorker(h) \/ KillTimer(h) \/ KillSalt(h)

Next == \E h \in Hooks :
  MainStep(h) \/ WorkerStep(h) \/ TimerStep(h) \/ SaltEnds(h) \/ Environment(h)

Spec == Init /\ [][Next]_vars

\* the operating system runs every process that can take a step
ProgramFairness == \A h \in Hooks :
  WF_vars(MainStep(h)) /\ WF_vars(WorkerStep(h)) /\ WF_vars(TimerStep(h))

\* salt-call may hang ...
HangingSpec == Spec /\ ProgramFairness

\* ... or is known to return
FairSpec == HangingSpec /\ \A h \in Hooks : WF_vars(SaltEnds(h))

-----------------------------------------------------------------------------
(* Properties.                                                             *)

\* h has passed test_deploy and something of it is still at work
Executing(h) ==
  main[h] \in Admitted \/ WorkerAlive(h) \/ TimerAlive(h) \/ salt[h] = "running"

\* Of two invocations that see each other in ps at most one ever gets past
\* test_deploy, and it excludes the others until its last process has gone: also
\* after Ctrl-C has detached its main, and after a timeout or a kill -9 has left
\* its salt-call alone.
OneExecutor ==
  \A g, h \in Hooks : g # h => ~(Executing(g) /\ Executing(h))

\* The lock file exists for as long as a worker holds it: no other invocation takes
\* it for stale (test_deploy) or cleans it up on its own exit path.
LockCoversDeployment == \A h \in Hooks : worker[h] \in Holding => IsLocked

\* The lock that test_deploy is about to remove belongs to nobody, and nobody removes
\* it first (os.remove would raise out of main).
RemovedLockIsStale ==
  \A h \in Hooks : main[h] = "rmlock" =>
    IsLocked /\ \A g \in Hooks : ~WorkerAlive(g) /\ salt[g] # "running"

\* A program that ends by itself (exit code 0 or 1), neither detached nor after a timeout,
\* leaves no pool process, no manager and no salt-call behind: terminate() comes after the worker
\* has reported, and it reports only when its salt-call has ended.
NothingLeftBehind ==
  \A h \in Hooks : code[h] \in {0, 1} /\ ret[h] \notin {"detached", "TimeoutError"} =>
    ~Alive(h) /\ salt[h] # "running"

\* What a main waits for is there or on its way: for its queues, a message, or a worker or a
\* timer that is going to send one; for its pool, a worker that is about to kill itself; and
\* only its own worker holds the lock, so that main never waits for one that nobody releases,
\* unless that worker has left it: a write of the lock failed, or SIGUSR2 came before the handler.
\* (enter_mainloop polls its queues without any limit of its own.)
NobodyWaitsInVain ==
  \A h \in Hooks :
    /\ main[h] = "loop" =>
         \/ protocol[h] # <<>> \/ timerQueue[h] = "TIMEOUT" \/ timer[h] = "report"
         \/ worker[h] \in {"boot", "prelock", "send", "fail"} \cup Holding
    /\ main[h] = "join" /\ WorkerAlive(h) => worker[h] = "sigusr2"
    /\ main[h] \in {"loop", "join", "unlock"} /\ IsLocked =>
         worker[h] \in Holding \cup {"sigusr2"} \/ h \in abandoned

\* A program that ends with 'Deployment success' in the foreground has run a salt-call
\* that succeeded (enter_mainloop: "it just join the process and return the data").
SuccessIsReal ==
  \A h \in Hooks : code[h] = 0 /\ ret[h] # "detached" => salt[h] = "ok"

\* The executions, which are the salt-calls, are those of the abstract singleton.
Executions == INSTANCE Singleton WITH
  running <- {h \in Hooks : salt[h] = "running"},
  ran     <- {h \in Hooks : salt[h] # "none"}

\* At most one salt-call runs at any time and each invocation launches at most one.
OneAtATime == Executions!SSpec

\* Every invocation ends: none waits for ever on its queues, on its pools or on the lock, also when
\* its timer, its salt-call or another invocation is killed (but for a worker, or a timer that has
\* just killed the worker: main waits for their report for ever), unless its worker has left the
\* lock behind.
EveryHookEnds ==
  \A h \in Hooks : main[h] = "scanSalt" ~> main[h] = "exited" \/ h \in abandoned

\* Every deployment, detached or not, ends with the lock released and none of its
\* processes left, so that a later push can deploy, unless its worker has left the lock behind.
\* After a kill -9 of main its manager is left, and with it an idle worker: test_deploy takes them
\* for a deployment in progress until somebody kills them.
EveryDeploymentReleases ==
  \A h \in Hooks : worker[h] \in Holding ~>
    \/ /\ ~IsLocked /\ worker[h] \in {"idle", "dead"} /\ ~TimerAlive(h) /\ salt[h] # "running"
       /\ Alive(h) => code[h] = 137
    \/ h \in abandoned

\* A program started with a timeout ends even if its salt-call hangs ("If the process
\* expires the timeout, it will throw a TimeoutError").
TimeoutIsEnforced ==
  \A h \in Timed : main[h] = "scanSalt" ~> main[h] = "exited" \/ h \in abandoned
=============================================================================
