----------------------------- MODULE PillarPool -----------------------------
(***************************************************************************)
(* mc_remote_pillar.generate_masterless_pillars: one job per host, each in *)
(* a process (or a thread) of its own, at most width of them at a time;    *)
(* when there is no room the main process waits until the whole batch is   *)
(* gone (wait_processes_pool, wait_pool).  generate_ansible_roster calls   *)
(* it and keeps what is a usable pillar.                                   *)
(***************************************************************************)
EXTENDS SaltCaller, SequencesExt

CONSTANTS
    Widths,      \* numbers of processes (or threads) to consider
    Modes        \* of "processes", "threads" and "sequential", those to consider

ASSUME PoolAssumption ==
    /\ Widths \subseteq Nat \ {0}
    /\ Modes \subseteq {"processes", "threads", "sequential"}

VARIABLES
    mode,        \* how jobs are run
    width,       \* processes, or threads: how many at a time
    main,        \* what the main process does next
    asked,       \* the hosts it was asked for
    todo,        \* input_queue (its order is that of a python set)
    workers,     \* workers: the jobs it waits for
    results,     \* results: the jobs whose result it has
    roster,      \* what generate_ansible_roster returns
    killed       \* the jobs whose process was killed or terminated before its end

poolVars == <<mode, width, main, asked, todo, workers, results, roster, killed, callerVars>>

PoolTypeOK ==
    /\ CallerTypeOK
    /\ mode \in Modes
    /\ width \in Widths
    /\ main \in {"idle", "start", "call", "wait", "drain", "roster", "stuck", "failed", "returned"}
    /\ todo \subseteq asked
    /\ asked \subseteq Jobs
    /\ workers \subseteq asked \ todo
    /\ results \subseteq asked \ todo
    /\ roster \subseteq results
    /\ killed \subseteq Jobs

PoolInit ==
    /\ CallerInit
    /\ mode \in Modes
    /\ width \in Widths
    /\ main = "idle"
    /\ asked = {}
    /\ todo = {}
    /\ workers = {}
    /\ results = {}
    /\ roster = {}
    /\ killed = {}

\* A process that has put its result lives until the feeder is done; what it has put by then
\* is in the pipe.
Alive(j) == caller[j] \in {"spawn", "poll", "put", "sent"}

Answered == {j \in asked: answer[j] # "none" /\ caller[j] # "put"}

-----------------------------------------------------------------------------
(* The main process *)

\* get_hosts(ids_): those that some module lists as its hosts (get_masterless_makinastates_hosts);
\* the others are dropped, without a word.
GetHosts(ids) == SUBSET ids

PoolCall(ids) ==
    /\ main \in {"idle", "returned"}
    /\ main' = "start"
    /\ \E hosts \in GetHosts(ids): asked' = hosts /\ todo' = hosts
    /\ workers' = {}
    /\ results' = {}
    /\ roster' = {}
    /\ UNCHANGED <<mode, width, killed, callerVars>>

\* Mutant of Start: one more than there is room for
StartTooMany(j) ==
    /\ main = "start"
    /\ j \in todo
    /\ Cardinality(workers) <= width
    /\ todo' = todo \ {j}
    /\ caller' = [caller EXCEPT ![j] = "spawn"]
    /\ IF mode = "sequential"
       THEN main' = "call" /\ UNCHANGED workers
       ELSE workers' = workers \cup {j} /\ UNCHANGED main
    /\ UNCHANGED <<mode, width, asked, results, roster, killed, timed, salt, printed, answer, queue, torn>>

Start(j) ==
    /\ main = "start"
    /\ j \in todo
    /\ Cardinality(workers) < width
    /\ todo' = todo \ {j}
    /\ caller' = [caller EXCEPT ![j] = "spawn"]
    /\ IF mode = "sequential"
       THEN main' = "call" /\ UNCHANGED workers
       ELSE workers' = workers \cup {j} /\ UNCHANGED main
    /\ UNCHANGED <<mode, width, asked, results, roster, killed, timed, salt, printed, answer, queue, torn>>

\* No room, or nothing more to start.
Waits ==
    /\ main = "start"
    /\ todo = {} \/ Cardinality(workers) >= width
    /\ main' = IF mode = "sequential" THEN "roster" ELSE "wait"
    /\ UNCHANGED <<mode, width, asked, todo, workers, results, roster, killed, callerVars>>

\* handle_result, and the worker of this result is joined and terminated.  wait_pool takes
\* item[0] of the result, which is a dictionary: KeyError, and the generation fails.
Receive ==
    /\ main = "wait"
    /\ workers # {}
    /\ queue # <<>>
    /\ queue' = Tail(queue)
    /\ IF mode = "threads"
       THEN main' = "failed" /\ workers' = {} /\ UNCHANGED <<results, caller>>
       ELSE /\ results' = results \cup {Head(queue)}
            /\ workers' = workers \ {Head(queue)}
            /\ caller' = [caller EXCEPT ![Head(queue)] = "gone"]
            /\ UNCHANGED main
    /\ UNCHANGED <<mode, width, asked, todo, roster, killed, timed, salt, printed, answer, torn>>

\* Mutant of Reap: a worker is dropped when it is dead and has answered
ReapAnswered(j) ==
    /\ main = "wait"
    /\ j \in workers
    /\ ~Alive(j)
    /\ answer[j] # "none"
    /\ workers' = workers \ {j}
    /\ UNCHANGED <<mode, width, main, asked, todo, results, roster, killed, callerVars>>

\* A worker that is no longer alive is dropped, whether it has answered or not.
Reap(j) ==
    /\ main = "wait"
    /\ j \in workers
    /\ ~Alive(j)
    /\ workers' = workers \ {j}
    /\ UNCHANGED <<mode, width, main, asked, todo, results, roster, killed, callerVars>>

\* Mutant of Drain: what is still in the queue when the last worker is gone is forgotten
DrainForgets ==
    /\ main = "wait"
    /\ workers = {}
    /\ ~torn
    /\ queue' = <<>>
    /\ main' = IF todo = {} THEN "roster" ELSE "start"
    /\ UNCHANGED <<mode, width, asked, todo, workers, results, roster, killed, timed, caller, salt, printed, answer, torn>>

\* The queue is emptied once more when all workers are gone.
Drain ==
    /\ main = "wait"
    /\ workers = {}
    /\ ~torn
    /\ results' = results \cup ToSet(queue)
    /\ queue' = <<>>
    /\ main' = IF todo = {} THEN "roster" ELSE "start"
    /\ UNCHANGED <<mode, width, asked, todo, workers, roster, killed, timed, caller, salt, printed, answer, torn>>

\* Half a result: get() sees data, reads, and waits for the rest for ever.
Blocks ==
    /\ main = "wait"
    /\ torn
    /\ queue = <<>> \/ workers = {}
    /\ main' = "stuck"
    /\ UNCHANGED <<mode, width, asked, todo, workers, results, roster, killed, callerVars>>

\* Without processes nor threads, call() is called, and its result read at once.
Called(j) ==
    /\ main = "call"
    /\ caller[j] = "sent"
    /\ caller' = [caller EXCEPT ![j] = "gone"]
    /\ results' = results \cup ToSet(queue)
    /\ queue' = <<>>
    /\ main' = "start"
    /\ UNCHANGED <<mode, width, asked, todo, workers, roster, killed, timed, salt, printed, answer, torn>>

CallRaises(j) ==
    /\ main = "call"
    /\ j \in asked \ (todo \cup results)
    /\ caller[j] = "gone"
    /\ main' = "failed"
    /\ UNCHANGED <<mode, width, asked, todo, workers, results, roster, killed, callerVars>>

\* Mutant of Roster: hosts without a usable pillar are skipped
RosterSkips ==
    /\ main = "roster"
    /\ main' = "returned"
    /\ roster' = {j \in results: answer[j] # "unusable"}
    /\ UNCHANGED <<mode, width, asked, todo, workers, results, killed, callerVars>>

\* generate_ansible_roster: a host whose pillar cannot be used fails the call (AttributeError,
\* AnsibleInventoryIncomplete, or the KeyError of control_path.format and of 'ssh_gateway'), one
\* without a result is not missed.  The return code is not looked at.
Roster ==
    /\ main = "roster"
    /\ IF \A j \in results: answer[j] # "unusable"
       THEN main' = "returned" /\ roster' = results
       ELSE main' = "failed" /\ UNCHANGED roster
    /\ UNCHANGED <<mode, width, asked, todo, workers, results, killed, callerVars>>

\* KeyboardInterrupt: processes are terminated, threads cannot be.  The salt-calls go on, unless
\* the signal came from the terminal and is theirs too, or the main process runs them itself.
Interrupt ==
    /\ main \in {"start", "call", "wait", "stuck"}
    /\ main' = "failed"
    /\ workers' = {}
    /\ \E terminal \in BOOLEAN:
         LET stopped == IF mode = "threads" THEN {} ELSE {j \in asked: Alive(j)}
             ended == IF terminal \/ mode = "sequential"
                      THEN {j \in asked: salt[j] \in {"runs", "hangs"}} ELSE {}
         IN  /\ caller' = [j \in Jobs |-> IF j \in stopped THEN "gone" ELSE caller[j]]
             /\ answer' = [j \in Jobs |->
                             IF j \in stopped /\ caller[j] # "sent" THEN "none" ELSE answer[j]]
             /\ salt' = [j \in Jobs |-> IF j \in ended THEN "ended" ELSE salt[j]]
             /\ killed' = killed \cup stopped
    /\ UNCHANGED <<mode, width, asked, todo, results, roster, timed, printed, queue, torn>>

MainStep ==
    \/ Waits \/ Receive \/ Drain \/ Blocks \/ Roster
    \/ \E j \in Jobs: Start(j) \/ Reap(j) \/ Called(j) \/ CallRaises(j)

-----------------------------------------------------------------------------

WorkerStep(j) ==
    /\ CallerStep(j) \/ (mode # "sequential" /\ Leave(j))
    /\ UNCHANGED <<mode, width, main, asked, todo, workers, results, roster, killed>>

SaltStep(j) ==
    /\ Prints(j) \/ Ends(j)
    /\ UNCHANGED <<mode, width, main, asked, todo, workers, results, roster, killed>>

SaltHangs(j) == Hangs(j) /\ UNCHANGED <<mode, width, main, asked, todo, workers, results, roster, killed>>

KillWorker(j) ==
    /\ mode = "processes"
    /\ KillCaller(j)
    /\ killed' = killed \cup {j}
    /\ UNCHANGED <<mode, width, main, asked, todo, workers, results, roster>>

PoolStep ==
    \/ MainStep
    \/ Interrupt
    \/ \E j \in Jobs: WorkerStep(j) \/ SaltStep(j) \/ SaltHangs(j) \/ KillWorker(j)

=============================================================================
