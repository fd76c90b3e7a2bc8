----------------------------- MODULE SaltCaller -----------------------------
(***************************************************************************)
(* saltcaller.py: call() launches one salt-call with cmd(), polls it every *)
(* 0.04 s, kills it when its time is up, decodes what it has printed and   *)
(* puts the result on the queue of whoever waits for it.  A job is one     *)
(* such call, in a process or a thread of its own (module PillarPool).     *)
(***************************************************************************)
EXTENDS Naturals, Sequences, FiniteSets

CONSTANTS Jobs           \* what is called for: the hosts

VARIABLES
    timed,       \* whether a timeout was given (by default there is none)
    caller,      \* caller[j]: what call() does next for job j
    salt,        \* salt[j]: the salt-call of job j
    printed,     \* printed[j]: whether its standard output is a whole pillar yet ("part": nothing,
                 \* the beginning of one, or the result of a rendering that had errors)
    answer,      \* answer[j]: salt_out of the result of call(), once there is one
    queue,       \* output_queue: the jobs whose results can be read, in order
    torn         \* a result was cut short: its writer died, and its lock with it

callerVars == <<timed, caller, salt, printed, answer, queue, torn>>

CallerTypeOK ==
    /\ timed \in BOOLEAN
    /\ caller \in [Jobs -> {"none", "spawn", "poll", "put", "sent", "gone"}]
    /\ salt \in [Jobs -> {"none", "runs", "hangs", "ended"}]
    /\ printed \in [Jobs -> {"part", "pillar"}]
    /\ answer \in [Jobs -> {"none", "unusable", "pillar"}]
    /\ queue \in Seq(Jobs)
    /\ torn \in BOOLEAN

CallerInit ==
    /\ timed \in BOOLEAN
    /\ caller = [j \in Jobs |-> "none"]
    /\ salt = [j \in Jobs |-> "none"]
    /\ printed = [j \in Jobs |-> "part"]
    /\ answer = [j \in Jobs |-> "none"]
    /\ queue = <<>>
    /\ torn = FALSE

-----------------------------------------------------------------------------
(* cmd *)

Spawn(j) ==
    /\ caller[j] = "spawn"
    /\ caller' = [caller EXCEPT ![j] = "poll"]
    /\ salt' = [salt EXCEPT ![j] = "runs"]
    /\ UNCHANGED <<timed, printed, answer, queue, torn>>

\* Popen raises (no such executable, no memory): so does call, and nothing is put.
SpawnFails(j) ==
    /\ caller[j] = "spawn"
    /\ caller' = [caller EXCEPT ![j] = "gone"]
    /\ UNCHANGED <<timed, salt, printed, answer, queue, torn>>

\* What call() makes of the standard output, in the eyes of generate_ansible_roster: text that is no
\* JSON, a pillar with errors, and what has none of the ssh_* entries that it formats: the
\* pillar of a rendering that raised, or whatever dictionary complex_json_output finds at the end
\* of one that was cut short.
Decoded(text) == IF text = "pillar" THEN "pillar" ELSE "unusable"

\* The process has ended: poll() says so, and the read that follows gets the rest of its output.
Poll(j) ==
    /\ caller[j] = "poll"
    /\ salt[j] = "ended"
    /\ caller' = [caller EXCEPT ![j] = "put"]
    /\ answer' = [answer EXCEPT ![j] = Decoded(printed[j])]
    /\ UNCHANGED <<timed, salt, printed, queue, torn>>

\* Mutant of TimesUp: the salt-call is not killed
TimesUpLeaves(j) ==
    /\ caller[j] = "poll"
    /\ timed
    /\ caller' = [caller EXCEPT ![j] = "put"]
    /\ answer' = [answer EXCEPT ![j] = Decoded(printed[j])]
    /\ UNCHANGED <<timed, salt, printed, queue, torn>>

\* The clock is looked at before the process is: one that has just ended by itself is reported as
\* too long all the same, with whatever it has printed.
TimesUp(j) ==
    /\ caller[j] = "poll"
    /\ timed
    /\ caller' = [caller EXCEPT ![j] = "put"]
    /\ salt' = [salt EXCEPT ![j] = "ended"]
    /\ answer' = [answer EXCEPT ![j] = Decoded(printed[j])]
    /\ UNCHANGED <<timed, printed, queue, torn>>

\* output_queue.put: the feeder thread writes the whole result under the queue's lock.
Put(j) ==
    /\ caller[j] = "put"
    /\ ~torn
    /\ caller' = [caller EXCEPT ![j] = "sent"]
    /\ queue' = Append(queue, j)
    /\ UNCHANGED <<timed, salt, printed, answer, torn>>

Leave(j) ==
    /\ caller[j] = "sent"
    /\ caller' = [caller EXCEPT ![j] = "gone"]
    /\ UNCHANGED <<timed, salt, printed, answer, queue, torn>>

CallerStep(j) == Spawn(j) \/ SpawnFails(j) \/ Poll(j) \/ TimesUp(j) \/ Put(j)

-----------------------------------------------------------------------------
(* The salt-call, and what may happen to the processes *)

\* A pillar is larger than a pipe, and is printed in pieces as it is read.
Prints(j) ==
    /\ salt[j] = "runs"
    /\ printed' = [printed EXCEPT ![j] = "pillar"]
    /\ UNCHANGED <<timed, caller, salt, answer, queue, torn>>

\* It ends, by itself or killed, at whatever point.
Ends(j) ==
    /\ salt[j] = "runs"
    /\ salt' = [salt EXCEPT ![j] = "ended"]
    /\ UNCHANGED <<timed, caller, printed, answer, queue, torn>>

Hangs(j) ==
    /\ salt[j] = "runs"
    /\ salt' = [salt EXCEPT ![j] = "hangs"]
    /\ UNCHANGED <<timed, caller, printed, answer, queue, torn>>

\* A worker is killed with -9 (out of memory): its salt-call goes on.  In the middle of a
\* put it leaves half a result in the pipe and the queue's lock taken.
KillCaller(j) ==
    /\ caller[j] \in {"spawn", "poll", "put", "sent"}
    /\ caller' = [caller EXCEPT ![j] = "gone"]
    /\ answer' = [answer EXCEPT ![j] = IF caller[j] = "sent" THEN @ ELSE "none"]
    /\ \/ UNCHANGED torn
       \/ caller[j] = "put" /\ torn' = TRUE
    /\ UNCHANGED <<timed, salt, printed, queue>>
=============================================================================
