-------------------------- MODULE InventoryProofs --------------------------
(***************************************************************************)
(* The theorems about the inventory and its pool, for any hosts, runs,     *)
(* numbers of processes, modes, sizes of chunks and ages.                  *)
(***************************************************************************)
EXTENDS Inventory, SequenceTheorems, FiniteSetTheorems, TLAPS

(***************************************************************************)
(* The invariant of the pool: what a caller has and has left at each point *)
(* of call(), ...                                                          *)
(***************************************************************************)
CallerInv ==
    \A j \in Jobs:
        /\ caller[j] \in {"none", "spawn", "poll"} => answer[j] = "none"
        /\ caller[j] \in {"put", "sent"} => answer[j] # "none"
        /\ caller[j] \in {"none", "spawn"} => salt[j] = "none"
        /\ caller[j] \in {"put", "sent", "gone"} /\ salt[j] \in {"runs", "hangs"} => j \in killed
        /\ caller[j] = "gone" /\ answer[j] = "none" => salt[j] = "none" \/ j \in killed

\* ... which jobs have begun, ...
JobsInv ==
    /\ main = "idle" => asked = {} /\ \A j \in Jobs: caller[j] = "none"
    /\ \A j \in Jobs: Alive(j) => j \in asked \ todo
    /\ \A j \in asked \ todo: caller[j] # "none"
    /\ \A j \in todo: caller[j] = "none"

\* ... that the main process waits for all that are alive, ...
Nobody == \A j \in Jobs: ~Alive(j)

ModeInv ==
    /\ mode = "sequential" => /\ workers = {} /\ main \notin {"wait", "stuck"}
                              /\ main \notin {"call", "failed"} => Nobody
                              /\ \A i, j \in Jobs: Alive(i) /\ Alive(j) => i = j
    /\ mode # "sequential" => /\ main # "call"
                              /\ main # "failed" => \A j \in Jobs: Alive(j) => j \in workers
    /\ main \in {"roster", "returned"} => todo = {} /\ Nobody

\* ... and that an answer is a result or on its way.
QueueInv ==
    main # "failed" =>
        /\ Answered = results \cup ToSet(queue)
        /\ main \in {"idle", "roster", "returned"} => queue = <<>>
        /\ mode = "sequential" /\ main = "start" => queue = <<>>
        /\ main = "returned" => roster = results

PoolInv == PoolTypeOK /\ CallerInv /\ JobsInv /\ ModeInv /\ QueueInv

(***************************************************************************)
(* A run asks for a host at most once, in one generation after another.    *)
(***************************************************************************)
RunInv ==
    /\ ~followed => main = "idle"
    /\ followed => /\ \A r \in Runs \ {Me}: pc[r] = "idle"
                   /\ pc[Me] \in {"idle", "first", "load"} => main = "idle"
                   /\ pc[Me] \in {"ask", "generate"} =>
                         \A j \in left[Me]: caller[j] = "none" /\ j \notin asked
                   /\ pc[Me] = "generate" =>
                         /\ asked \subseteq chunk[Me]
                         /\ \A j \in chunk[Me]: j \notin left[Me] /\ (j \in asked \/ caller[j] = "none")

\* The targets that need not be in the output: those whose call could not be made or was killed, ...
Lost(j) == caller[j] = "gone" /\ (salt[j] = "none" \/ j \in killed)

\* ... and those that get_hosts has dropped.
Dropped(j) == caller[j] = "none" /\ j \notin asked \cup left[Me]

Missed(j) == Lost(j) \/ Dropped(j)

\* Where the variables of each target are until the run is done.
AccountedInv ==
    followed =>
        /\ pc[Me] \in {"ask", "generate", "save"} =>
              \A j \in targets[Me]:
                 \/ (payload[Me][j] # 0 /\ ~refresh[Me])
                 \/ j \in left[Me] \cup got[Me]
                 \/ (pc[Me] = "generate" /\ j \in chunk[Me])
                 \/ Missed(j)
        /\ pc[Me] = "save" => left[Me] = {}
        /\ pc[Me] = "write" =>
              \A j \in targets[Me]:
                 (payload[Me][j] # 0 /\ (refresh[Me] => payload[Me][j] = now[Me])) \/ Missed(j)
        /\ pc[Me] = "done" =>
              \A j \in targets[Me]:
                 (hostvars[Me][j] # 0 /\ (refresh[Me] => hostvars[Me][j] = now[Me])) \/ Missed(j)

\* What a run holds has not expired.
IsFresh(data, time) == \A j \in Jobs: data[j] = 0 \/ Valid(data[j], time)

FreshRun(r) ==
    /\ pc[r] = "idle" => hostvars[r] = None /\ payload[r] = None /\ got[r] = {}
    /\ pc[r] # "idle" => /\ now[r] # 0
                         /\ \A data \in {hostvars[r], payload[r], before[r]}: IsFresh(data, now[r])

FreshInv == \A r \in Runs: FreshRun(r)

\* What the cache has to hold when a run that is alone is done, and what it holds until then.
Active(r) == pc[r] \notin Over

Alone(r) ==
    /\ pc[r] \in {"first", "load"} => got[r] = {}
    /\ pc[r] \in {"first", "load", "ask", "generate", "save"} => Sane(cache, now[r]) = before[r]
    /\ pc[r] \in {"ask", "generate", "save"} =>
          /\ left[r] \subseteq targets[r] /\ got[r] \subseteq targets[r]
          /\ pc[r] = "generate" => chunk[r] \subseteq targets[r]
          /\ \A j \in Jobs: payload[r][j] = IF j \in targets[r] /\ refresh[r] THEN 0 ELSE before[r][j]
    /\ pc[r] = "write" => cache = Torn /\ \A j \in Jobs: payload[r][j] = Kept(r, j)

AloneInv ==
    /\ \A r, o \in Runs: r # o /\ Active(r) /\ Active(o) => met[r]
    /\ \A r \in Runs: Active(r) /\ ~met[r] => Alone(r)

-----------------------------------------------------------------------------
(* The queue *)

LEMMA ToSetEmpty == ToSet(<<>>) = {}
BY DEF ToSet

LEMMA ToSetAppend ==
  ASSUME NEW S, NEW q \in Seq(S), NEW j \in S
  PROVE  ToSet(Append(q, j)) = ToSet(q) \cup {j} /\ Append(q, j) \in Seq(S)
<1>1. /\ Len(q) \in Nat /\ Append(q, j) \in Seq(S)
      /\ Len(Append(q, j)) = Len(q) + 1
      /\ \A i \in 1 .. Len(q): Append(q, j)[i] = q[i]
      /\ Append(q, j)[Len(q) + 1] = j
  BY AppendProperties, LenProperties
<1>2. ToSet(q) = {q[i]: i \in 1 .. Len(q)}
  BY DEF ToSet
<1>3. ToSet(Append(q, j)) = {Append(q, j)[i]: i \in 1 .. Len(q) + 1}
  BY <1>1 DEF ToSet
<1>4. ASSUME NEW x \in ToSet(Append(q, j)) PROVE x \in ToSet(q) \cup {j}
  <2>1. PICK i \in 1 .. Len(q) + 1: x = Append(q, j)[i]
    BY <1>3
  <2>2. CASE i = Len(q) + 1
    BY <1>1, <2>1, <2>2
  <2>3. CASE i # Len(q) + 1
    BY <1>1, <1>2, <2>1, <2>3
  <2>4. QED
    BY <2>2, <2>3
<1>5. ASSUME NEW x \in ToSet(q) PROVE x \in ToSet(Append(q, j))
  <2>1. PICK i \in 1 .. Len(q): x = q[i]
    BY <1>2
  <2>2. i \in 1 .. Len(q) + 1 /\ x = Append(q, j)[i]
    BY <1>1, <2>1
  <2>3. QED
    BY <1>3, <2>2
<1>6. j \in ToSet(Append(q, j))
  <2>1. Len(q) + 1 \in 1 .. Len(q) + 1
    BY <1>1
  <2>2. QED
    BY <1>1, <1>3, <2>1
<1>7. QED
  BY <1>1, <1>4, <1>5, <1>6

LEMMA ToSetHead ==
  ASSUME NEW S, NEW q \in Seq(S), q # <<>>
  PROVE  /\ Head(q) \in S /\ Tail(q) \in Seq(S)
         /\ ToSet(q) = {Head(q)} \cup ToSet(Tail(q))
<1>1. /\ Len(q) \in Nat \ {0} /\ Head(q) = q[1] /\ Tail(q) \in Seq(S)
      /\ Len(Tail(q)) = Len(q) - 1 /\ \A i \in 1 .. Len(q) - 1: Tail(q)[i] = q[i + 1]
      /\ \A i \in 1 .. Len(q): q[i] \in S
  BY HeadTailProperties, EmptySeq, ElementOfSeq
<1>2. ToSet(q) = {q[i]: i \in 1 .. Len(q)}
  BY DEF ToSet
<1>3. ToSet(Tail(q)) = {Tail(q)[i]: i \in 1 .. Len(q) - 1}
  <2>1. DOMAIN Tail(q) = 1 .. Len(q) - 1
    BY <1>1, LenProperties
  <2>2. QED
    BY <2>1 DEF ToSet
<1>4. ASSUME NEW x \in ToSet(q) PROVE x \in {Head(q)} \cup ToSet(Tail(q))
  <2>1. PICK i \in 1 .. Len(q): x = q[i]
    BY <1>2
  <2>2. CASE i = 1
    BY <1>1, <2>1, <2>2
  <2>3. CASE i # 1
    <3>1. i - 1 \in 1 .. Len(q) - 1 /\ Tail(q)[i - 1] = x
      BY <1>1, <2>1, <2>3
    <3>2. QED
      BY <1>3, <3>1
  <2>4. QED
    BY <2>2, <2>3
<1>5. ASSUME NEW x \in ToSet(Tail(q)) PROVE x \in ToSet(q)
  <2>1. PICK i \in 1 .. Len(q) - 1: x = Tail(q)[i]
    BY <1>3
  <2>2. i + 1 \in 1 .. Len(q) /\ x = q[i + 1]
    BY <1>1, <2>1
  <2>3. QED
    BY <1>2, <2>2
<1>6. Head(q) \in ToSet(q)
  BY <1>1, <1>2
<1>7. QED
  BY <1>1, <1>4, <1>5, <1>6

LEMMA ToSetIn == ASSUME NEW S, NEW q \in Seq(S) PROVE ToSet(q) \subseteq S
BY DEF ToSet

-----------------------------------------------------------------------------
(* Steps of one job: its worker, its salt-call, and what kills them *)

JobStep(j) == WorkerStep(j) \/ SaltStep(j) \/ SaltHangs(j) \/ KillWorker(j)

\* How a job may move on.
LEMMA JobMoves ==
  ASSUME PoolInv, NEW j \in Jobs, JobStep(j)
  PROVE  /\ UNCHANGED <<mode, width, main, asked, todo, workers, results, roster, timed>>
         /\ \A i \in Jobs: i # j => /\ caller'[i] = caller[i] /\ answer'[i] = answer[i]
                                    /\ salt'[i] = salt[i]
         /\ Alive(j) \/ UNCHANGED <<caller, answer, queue, killed>>
         /\ caller'[j] # "none" \/ UNCHANGED <<caller, salt, answer, queue, killed>>
         /\ killed \subseteq killed'
         /\ \/ caller'[j] # "put" /\ answer'[j] = answer[j] /\ queue' = queue
            \/ caller[j] = "poll" /\ caller'[j] = "put" /\ queue' = queue
            \/ caller'[j] = caller[j] /\ answer'[j] = answer[j] /\ queue' = queue
            \/ caller[j] = "put" /\ caller'[j] = "sent" /\ answer'[j] = answer[j] /\ queue' = Append(queue, j)
            \/ caller[j] \in {"spawn", "poll", "put"} /\ caller'[j] = "gone" /\ answer'[j] = "none" /\ queue' = queue
         /\ PoolTypeOK'
         /\ CallerInv'
<1> USE DEF PoolInv, PoolTypeOK, CallerTypeOK, CallerInv, Alive
<1>1. CASE Spawn(j) /\ WorkerStep(j)
  BY <1>1 DEF WorkerStep, Spawn
<1>2. CASE SpawnFails(j) /\ WorkerStep(j)
  BY <1>2 DEF WorkerStep, SpawnFails
<1>3. CASE Poll(j) /\ WorkerStep(j)
  BY <1>3 DEF WorkerStep, Poll, Decoded
<1>4. CASE TimesUp(j) /\ WorkerStep(j)
  BY <1>4 DEF WorkerStep, TimesUp, Decoded
<1>5. CASE Put(j) /\ WorkerStep(j)
  <2>1. queue' = Append(queue, j) /\ queue' \in Seq(Jobs)
    BY <1>5, ToSetAppend DEF Put
  <2>2. QED
    BY <1>5, <2>1 DEF WorkerStep, Put
<1>6. CASE Leave(j) /\ WorkerStep(j)
  BY <1>6 DEF WorkerStep, Leave
<1>7. CASE Prints(j) /\ SaltStep(j)
  BY <1>7 DEF SaltStep, Prints
<1>8. CASE Ends(j) /\ SaltStep(j)
  BY <1>8 DEF SaltStep, Ends
<1>9. CASE SaltHangs(j)
  BY <1>9 DEF SaltHangs, Hangs
<1>10. CASE KillWorker(j)
  BY <1>10 DEF KillWorker, KillCaller
<1>11. QED
  BY <1>1, <1>2, <1>3, <1>4, <1>5, <1>6, <1>7, <1>8, <1>9, <1>10
     DEF JobStep, WorkerStep, CallerStep, SaltStep

LEMMA JobKeepsAnswered ==
  ASSUME PoolInv, NEW j \in Jobs, JobStep(j)
  PROVE  \/ Answered' = Answered /\ queue' = queue
         \/ /\ j \in asked \ Answered /\ Alive(j)
            /\ Answered' = Answered \cup {j} /\ queue' = Append(queue, j)
<1>1. asked' = asked /\ asked \subseteq Jobs
  BY JobMoves DEF PoolInv, PoolTypeOK
<1>2. \A i \in Jobs: i # j => caller'[i] = caller[i] /\ answer'[i] = answer[i]
  BY JobMoves
<1>3. CASE \/ caller'[j] # "put" /\ answer'[j] = answer[j] /\ queue' = queue /\ caller[j] # "put"
           \/ caller[j] = "poll" /\ caller'[j] = "put" /\ queue' = queue
           \/ caller'[j] = caller[j] /\ answer'[j] = answer[j] /\ queue' = queue
           \/ caller[j] \in {"spawn", "poll", "put"} /\ caller'[j] = "gone" /\ answer'[j] = "none" /\ queue' = queue
  <2>1. j \in Answered' <=> j \in Answered
    BY <1>1, <1>3 DEF Answered, PoolInv, CallerInv
  <2>2. \A i \in asked: i \in Answered' <=> i \in Answered
    BY <1>1, <1>2, <2>1 DEF Answered
  <2>3. Answered' = Answered
    BY <1>1, <2>2 DEF Answered
  <2>4. QED
    BY <1>3, <2>3
<1>4. CASE caller[j] = "put" /\ caller'[j] = "sent" /\ answer'[j] = answer[j] /\ queue' = Append(queue, j)
  <2>1. Alive(j) /\ j \in asked
    BY <1>4 DEF Alive, PoolInv, JobsInv
  <2>2. j \in Answered' /\ j \notin Answered
    BY <1>1, <1>4, <2>1 DEF Answered, PoolInv, CallerInv
  <2>3. \A i \in asked: i # j => (i \in Answered' <=> i \in Answered)
    BY <1>1, <1>2 DEF Answered
  <2>4. Answered' = Answered \cup {j}
    BY <1>1, <2>1, <2>2, <2>3 DEF Answered
  <2>5. QED
    BY <1>4, <2>1, <2>2, <2>4
<1>5. QED
  <2>1. caller[j] = "put" /\ caller'[j] # "put" /\ answer'[j] = answer[j] /\ queue' = queue => FALSE
    BY DEF PoolInv, PoolTypeOK, CallerTypeOK, CallerInv, JobStep, WorkerStep, CallerStep, Spawn,
       SpawnFails, Poll, TimesUp, Put, Leave, SaltStep, Prints, Ends, SaltHangs, Hangs,
       KillWorker, KillCaller
  <2>2. QED
    BY JobMoves, <1>3, <1>4, <2>1

LEMMA JobKeepsPool == ASSUME PoolInv, NEW j \in Jobs, JobStep(j) PROVE PoolInv'
<1>1. /\ UNCHANGED <<mode, width, main, asked, todo, workers, results, roster>>
      /\ \A i \in Jobs: i # j => caller'[i] = caller[i]
      /\ Alive(j) \/ UNCHANGED <<caller, answer, queue, killed>>
      /\ caller'[j] # "none" \/ UNCHANGED <<caller, salt, answer, queue, killed>>
      /\ PoolTypeOK' /\ CallerInv'
  BY JobMoves
<1>2. JobsInv'
  BY <1>1 DEF PoolInv, JobsInv, Alive, PoolTypeOK
<1>3. \A i \in Jobs: Alive(i)' => Alive(i)
  BY <1>1 DEF Alive
<1>4. ModeInv'
  BY <1>1, <1>3 DEF PoolInv, ModeInv, Nobody
<1>5. QueueInv'
  <2>1. CASE Answered' = Answered /\ queue' = queue
    BY <1>1, <2>1 DEF PoolInv, QueueInv
  <2>2. CASE /\ j \in asked \ Answered /\ Alive(j)
             /\ Answered' = Answered \cup {j} /\ queue' = Append(queue, j)
    <3>1. ToSet(queue') = ToSet(queue) \cup {j}
      BY <2>2, ToSetAppend DEF PoolInv, PoolTypeOK, CallerTypeOK
    <3>2. main \notin {"idle", "roster", "returned"}
      BY <2>2 DEF PoolInv, JobsInv, ModeInv, Nobody
    <3>3. ~(mode = "sequential" /\ main = "start")
      BY <2>2 DEF PoolInv, ModeInv, Nobody
    <3>4. QED
      BY <1>1, <2>2, <3>1, <3>2, <3>3 DEF PoolInv, QueueInv
  <2>3. QED
    BY <2>1, <2>2, JobKeepsAnswered
<1>6. QED
  BY <1>1, <1>2, <1>4, <1>5 DEF PoolInv

-----------------------------------------------------------------------------
(* Steps of the main process *)

LEMMA StartKeepsPool == ASSUME PoolInv, NEW j \in Jobs, Start(j) PROVE PoolInv'
<1> USE DEF PoolInv, PoolTypeOK, CallerTypeOK
<1>1. /\ main = "start" /\ j \in todo /\ todo' = todo \ {j}
      /\ caller' = [caller EXCEPT ![j] = "spawn"]
      /\ UNCHANGED <<mode, width, asked, results, roster, killed, timed, salt, printed, answer, queue, torn>>
  BY DEF Start
<1>2. \/ mode = "sequential" /\ main' = "call" /\ workers' = workers
      \/ mode # "sequential" /\ workers' = workers \cup {j} /\ main' = main
  BY DEF Start
<1>3. caller[j] = "none" /\ caller'[j] = "spawn" /\ \A i \in Jobs: i # j => caller'[i] = caller[i]
  BY <1>1 DEF JobsInv
<1>4. j \in asked /\ j \notin results /\ answer[j] = "none" /\ salt[j] = "none"
  BY <1>1, <1>3 DEF CallerInv
<1>5. caller' \in [Jobs -> {"none", "spawn", "poll", "put", "sent", "gone"}]
  BY <1>1
<1>6. PoolTypeOK'
  BY <1>1, <1>2, <1>4, <1>5
<1>7. CallerInv'
  BY <1>1, <1>3, <1>4 DEF CallerInv
<1>8. JobsInv'
  BY <1>1, <1>2, <1>3, <1>4 DEF JobsInv, Alive
<1>9. ModeInv'
  BY <1>1, <1>2, <1>3 DEF ModeInv, Alive, Nobody
<1>10. Answered' = Answered
  BY <1>1, <1>3, <1>4 DEF Answered
<1>11. QueueInv'
  BY <1>1, <1>2, <1>10 DEF QueueInv
<1>12. QED
  BY <1>6, <1>7, <1>8, <1>9, <1>11

\* Steps of the main process that do nothing to the jobs.
LEMMA SameJobs ==
  ASSUME PoolInv, UNCHANGED <<mode, asked, todo, killed, caller, salt, answer>>,
         main' # "idle" \/ main = "idle"
  PROVE  CallerInv' /\ JobsInv' /\ Answered' = Answered /\ \A j \in Jobs: Alive(j)' <=> Alive(j)
BY DEF PoolInv, CallerInv, JobsInv, Answered, Alive

LEMMA WaitsKeepsPool == ASSUME PoolInv, Waits PROVE PoolInv'
<1> USE DEF PoolInv, PoolTypeOK, CallerTypeOK
<1>1. main = "start" /\ UNCHANGED <<mode, width, asked, todo, workers, results, roster, killed, callerVars>>
  BY DEF Waits
<1>2. UNCHANGED <<timed, caller, salt, printed, answer, queue, torn>>
  BY <1>1 DEF callerVars
<1>3. \/ mode = "sequential" /\ main' = "roster" /\ todo = {}
      \/ mode # "sequential" /\ main' = "wait"
  <2>1. CASE mode = "sequential"
    <3>1. workers = {}
      BY <2>1 DEF ModeInv
    <3>2. width \in Nat \ {0}
      BY PoolAssumption
    <3>3. Cardinality({}) = 0
      BY FS_EmptySet
    <3>4. ~(Cardinality(workers) >= width)
      BY <3>1, <3>2, <3>3
    <3>5. QED
      BY <2>1, <3>4 DEF Waits
  <2>2. CASE mode # "sequential"
    BY <2>2 DEF Waits
  <2>3. QED
    BY <2>1, <2>2
<1>4. CallerInv' /\ JobsInv' /\ Answered' = Answered /\ \A j \in Jobs: Alive(j)' <=> Alive(j)
  BY <1>1, <1>2, <1>3, SameJobs
<1>5. ModeInv'
  BY <1>1, <1>3, <1>4 DEF ModeInv, Nobody
<1>6. QueueInv'
  BY <1>1, <1>2, <1>3, <1>4 DEF QueueInv
<1>7. QED
  BY <1>1, <1>2, <1>3, <1>4, <1>5, <1>6

LEMMA ReceiveKeepsPool == ASSUME PoolInv, Receive PROVE PoolInv'
<1> USE DEF PoolInv, PoolTypeOK, CallerTypeOK
<1>1. /\ main = "wait" /\ queue # <<>> /\ queue' = Tail(queue)
      /\ UNCHANGED <<mode, width, asked, todo, roster, killed, timed, salt, printed, answer, torn>>
  BY DEF Receive
<1> DEFINE j == Head(queue)
<1>2. /\ j \in Jobs /\ queue' \in Seq(Jobs)
      /\ ToSet(queue) = {j} \cup ToSet(queue')
  BY <1>1, ToSetHead
<1>3. j \in Answered /\ j \in asked \ todo
  BY <1>1, <1>2 DEF QueueInv, Answered, CallerInv, JobsInv
<1>4. CASE mode = "threads"
  <2>1. main' = "failed" /\ workers' = {} /\ UNCHANGED <<results, caller>>
    BY <1>4 DEF Receive
  <2>2. CallerInv' /\ JobsInv' /\ \A i \in Jobs: Alive(i)' <=> Alive(i)
    BY <1>1, <2>1, SameJobs
  <2>3. ModeInv' /\ QueueInv'
    BY <1>1, <1>4, <2>1, <2>2 DEF ModeInv, QueueInv
  <2>4. PoolTypeOK'
    BY <1>1, <1>2, <2>1
  <2>5. QED
    BY <2>2, <2>3, <2>4
<1>5. CASE mode # "threads"
  <2>1. /\ results' = results \cup {j} /\ workers' = workers \ {j}
        /\ caller' = [caller EXCEPT ![j] = "gone"] /\ main' = main
    BY <1>5 DEF Receive
  <2>2. caller'[j] = "gone" /\ \A i \in Jobs: i # j => caller'[i] = caller[i]
    BY <1>2, <2>1
  <2>3. caller[j] \in {"sent", "gone"} /\ answer[j] # "none"
    BY <1>2, <1>3 DEF Answered, CallerInv
  <2>4. caller' \in [Jobs -> {"none", "spawn", "poll", "put", "sent", "gone"}]
    BY <2>1
  <2>5. PoolTypeOK'
    BY <1>1, <1>2, <1>3, <2>1, <2>4
  <2>6. CallerInv'
    BY <1>1, <2>2, <2>3 DEF CallerInv
  <2>7. JobsInv'
    BY <1>1, <1>3, <2>1, <2>2 DEF JobsInv, Alive
  <2>8. ModeInv'
    BY <1>1, <2>1, <2>2 DEF ModeInv, Alive, Nobody
  <2>9. Answered' = Answered
    BY <1>1, <1>3, <2>2, <2>3 DEF Answered
  <2>10. QueueInv'
    BY <1>1, <1>2, <2>1, <2>9 DEF QueueInv
  <2>11. QED
    BY <2>5, <2>6, <2>7, <2>8, <2>10
<1>6. QED
  BY <1>4, <1>5

LEMMA ReapKeepsPool == ASSUME PoolInv, NEW j \in Jobs, Reap(j) PROVE PoolInv'
<1> USE DEF PoolInv, PoolTypeOK, CallerTypeOK
<1>1. /\ ~Alive(j) /\ workers' = workers \ {j}
      /\ UNCHANGED <<mode, width, main, asked, todo, results, roster, killed>>
      /\ UNCHANGED <<timed, caller, salt, printed, answer, queue, torn>>
  BY DEF Reap, callerVars
<1>2. CallerInv' /\ JobsInv' /\ Answered' = Answered /\ \A i \in Jobs: Alive(i)' <=> Alive(i)
  BY <1>1, SameJobs
<1>3. PoolTypeOK'
  BY <1>1
<1>4. ModeInv'
  BY <1>1, <1>2 DEF ModeInv, Nobody
<1>5. QueueInv'
  BY <1>1, <1>2 DEF QueueInv
<1>6. QED
  BY <1>2, <1>3, <1>4, <1>5

LEMMA DrainKeepsPool == ASSUME PoolInv, Drain PROVE PoolInv'
<1> USE DEF PoolInv, PoolTypeOK, CallerTypeOK
<1>1. /\ main = "wait" /\ workers = {} /\ results' = results \cup ToSet(queue) /\ queue' = <<>>
      /\ main' = IF todo = {} THEN "roster" ELSE "start"
      /\ UNCHANGED <<mode, width, asked, todo, workers, roster, killed, timed, caller, salt, printed, answer, torn>>
  BY DEF Drain
<1>2. CallerInv' /\ JobsInv' /\ Answered' = Answered /\ \A i \in Jobs: Alive(i)' <=> Alive(i)
  BY <1>1, SameJobs
<1>3. results' = Answered /\ Answered \subseteq asked \ todo
  BY <1>1 DEF QueueInv, Answered, JobsInv, CallerInv
<1>4. PoolTypeOK'
  BY <1>1, <1>3, EmptySeq
<1>5. Nobody
  BY <1>1 DEF ModeInv, Nobody
<1>6. ModeInv'
  BY <1>1, <1>2, <1>5 DEF ModeInv, Nobody
<1>7. QueueInv'
  BY <1>1, <1>2, <1>3, ToSetEmpty DEF QueueInv, ModeInv
<1>8. QED
  BY <1>2, <1>4, <1>6, <1>7

LEMMA CalledKeepsPool == ASSUME PoolInv, NEW j \in Jobs, Called(j) PROVE PoolInv'
<1> USE DEF PoolInv, PoolTypeOK, CallerTypeOK
<1>1. /\ main = "call" /\ caller[j] = "sent" /\ caller' = [caller EXCEPT ![j] = "gone"]
      /\ results' = results \cup ToSet(queue) /\ queue' = <<>> /\ main' = "start"
      /\ UNCHANGED <<mode, width, asked, todo, workers, roster, killed, timed, salt, printed, answer, torn>>
  BY DEF Called
<1>2. mode = "sequential" /\ Alive(j) /\ answer[j] # "none" /\ j \in asked \ todo
  BY <1>1 DEF ModeInv, Alive, CallerInv, JobsInv
<1>3. caller'[j] = "gone" /\ \A i \in Jobs: i # j => caller'[i] = caller[i]
  BY <1>1
<1>4. Answered' = Answered
  BY <1>1, <1>2, <1>3 DEF Answered
<1>5. results' = Answered /\ Answered \subseteq asked \ todo
  BY <1>1 DEF QueueInv, Answered, JobsInv, CallerInv
<1>6. PoolTypeOK'
  BY <1>1, <1>5, EmptySeq
<1>7. CallerInv'
  BY <1>1, <1>2, <1>3 DEF CallerInv
<1>8. JobsInv'
  BY <1>1, <1>2, <1>3 DEF JobsInv, Alive
<1>9. \A i \in Jobs: ~Alive(i)'
  BY <1>2, <1>3 DEF Alive, ModeInv
<1>10. ModeInv'
  BY <1>1, <1>2, <1>9 DEF ModeInv, Nobody
<1>11. QueueInv'
  BY <1>1, <1>4, <1>5, ToSetEmpty DEF QueueInv
<1>12. QED
  BY <1>6, <1>7, <1>8, <1>10, <1>11

LEMMA EndsKeepPool ==
  ASSUME PoolInv, Blocks \/ Roster \/ \E j \in Jobs: CallRaises(j) PROVE PoolInv'
<1> USE DEF PoolInv, PoolTypeOK, CallerTypeOK
<1>1. /\ UNCHANGED <<mode, width, asked, todo, workers, results, killed>>
      /\ UNCHANGED <<timed, caller, salt, printed, answer, queue, torn>>
  BY DEF Blocks, Roster, CallRaises, callerVars
<1>2. \/ main = "wait" /\ main' = "stuck" /\ roster' = roster
      \/ main = "roster" /\ main' = "returned" /\ roster' = results
      \/ main' = "failed" /\ roster' = roster
  BY DEF Blocks, Roster, CallRaises
<1>3. CallerInv' /\ JobsInv' /\ Answered' = Answered /\ \A i \in Jobs: Alive(i)' <=> Alive(i)
  BY <1>1, <1>2, SameJobs
<1>4. PoolTypeOK'
  BY <1>1, <1>2
<1>5. ModeInv'
  BY <1>1, <1>2, <1>3 DEF ModeInv, Nobody
<1>6. QueueInv'
  BY <1>1, <1>2, <1>3 DEF QueueInv
<1>7. QED
  BY <1>3, <1>4, <1>5, <1>6

LEMMA InterruptKeepsPool == ASSUME PoolInv, Interrupt PROVE PoolInv' /\ Answered' = Answered
<1> USE DEF PoolInv, PoolTypeOK, CallerTypeOK
<1>1. /\ main' = "failed" /\ main # "idle" /\ workers' = {}
      /\ UNCHANGED <<mode, width, asked, todo, results, roster, timed, printed, queue, torn>>
  BY DEF Interrupt
<1>2. PICK stopped \in SUBSET asked, ended \in SUBSET asked:
        /\ stopped = {} \/ \A j \in asked: j \in stopped <=> Alive(j)
        /\ \A j \in stopped: Alive(j)
        /\ \A j \in ended: salt[j] \in {"runs", "hangs"}
        /\ caller' = [j \in Jobs |-> IF j \in stopped THEN "gone" ELSE caller[j]]
        /\ answer' = [j \in Jobs |->
                        IF j \in stopped /\ caller[j] # "sent" THEN "none" ELSE answer[j]]
        /\ salt' = [j \in Jobs |-> IF j \in ended THEN "ended" ELSE salt[j]]
        /\ killed' = killed \cup stopped
  <2>1. PICK terminal \in BOOLEAN:
         LET stopped == IF mode = "threads" THEN {} ELSE {j \in asked: Alive(j)}
             ended == IF terminal \/ mode = "sequential"
                      THEN {j \in asked: salt[j] \in {"runs", "hangs"}} ELSE {}
         IN  /\ caller' = [j \in Jobs |-> IF j \in stopped THEN "gone" ELSE caller[j]]
             /\ answer' = [j \in Jobs |->
                             IF j \in stopped /\ caller[j] # "sent" THEN "none" ELSE answer[j]]
             /\ salt' = [j \in Jobs |-> IF j \in ended THEN "ended" ELSE salt[j]]
             /\ killed' = killed \cup stopped
    BY DEF Interrupt
  <2> DEFINE s == IF mode = "threads" THEN {} ELSE {j \in asked: Alive(j)}
             e == IF terminal \/ mode = "sequential"
                  THEN {j \in asked: salt[j] \in {"runs", "hangs"}} ELSE {}
  <2>2. s \in SUBSET asked /\ e \in SUBSET asked
    OBVIOUS
  <2>3. /\ s = {} \/ \A j \in asked: j \in s <=> Alive(j)
        /\ \A j \in s: Alive(j)
        /\ \A j \in e: salt[j] \in {"runs", "hangs"}
    OBVIOUS
  <2> HIDE DEF s, e
  <2>4. /\ caller' = [j \in Jobs |-> IF j \in s THEN "gone" ELSE caller[j]]
        /\ answer' = [j \in Jobs |-> IF j \in s /\ caller[j] # "sent" THEN "none" ELSE answer[j]]
        /\ salt' = [j \in Jobs |-> IF j \in e THEN "ended" ELSE salt[j]]
        /\ killed' = killed \cup s
    BY <2>1 DEF s, e
  <2>5. QED
    BY <2>2, <2>3, <2>4
<1>3. /\ \A j \in Jobs: caller'[j] = IF j \in stopped THEN "gone" ELSE caller[j]
      /\ \A j \in Jobs: answer'[j] = IF j \in stopped /\ caller[j] # "sent" THEN "none" ELSE answer[j]
      /\ \A j \in Jobs: salt'[j] = IF j \in ended THEN "ended" ELSE salt[j]
      /\ stopped \subseteq Jobs
  BY <1>2
<1>4. PoolTypeOK'
  BY <1>1, <1>2
<1>5. CallerInv'
  BY <1>2, <1>3 DEF CallerInv, Alive
<1>6. \A j \in Jobs: Alive(j)' => Alive(j)
  BY <1>3 DEF Alive
<1>7. JobsInv'
  BY <1>1, <1>2, <1>3, <1>6 DEF JobsInv, Alive
<1>8. ModeInv'
  BY <1>1, <1>6 DEF ModeInv
<1>9. QueueInv'
  BY <1>1 DEF QueueInv
<1>10. Answered' = Answered
  <2>1. ASSUME NEW j \in asked PROVE j \in Answered' <=> j \in Answered
    BY <1>1, <1>2, <1>3, <2>1 DEF Answered, Alive, CallerInv
  <2>2. QED
    BY <1>1, <2>1 DEF Answered
<1>11. QED
  BY <1>4, <1>5, <1>7, <1>8, <1>9, <1>10

LEMMA PoolStepKeepsPool == ASSUME PoolInv, PoolStep PROVE PoolInv'
BY JobKeepsPool, StartKeepsPool, WaitsKeepsPool, ReceiveKeepsPool, ReapKeepsPool, DrainKeepsPool,
   CalledKeepsPool, EndsKeepPool, InterruptKeepsPool DEF PoolStep, MainStep, JobStep

LEMMA CallKeepsPool ==
  ASSUME PoolInv, NEW hosts \in SUBSET Jobs, \A j \in hosts: caller[j] = "none", PoolCall(hosts)
  PROVE  PoolInv'
<1> USE DEF PoolInv, PoolTypeOK, CallerTypeOK
<1>1. /\ main \in {"idle", "returned"} /\ main' = "start" /\ asked' \subseteq hosts /\ todo' = asked'
      /\ workers' = {} /\ results' = {} /\ roster' = {}
      /\ UNCHANGED <<mode, width, killed>>
      /\ UNCHANGED <<timed, caller, salt, printed, answer, queue, torn>>
  BY DEF PoolCall, GetHosts, callerVars
<1>2. Nobody /\ queue = <<>>
  BY <1>1 DEF ModeInv, QueueInv, JobsInv, Nobody, Alive
<1>3. \A j \in Jobs: Alive(j)' <=> Alive(j)
  BY <1>1 DEF Alive
<1>4. Answered' = {}
  BY <1>1 DEF Answered, CallerInv
<1>5. PoolTypeOK' /\ CallerInv'
  BY <1>1 DEF CallerInv
<1>6. JobsInv'
  BY <1>1, <1>2, <1>3 DEF JobsInv, Nobody
<1>7. ModeInv'
  BY <1>1, <1>2, <1>3 DEF ModeInv, Nobody
<1>8. QueueInv'
  BY <1>1, <1>2, <1>4, ToSetEmpty DEF QueueInv
<1>9. QED
  BY <1>5, <1>6, <1>7, <1>8

-----------------------------------------------------------------------------
(* The pool implements Generation. *)

Running == main \notin {"idle", "returned", "failed"}

LEMMA PhaseIs ==
  ASSUME PoolTypeOK
  PROVE  /\ Phase = "idle" <=> main = "idle"
         /\ Phase = "returned" <=> main = "returned"
         /\ Phase = "failed" <=> main = "failed"
         /\ Phase = "running" <=> Running
BY DEF Phase, Running, PoolTypeOK

\* A step that neither begins nor ends a generation, and gives no answer.
LEMMA Stutters ==
  ASSUME PoolInv, PoolInv', Answered' = Answered, answer' = answer,
         UNCHANGED <<asked, roster>>, main' = main \/ (Running /\ Running')
  PROVE  UNCHANGED Gen!gvars
<1>1. Phase' = Phase
  BY DEF Phase, Running
<1>2. Spoiled' = Spoiled
  BY DEF Spoiled
<1>3. QED
  BY <1>1, <1>2 DEF Gen!gvars

LEMMA JobRefines ==
  ASSUME PoolInv, PoolInv', NEW j \in Jobs, JobStep(j) PROVE [Gen!GNext]_(Gen!gvars)
<1>1. /\ UNCHANGED <<main, asked, roster>>
      /\ \A i \in Jobs: i # j => answer'[i] = answer[i]
      /\ j \in Answered => answer'[j] = answer[j]
  BY JobMoves DEF Answered, PoolInv, CallerInv
<1>2. Phase' = Phase
  BY <1>1 DEF Phase
<1>3. Answered \subseteq asked /\ asked \subseteq Jobs
  BY DEF Answered, PoolInv, PoolTypeOK
<1>4. CASE Answered' = Answered
  <2>1. Spoiled' = Spoiled
    BY <1>1, <1>3, <1>4 DEF Spoiled
  <2>2. QED
    BY <1>1, <1>2, <1>4, <2>1 DEF Gen!gvars
<1>5. CASE j \in asked \ Answered /\ Alive(j) /\ Answered' = Answered \cup {j}
  <2>1. main # "returned"
    BY <1>5 DEF PoolInv, ModeInv, Nobody
  <2>2. Phase # "returned"
    BY <2>1, PhaseIs DEF PoolInv
  <2>3. \/ Spoiled' = Spoiled /\ (Answered \ Spoiled)' = (Answered \ Spoiled) \cup {j}
        \/ Spoiled' = Spoiled \cup {j} /\ (Answered \ Spoiled)' = Answered \ Spoiled
    BY <1>1, <1>3, <1>5 DEF Spoiled
  <2>4. j \in asked \ ((Answered \ Spoiled) \cup Spoiled)
    BY <1>5 DEF Spoiled
  <2>5. Gen!Answer
    BY <1>1, <1>2, <2>2, <2>3, <2>4 DEF Gen!Answer
  <2>6. QED
    BY <2>5 DEF Gen!GNext
<1>6. QED
  BY <1>4, <1>5, JobKeepsAnswered

LEMMA RosterRefines == ASSUME PoolInv, PoolInv', Roster PROVE Gen!GNext
<1>1. /\ main = "roster" /\ UNCHANGED <<asked, answer, caller>>
      /\ \/ main' = "returned" /\ roster' = results /\ \A j \in results: answer[j] # "unusable"
         \/ main' = "failed" /\ roster' = roster
  BY DEF Roster, callerVars
<1>2. Answered' = Answered /\ Spoiled' = Spoiled
  BY <1>1 DEF Answered, Spoiled
<1>3. Phase = "running"
  BY <1>1 DEF Phase
<1>4. CASE main' = "returned" /\ roster' = results /\ \A j \in results: answer[j] # "unusable"
  <2>1. Answered = results
    BY <1>1, ToSetEmpty DEF PoolInv, QueueInv
  <2>2. Spoiled = {}
    BY <1>4, <2>1 DEF Spoiled
  <2>3. Phase' = "returned"
    BY <1>4 DEF Phase
  <2>4. Gen!Return
    BY <1>1, <1>2, <1>3, <1>4, <2>1, <2>2, <2>3 DEF Gen!Return
  <2>5. QED
    BY <2>4 DEF Gen!GNext
<1>5. CASE main' = "failed" /\ roster' = roster
  <2>1. Phase' = "failed"
    BY <1>5 DEF Phase
  <2>2. Gen!Fail
    BY <1>1, <1>2, <1>3, <1>5, <2>1 DEF Gen!Fail
  <2>3. QED
    BY <2>2 DEF Gen!GNext
<1>6. QED
  BY <1>1, <1>4, <1>5

\* The generation fails, with the answers that there are.
LEMMA FailsRefines ==
  ASSUME PoolInv, Running, main' = "failed", UNCHANGED <<asked, roster>>, Answered' = Answered,
         \A j \in Answered: answer'[j] = answer[j]
  PROVE  Gen!GNext
<1>1. Spoiled' = Spoiled
  BY DEF Spoiled
<1>2. Phase = "running" /\ Phase' = "failed"
  BY DEF Phase, Running
<1>3. Gen!Fail
  BY <1>1, <1>2 DEF Gen!Fail
<1>4. QED
  BY <1>3 DEF Gen!GNext

LEMMA MainRefines ==
  ASSUME PoolInv, PoolInv', MainStep PROVE [Gen!GNext]_(Gen!gvars)
<1>1. ASSUME NEW j \in Jobs, Start(j) PROVE [Gen!GNext]_(Gen!gvars)
  <2>1. /\ UNCHANGED <<asked, roster, answer>> /\ Running /\ Running'
        /\ \A i \in Jobs: i # j => caller'[i] = caller[i]
        /\ caller[j] = "none" /\ answer[j] = "none"
    BY <1>1 DEF Start, PoolInv, JobsInv, CallerInv, Running, PoolTypeOK, CallerTypeOK
  <2>2. Answered' = Answered
    BY <2>1 DEF Answered, PoolInv, PoolTypeOK
  <2>3. QED
    BY <2>1, <2>2, Stutters
<1>2. ASSUME NEW j \in Jobs, Called(j) PROVE [Gen!GNext]_(Gen!gvars)
  <2>1. /\ UNCHANGED <<asked, roster, answer>> /\ Running /\ Running'
        /\ \A i \in Jobs: i # j => caller'[i] = caller[i]
        /\ caller[j] # "put" /\ caller'[j] # "put"
    BY <1>2 DEF Called, PoolInv, Running, PoolTypeOK, CallerTypeOK
  <2>2. Answered' = Answered
    BY <2>1 DEF Answered, PoolInv, PoolTypeOK
  <2>3. QED
    BY <2>1, <2>2, Stutters
<1>3. CASE Waits \/ Drain \/ Blocks \/ \E j \in Jobs: Reap(j)
  <2>1. UNCHANGED <<asked, roster, answer, caller>> /\ Running /\ Running'
    BY <1>3 DEF Waits, Drain, Blocks, Reap, Running, callerVars
  <2>2. Answered' = Answered
    BY <2>1 DEF Answered
  <2>3. QED
    BY <2>1, <2>2, Stutters
<1>4. CASE Receive
  <2>1. UNCHANGED <<asked, roster, answer>> /\ Running
    BY <1>4 DEF Receive, Running
  <2>2. Answered' = Answered
    <3>1. CASE UNCHANGED caller
      BY <2>1, <3>1 DEF Answered
    <3>2. CASE caller' = [caller EXCEPT ![Head(queue)] = "gone"]
      <4>1. queue # <<>> /\ main # "failed" /\ queue \in Seq(Jobs)
        BY <1>4 DEF Receive, PoolInv, PoolTypeOK, CallerTypeOK
      <4>2. Head(queue) \in Answered
        BY <4>1, ToSetHead DEF PoolInv, QueueInv
      <4>3. Head(queue) \in asked /\ asked \subseteq Jobs
        BY <4>2 DEF Answered, PoolInv, PoolTypeOK
      <4>4. /\ caller[Head(queue)] # "put" /\ caller'[Head(queue)] # "put"
            /\ \A i \in Jobs: i # Head(queue) => caller'[i] = caller[i]
        BY <3>2, <4>2, <4>3 DEF Answered, PoolInv, PoolTypeOK, CallerTypeOK
      <4>5. \A i \in asked: i \in Answered' <=> i \in Answered
        BY <2>1, <4>3, <4>4 DEF Answered
      <4>6. QED
        BY <2>1, <4>5 DEF Answered
    <3>3. QED
      BY <1>4, <3>1, <3>2 DEF Receive
  <2>3. main' = "failed" \/ main' = main
    BY <1>4 DEF Receive
  <2>4. QED
    BY <2>1, <2>2, <2>3, Stutters, FailsRefines
<1>5. ASSUME NEW j \in Jobs, CallRaises(j) PROVE [Gen!GNext]_(Gen!gvars)
  <2>1. UNCHANGED <<asked, roster, answer, caller>> /\ Running /\ main' = "failed"
    BY <1>5 DEF CallRaises, Running, callerVars
  <2>2. Answered' = Answered
    BY <2>1 DEF Answered
  <2>3. QED
    BY <2>1, <2>2, FailsRefines
<1>6. QED
  BY <1>1, <1>2, <1>3, <1>4, <1>5, RosterRefines DEF MainStep

LEMMA InterruptRefines == ASSUME PoolInv, Interrupt PROVE Gen!GNext
<1>1. Running /\ main' = "failed" /\ UNCHANGED <<asked, roster>> /\ Answered' = Answered
  BY InterruptKeepsPool DEF Interrupt, Running
<1>2. \A j \in Answered: answer'[j] = answer[j]
  <2>1. \A j \in Jobs: answer'[j] = answer[j] \/ (Alive(j) /\ caller[j] # "sent")
    BY DEF Interrupt
  <2>2. \A j \in Answered: j \in Jobs /\ ~(Alive(j) /\ caller[j] # "sent")
    BY DEF Answered, Alive, PoolInv, PoolTypeOK, CallerInv
  <2>3. QED
    BY <2>1, <2>2
<1>3. QED
  BY <1>1, <1>2, FailsRefines

LEMMA CallRefines ==
  ASSUME PoolInv, NEW hosts \in SUBSET Jobs, \A j \in hosts: caller[j] = "none", PoolCall(hosts)
  PROVE  Gen!GNext
<1>1. /\ main \in {"idle", "returned"} /\ main' = "start" /\ asked' \subseteq hosts /\ roster' = {}
      /\ UNCHANGED <<caller, answer>>
  BY DEF PoolCall, GetHosts, callerVars
<1>2. Answered' = {}
  BY <1>1 DEF Answered, PoolInv, CallerInv
<1>3. Spoiled' = {}
  BY <1>2 DEF Spoiled
<1>4. Phase \in {"idle", "returned"} /\ Phase' = "running"
  BY <1>1 DEF Phase
<1>5. Gen!Call
  BY <1>1, <1>2, <1>3, <1>4 DEF Gen!Call
<1>6. QED
  BY <1>5 DEF Gen!GNext

LEMMA PoolStepRefines == ASSUME PoolInv, PoolStep PROVE [Gen!GNext]_(Gen!gvars)
BY PoolStepKeepsPool, JobRefines, MainRefines, InterruptRefines DEF PoolStep, JobStep

-----------------------------------------------------------------------------
(* Types of runs *)

LEMMA SaneType ==
  ASSUME NEW file \in Entries \cup {Torn}, NEW time \in 0 .. MaxClock
  PROVE  /\ Sane(file, time) \in Entries
         /\ IsFresh(Sane(file, time), time)
<1>1. \A j \in Jobs: file # Torn => file[j] \in 0 .. MaxClock
  BY DEF Entries
<1>2. 0 \in 0 .. MaxClock
  BY InventoryAssumption
<1>3. QED
  BY <1>1, <1>2 DEF Sane, Entries, IsFresh

\* Every step of a run keeps these; what else it does to them is said in the lemmas about it.
RunTypeOK ==
    /\ clock \in 1 .. MaxClock
    /\ cache \in Entries \cup {Torn}
    /\ pc \in [Runs -> Over \cup {"first", "load", "ask", "generate", "save", "write"}]
    /\ now \in [Runs -> 0 .. MaxClock]
    /\ targets \in [Runs -> SUBSET Jobs]
    /\ refresh \in [Runs -> BOOLEAN]
    /\ payload \in [Runs -> Entries]
    /\ left \in [Runs -> SUBSET Jobs]
    /\ chunk \in [Runs -> SUBSET Jobs]
    /\ got \in [Runs -> SUBSET Jobs]
    /\ hostvars \in [Runs -> Entries]
    /\ met \in [Runs -> BOOLEAN]
    /\ before \in [Runs -> Entries]

LEMMA SplitType ==
  TypeOK <=> PoolTypeOK /\ RunTypeOK /\ followed \in BOOLEAN /\ size \in ChunkSizes
BY DEF TypeOK, RunTypeOK

LEMMA EntryType == ASSUME NEW e \in Entries, NEW j \in Jobs PROVE e[j] \in 0 .. MaxClock /\ e[j] \in Nat
BY InventoryAssumption DEF Entries

LEMMA UpdatedType ==
  ASSUME NEW a \in Entries, NEW b \in Entries PROVE Updated(a, b) \in Entries
BY EntryType DEF Updated, Entries

LEMMA MergedType == ASSUME RunTypeOK, NEW r \in Runs PROVE Merged(r) \in Entries
BY EntryType DEF Merged, Entries, RunTypeOK

LEMMA BeginsType == ASSUME RunTypeOK, NEW r \in Runs, Begins(r) PROVE RunTypeOK'
<1> USE DEF RunTypeOK
<1>1. clock' \in 1 .. MaxClock /\ clock' \in 0 .. MaxClock
  BY InventoryAssumption DEF Begins
<1>2. before' \in [Runs -> Entries]
  BY <1>1, SaneType DEF Begins
<1>3. PICK hosts \in Targets: targets' = [targets EXCEPT ![r] = hosts]
  BY DEF Begins
<1>4. hosts \in SUBSET Jobs
  BY InventoryAssumption
<1>5. targets' \in [Runs -> SUBSET Jobs]
  BY <1>3, <1>4
<1>6. PICK flag \in BOOLEAN: refresh' = [refresh EXCEPT ![r] = flag]
  BY DEF Begins
<1>7. refresh' \in [Runs -> BOOLEAN]
  BY <1>6
<1>8. met' \in [Runs -> BOOLEAN]
  BY DEF Begins
<1>9. pc' \in [Runs -> Over \cup {"first", "load", "ask", "generate", "save", "write"}]
  BY DEF Begins
<1>10. now' \in [Runs -> 0 .. MaxClock]
  BY <1>1 DEF Begins
<1>11. QED
  BY <1>1, <1>2, <1>5, <1>7, <1>8, <1>9, <1>10 DEF Begins

LEMMA RunStepType ==
  ASSUME RunTypeOK, PoolTypeOK, NEW r \in Runs, RunStep(r) \/ GenerationFails(r) \/ Kill(r)
  PROVE  RunTypeOK'
<1> USE DEF RunTypeOK, Over
<1>1. CASE FirstLoad(r)
  BY <1>1, SaneType DEF FirstLoad
<1>2. CASE Load(r)
  <2> DEFINE data == Sane(cache, now[r])
             wanted == Wanted(r, data)
             rest == [j \in Jobs |-> IF j \in wanted THEN 0 ELSE data[j]]
  <2>1. data \in Entries
    BY SaneType
  <2>2. wanted \in SUBSET Jobs
    BY DEF Wanted
  <2>3. rest \in Entries
    BY <2>1, InventoryAssumption DEF Entries
  <2>4. Updated(hostvars[r], data) \in Entries
    BY <2>1, UpdatedType
  <2> HIDE DEF data, wanted, rest
  <2>5. /\ left' = [left EXCEPT ![r] = wanted] /\ payload' = [payload EXCEPT ![r] = rest]
        /\ pc' = [pc EXCEPT ![r] = "done"] \/ pc' = [pc EXCEPT ![r] = "ask"]
        /\ hostvars' = hostvars \/ hostvars' = [hostvars EXCEPT ![r] = Updated(hostvars[r], data)]
        /\ UNCHANGED <<clock, cache, now, targets, refresh, chunk, got, met, before>>
    BY <1>2 DEF Load, data, wanted, rest
  <2>6. left' \in [Runs -> SUBSET Jobs] /\ payload' \in [Runs -> Entries]
    BY <2>2, <2>3, <2>5
  <2>7. hostvars' \in [Runs -> Entries]
    BY <2>4, <2>5
  <2>8. QED
    BY <2>5, <2>6, <2>7
<1>3. CASE Ask(r)
  <2>1. PICK hosts \in SUBSET left[r]: /\ left' = [left EXCEPT ![r] = @ \ hosts]
                                       /\ chunk' = [chunk EXCEPT ![r] = hosts]
    BY <1>3 DEF Ask
  <2>2. left' \in [Runs -> SUBSET Jobs] /\ chunk' \in [Runs -> SUBSET Jobs]
    BY <2>1
  <2>3. QED
    BY <1>3, <2>2 DEF Ask
<1>4. CASE Receives(r)
  <2>1. PICK hosts \in Returned(r): got' = [got EXCEPT ![r] = @ \cup hosts]
    BY <1>4 DEF Receives
  <2>2. hosts \subseteq Jobs
    BY DEF Returned, PoolTypeOK
  <2>3. got' \in [Runs -> SUBSET Jobs]
    BY <2>1, <2>2
  <2>4. QED
    BY <1>4, <2>3 DEF Receives
<1>5. CASE GenerationFails(r)
  BY <1>5 DEF GenerationFails
<1>6. CASE Truncates(r)
  <2>1. Sane(Merged(r), now[r]) \in Entries
    BY MergedType, SaneType
  <2>2. QED
    BY <1>6, <2>1 DEF Truncates
<1>7. CASE Writes(r)
  <2>1. Updated(hostvars[r], payload[r]) \in Entries
    BY UpdatedType
  <2>2. cache' \in Entries \cup {Torn}
    BY <1>7 DEF Writes
  <2>3. QED
    BY <1>7, <2>1, <2>2 DEF Writes
<1>8. CASE Kill(r)
  BY <1>8 DEF Kill
<1>9. QED
  BY <1>1, <1>2, <1>3, <1>4, <1>5, <1>6, <1>7, <1>8 DEF RunStep

-----------------------------------------------------------------------------
(* Runs and generations *)

BaseInv == TypeOK /\ PoolInv /\ RunInv

\* A run that asks salt for some hosts asks for new ones.
LEMMA AskCalls ==
  ASSUME BaseInv, NEW r \in Runs, Ask(r)
  PROVE  \/ ~followed /\ UNCHANGED poolVars
         \/ /\ followed /\ r = Me
            /\ \E hosts \in SUBSET Jobs:
                  /\ hosts \subseteq left[r] /\ \A j \in hosts: caller[j] = "none"
                  /\ left'[r] = left[r] \ hosts /\ chunk'[r] = hosts /\ PoolCall(hosts)
<1>1. pc[r] = "ask"
  BY DEF Ask
<1>2. PICK hosts \in SUBSET left[r]: /\ left' = [left EXCEPT ![r] = @ \ hosts]
                                     /\ chunk' = [chunk EXCEPT ![r] = hosts]
                                     /\ IF followed THEN PoolCall(hosts) ELSE UNCHANGED poolVars
  BY DEF Ask
<1>3. followed => r = Me
  BY <1>1 DEF BaseInv, RunInv
<1>4. left[r] \subseteq Jobs /\ left'[r] = left[r] \ hosts /\ chunk'[r] = hosts
  BY <1>2 DEF BaseInv, TypeOK
<1>5. followed => \A j \in hosts: caller[j] = "none"
  BY <1>1, <1>2, <1>3 DEF BaseInv, RunInv
<1>6. QED
  BY <1>2, <1>3, <1>4, <1>5 DEF BaseInv, TypeOK

LEMMA NextPool == ASSUME BaseInv, [Next]_vars PROVE PoolInv' /\ [Gen!GNext]_(Gen!gvars)
<1>1. CASE UNCHANGED poolVars
  <2>1. UNCHANGED <<mode, width, main, asked, todo, workers, results, roster, killed>>
    BY <1>1 DEF poolVars
  <2>2. UNCHANGED <<timed, caller, salt, printed, answer, queue, torn>>
    BY <1>1 DEF poolVars, callerVars
  <2>3. PoolInv'
    BY <2>1, <2>2 DEF BaseInv, PoolInv, PoolTypeOK, CallerTypeOK, CallerInv, JobsInv, ModeInv, QueueInv,
       Nobody, Alive, Answered
  <2>4. UNCHANGED Gen!gvars
    BY <2>1, <2>2 DEF Gen!gvars, Phase, Spoiled, Answered
  <2>5. QED
    BY <2>3, <2>4
<1>2. CASE Generates
  BY <1>2, PoolStepKeepsPool, PoolStepRefines DEF Generates, BaseInv
<1>3. ASSUME NEW r \in Runs, Ask(r) PROVE PoolInv' /\ [Gen!GNext]_(Gen!gvars)
  <2>1. CASE UNCHANGED poolVars
    BY <1>1, <2>1
  <2>2. CASE \E hosts \in SUBSET Jobs: (\A j \in hosts: caller[j] = "none") /\ PoolCall(hosts)
    BY <2>2, CallKeepsPool, CallRefines DEF BaseInv
  <2>3. QED
    BY <1>3, <2>1, <2>2, AskCalls
<1>4. ASSUME NEW r \in Runs, Begins(r) \/ GenerationFails(r) \/ Kill(r) \/ (RunStep(r) /\ ~Ask(r))
      PROVE UNCHANGED poolVars
  BY <1>4 DEF Begins, GenerationFails, Kill, RunStep, FirstLoad, Load, Receives, Truncates, Writes
<1>5. QED
  BY <1>1, <1>2, <1>3, <1>4 DEF Next, RunStep, vars

LEMMA NextType == ASSUME BaseInv, [Next]_vars PROVE TypeOK'
<1>1. PoolTypeOK'
  BY NextPool DEF PoolInv
<1>2. RunTypeOK /\ PoolTypeOK
  BY SplitType DEF BaseInv
<1>3. RunTypeOK'
  <2>1. CASE UNCHANGED <<clock, cache, runVars>>
    BY <1>2, <2>1 DEF RunTypeOK, runVars
  <2>2. CASE UNCHANGED vars
    BY <2>1, <2>2 DEF vars
  <2>3. CASE Generates
    BY <2>1, <2>3 DEF Generates
  <2>4. QED
    BY <1>2, <2>2, <2>3, BeginsType, RunStepType DEF Next
<1>4. UNCHANGED <<followed, size>>
  BY DEF Next, vars, Generates, Begins, GenerationFails, Kill, RunStep, FirstLoad, Load, Ask, Receives,
     Truncates, Writes
<1>5. QED
  BY <1>1, <1>3, <1>4 DEF BaseInv, TypeOK, RunTypeOK

\* What no step of the pool does.
LEMMA PoolStepSpares ==
  ASSUME PoolInv, PoolStep
  PROVE  /\ asked' = asked
         /\ main = "idle" <=> main' = "idle"
         /\ \A j \in Jobs \ asked: caller'[j] = caller[j]
         /\ \A j \in Jobs: Lost(j) => Lost(j)'
<1> USE DEF PoolInv, PoolTypeOK, CallerTypeOK
<1>1. ASSUME NEW i \in Jobs, JobStep(i)
      PROVE  /\ asked' = asked
             /\ main = "idle" <=> main' = "idle"
             /\ \A j \in Jobs \ asked: caller'[j] = caller[j]
             /\ \A j \in Jobs: Lost(j) => Lost(j)'
  <2>1. /\ UNCHANGED <<main, asked>> /\ killed \subseteq killed'
        /\ \A j \in Jobs: j # i => caller'[j] = caller[j] /\ salt'[j] = salt[j]
        /\ Alive(i) \/ UNCHANGED caller
    BY <1>1, JobMoves
  <2>2. Alive(i) => i \in asked
    BY DEF JobsInv
  <2>3. salt[i] = "none" /\ ~Alive(i) => salt'[i] = "none"
    BY <1>1 DEF JobStep, WorkerStep, CallerStep, Spawn, SpawnFails, Poll, TimesUp, Put, Leave, SaltStep,
       Prints, Ends, SaltHangs, Hangs, KillWorker, KillCaller, Alive
  <2>4. QED
    BY <2>1, <2>2, <2>3 DEF Lost, Alive
<1>2. ASSUME MainStep
      PROVE  /\ asked' = asked /\ killed' = killed /\ salt' = salt
             /\ main = "idle" <=> main' = "idle"
             /\ \A j \in Jobs: \/ caller'[j] = caller[j]
                               \/ j \in asked /\ (caller'[j] = "gone" \/ caller[j] = "none")
  <2>1. ASSUME NEW i \in Jobs, Start(i) PROVE <1>2!2
    BY <2>1 DEF Start, JobsInv
  <2>2. ASSUME NEW i \in Jobs, Called(i) PROVE <1>2!2
    BY <2>2 DEF Called, JobsInv, Alive
  <2>3. CASE Receive
    <3>1. queue # <<>> /\ main # "failed"
      BY <2>3 DEF Receive
    <3>2. Head(queue) \in Answered
      BY <3>1, ToSetHead DEF QueueInv
    <3>3. Head(queue) \in asked
      BY <3>2 DEF Answered
    <3>4. QED
      BY <2>3, <3>3 DEF Receive
  <2>4. CASE Waits \/ Drain \/ Blocks \/ Roster \/ \E j \in Jobs: Reap(j) \/ CallRaises(j)
    BY <2>4 DEF Waits, Drain, Blocks, Roster, Reap, CallRaises, callerVars
  <2>5. QED
    BY <1>2, <2>1, <2>2, <2>3, <2>4 DEF MainStep
<1>3. ASSUME Interrupt
      PROVE  /\ asked' = asked /\ main # "idle" /\ main' # "idle" /\ killed \subseteq killed'
             /\ \A j \in Jobs: caller'[j] = caller[j] \/ (j \in asked /\ caller'[j] = "gone")
             /\ \A j \in Jobs: salt[j] = "none" => salt'[j] = "none"
  BY <1>3 DEF Interrupt
<1>4. CASE MainStep
  BY <1>2, <1>4 DEF Lost
<1>5. CASE Interrupt
  BY <1>3, <1>5 DEF Lost
<1>6. QED
  BY <1>1, <1>4, <1>5 DEF PoolStep, JobStep

LEMMA NextRun == ASSUME BaseInv, [Next]_vars PROVE RunInv'
<1> USE DEF BaseInv, RunInv
<1>1. CASE UNCHANGED vars
  BY <1>1 DEF vars, runVars, poolVars, callerVars
<1>2. CASE Generates
  <2>1. UNCHANGED <<followed, pc, left, chunk>>
    BY <1>2 DEF Generates, runVars
  <2>2. /\ asked' = asked
        /\ main = "idle" <=> main' = "idle"
        /\ \A j \in Jobs \ asked: caller'[j] = caller[j]
    BY <1>2, PoolStepSpares DEF Generates
  <2>3. followed => left[Me] \subseteq Jobs /\ chunk[Me] \subseteq Jobs
    BY InventoryAssumption DEF TypeOK
  <2>4. QED
    BY <2>1, <2>2, <2>3
<1>3. ASSUME NEW r \in Runs, Ask(r) PROVE RunInv'
  <2>1. pc[r] = "ask" /\ pc' = [pc EXCEPT ![r] = "generate"] /\ followed' = followed
    BY <1>3 DEF Ask
  <2>2. CASE ~followed
    BY <1>3, <2>1, <2>2, AskCalls DEF poolVars
  <2>3. CASE followed
    <3>1. r = Me
      BY <2>1, <2>3
    <3>2. PICK hosts \in SUBSET Jobs:
             /\ hosts \subseteq left[Me] /\ left'[Me] = left[Me] \ hosts /\ chunk'[Me] = hosts
             /\ PoolCall(hosts)
      BY <1>3, <2>3, <3>1, AskCalls
    <3>3. asked' \subseteq hosts /\ caller' = caller
      BY <3>2 DEF PoolCall, GetHosts, callerVars
    <3>4. pc'[Me] = "generate" /\ \A o \in Runs \ {Me}: pc'[o] = pc[o]
      BY <2>1, <3>1 DEF TypeOK
    <3>5. QED
      BY <2>1, <2>3, <3>1, <3>2, <3>3, <3>4
  <2>4. QED
    BY <2>2, <2>3
<1>4. ASSUME NEW r \in Runs, Begins(r) \/ GenerationFails(r) \/ Kill(r) \/ (RunStep(r) /\ ~Ask(r))
      PROVE  RunInv'
  <2>1. UNCHANGED <<main, asked, caller, followed, chunk>>
    BY <1>4 DEF Begins, GenerationFails, Kill, RunStep, FirstLoad, Load, Receives, Truncates, Writes,
       poolVars, callerVars
  <2>2. /\ \A o \in Runs: o # r => pc'[o] = pc[o] /\ left'[o] = left[o]
        /\ followed => r = Me
    BY <1>4 DEF Begins, GenerationFails, Kill, RunStep, FirstLoad, Load, Receives, Truncates, Writes, TypeOK, Over
  <2>3. CASE Load(r)
    <3>1. pc[r] = "load" /\ pc'[r] \in {"done", "ask"} /\ left'[r] \in SUBSET Jobs
      BY <2>3, RunStepType DEF Load, TypeOK, Wanted
    <3>2. QED
      BY <2>1, <2>2, <3>1 DEF PoolInv, JobsInv
  <2>4. CASE Begins(r) \/ FirstLoad(r)
    BY <2>1, <2>2, <2>4 DEF Begins, FirstLoad, TypeOK
  <2>5. CASE Receives(r)
    BY <2>1, <2>2, <2>5 DEF Receives, TypeOK
  <2>6. CASE GenerationFails(r) \/ Kill(r) \/ Truncates(r) \/ Writes(r)
    BY <2>1, <2>2, <2>6 DEF GenerationFails, Kill, Truncates, Writes, TypeOK
  <2>7. QED
    BY <1>4, <2>3, <2>4, <2>5, <2>6 DEF RunStep
<1>5. QED
  BY <1>1, <1>2, <1>3, <1>4 DEF Next, RunStep

LEMMA InitBase == ASSUME Init PROVE BaseInv /\ Gen!GInit
<1>1. Answered = {}
  BY DEF Init, PoolInit, CallerInit, Answered
<1>2. PoolTypeOK
  BY EmptySeq DEF Init, PoolInit, CallerInit, PoolTypeOK, CallerTypeOK
<1>3. CallerInv /\ JobsInv /\ ModeInv
  BY DEF Init, PoolInit, CallerInit, CallerInv, JobsInv, ModeInv, Alive, Nobody
<1>4. QueueInv
  BY <1>1, ToSetEmpty DEF Init, PoolInit, CallerInit, QueueInv
<1>5. RunInv
  BY InventoryAssumption DEF Init, PoolInit, RunInv
<1>6. /\ 0 \in 0 .. MaxClock /\ 1 \in 1 .. MaxClock /\ None \in Entries
      /\ Caches \subseteq Entries \cup {Torn}
  <2>1. MaxClock \in Nat \ {0}
    BY InventoryAssumption
  <2>2. [Jobs -> 0 .. 1] \subseteq Entries
    BY <2>1 DEF Entries
  <2>3. QED
    BY <2>1, <2>2, InventoryAssumption DEF None, Entries, Torn
<1>7. TypeOK
  BY <1>2, <1>6 DEF Init, TypeOK, Over
<1>8. Gen!GInit
  BY <1>1 DEF Init, PoolInit, Gen!GInit, Phase, Spoiled
<1>9. QED
  BY <1>2, <1>3, <1>4, <1>5, <1>7, <1>8 DEF BaseInv, PoolInv

LEMMA NextBase == ASSUME BaseInv, [Next]_vars PROVE BaseInv'
BY NextPool, NextType, NextRun DEF BaseInv

\* The types of the inventory and of its pool.
THEOREM TypeCorrect == Spec => []TypeOK
<1>1. Init => BaseInv
  BY InitBase
<1>2. BaseInv /\ [Next]_vars => BaseInv'
  BY NextBase
<1>3. BaseInv => TypeOK
  BY DEF BaseInv
<1>4. QED
  BY <1>1, <1>2, <1>3, PTL DEF Spec

\* The pool returns exactly the answers there are, or fails, however its jobs are run.
THEOREM GenerationIsImplemented == Spec => PoolImplementsGeneration
<1>1. Init => BaseInv /\ Gen!GInit
  BY InitBase
<1>2. BaseInv /\ [Next]_vars => BaseInv'
  BY NextBase
<1>3. BaseInv /\ [Next]_vars => [Gen!GNext]_(Gen!gvars)
  BY NextPool
<1>4. QED
  BY <1>1, <1>2, <1>3, PTL DEF Spec, PoolImplementsGeneration, Gen!GSpec

\* A generation that returns leaves no salt-call at work, but those of killed workers.
THEOREM NoneAreOrphans == Spec => []NoOrphans
<1>1. Init => BaseInv
  BY InitBase
<1>2. BaseInv /\ [Next]_vars => BaseInv'
  BY NextBase
<1>3. BaseInv => NoOrphans
  BY DEF BaseInv, PoolInv, PoolTypeOK, CallerTypeOK, CallerInv, JobsInv, ModeInv, Nobody, Alive, NoOrphans
<1>4. QED
  BY <1>1, <1>2, <1>3, PTL DEF Spec

-----------------------------------------------------------------------------
(* How many salt-calls are at work.  Whatever is done with the workers the main process waits for, *)
(* those alive are among them until the generation fails, and no more are alive afterwards.       *)

Living == {j \in Jobs: Alive(j)}

WidthInv ==
    /\ IsFiniteSet(workers) /\ Cardinality(workers) <= width
    /\ mode # "sequential" => IsFiniteSet(Living) /\ Cardinality(Living) <= width

LEMMA Fewer ==
  ASSUME NEW S, NEW T \in SUBSET S, IsFiniteSet(S), width \in Nat, Cardinality(S) <= width
  PROVE  IsFiniteSet(T) /\ Cardinality(T) <= width
BY FS_Subset, FS_CardinalityType

\* While the main process waits for whoever is alive, its workers are all that count.
LEMMA WorkersAreEnough ==
  ASSUME PoolInv, main # "failed", IsFiniteSet(workers), Cardinality(workers) <= width
  PROVE  WidthInv
<1>1. mode # "sequential" => Living \subseteq workers
  BY DEF PoolInv, ModeInv, Living
<1>2. width \in Nat
  BY PoolAssumption DEF PoolInv, PoolTypeOK
<1>3. QED
  BY <1>1, <1>2, Fewer DEF WidthInv

LEMMA StartKeepsWidth ==
  ASSUME PoolInv, PoolInv', WidthInv, NEW j \in Jobs, Start(j) PROVE WidthInv'
<1>1. /\ Cardinality(workers) < width /\ width' = width /\ width \in Nat
      /\ workers' = workers \/ workers' = workers \cup {j}
      /\ main' # "failed"
  BY PoolAssumption DEF Start, PoolInv, PoolTypeOK
<1>2. IsFiniteSet(workers) /\ Cardinality(workers) \in Nat
  BY FS_CardinalityType DEF WidthInv
<1>3. IsFiniteSet(workers \cup {j}) /\ Cardinality(workers \cup {j}) <= width
  <2>1. CASE j \in workers
    <3>1. workers \cup {j} = workers
      BY <2>1
    <3>2. QED
      BY <1>1, <1>2, <3>1
  <2>2. CASE j \notin workers
    <3>1. /\ IsFiniteSet(workers \cup {j})
          /\ Cardinality(workers \cup {j}) = Cardinality(workers) + 1
      BY <1>2, <2>2, FS_AddElement
    <3>2. Cardinality(workers) + 1 <= width
      BY <1>1, <1>2
    <3>3. QED
      BY <3>1, <3>2
  <2>3. QED
    BY <2>1, <2>2
<1>4. IsFiniteSet(workers') /\ Cardinality(workers') <= width
  BY <1>1, <1>2, <1>3
<1>5. mode' # "sequential" => Living' \subseteq workers'
  BY <1>1 DEF PoolInv, ModeInv, Living
<1>6. mode' # "sequential" => IsFiniteSet(Living') /\ Cardinality(Living') <= width
  BY <1>1, <1>4, <1>5, Fewer
<1>7. QED
  BY <1>1, <1>4, <1>6 DEF WidthInv

\* No other step adds a worker, or gives life to a job.
LEMMA OthersKeepWidth ==
  ASSUME PoolInv, PoolInv', WidthInv, UNCHANGED <<mode, width>>, workers' \subseteq workers,
         \A j \in Jobs: Alive(j)' => Alive(j)
  PROVE  WidthInv'
<1>1. width \in Nat /\ Living' \subseteq Living
  BY PoolAssumption DEF PoolInv, PoolTypeOK, Living
<1>2. IsFiniteSet(workers') /\ Cardinality(workers') <= width
  BY <1>1, Fewer DEF WidthInv
<1>3. mode # "sequential" => IsFiniteSet(Living') /\ Cardinality(Living') <= width
  BY <1>1, Fewer DEF WidthInv
<1>4. QED
  BY <1>2, <1>3 DEF WidthInv

LEMMA OthersAddNobody ==
  ASSUME PoolInv, PoolStep, \A j \in Jobs: ~Start(j)
  PROVE  /\ UNCHANGED <<mode, width>> /\ workers' \subseteq workers
         /\ \A j \in Jobs: Alive(j)' => Alive(j)
<1> USE DEF PoolInv, PoolTypeOK, CallerTypeOK, Alive
<1>1. ASSUME NEW j \in Jobs, JobStep(j)
      PROVE  UNCHANGED <<mode, width, workers>> /\ \A i \in Jobs: Alive(i)' => Alive(i)
  <2>1. UNCHANGED <<mode, width, workers>> /\ \A i \in Jobs: i # j => caller'[i] = caller[i]
    BY <1>1, JobMoves
  <2>2. Alive(j) \/ UNCHANGED caller
    BY <1>1, JobMoves
  <2>3. QED
    BY <2>1, <2>2
<1>2. CASE Waits \/ Drain \/ Blocks \/ Roster
  BY <1>2 DEF Waits, Drain, Blocks, Roster, callerVars
<1>3. CASE Receive
  BY <1>3 DEF Receive
<1>4. ASSUME NEW j \in Jobs, Reap(j) \/ Called(j) \/ CallRaises(j)
      PROVE  /\ UNCHANGED <<mode, width>> /\ workers' \subseteq workers
             /\ \A i \in Jobs: Alive(i)' => Alive(i)
  BY <1>4 DEF Reap, Called, CallRaises, callerVars
<1>5. CASE Interrupt
  <2>1. UNCHANGED <<mode, width>> /\ workers' = {}
    BY <1>5 DEF Interrupt
  <2>2. \A j \in Jobs: caller'[j] \in {"gone", caller[j]}
    BY <1>5 DEF Interrupt
  <2>3. QED
    BY <2>1, <2>2
<1>6. QED
  BY <1>1, <1>2, <1>3, <1>4, <1>5 DEF PoolStep, MainStep, JobStep

LEMMA CallKeepsWidth ==
  ASSUME PoolInv, PoolInv', WidthInv, NEW hosts \in SUBSET Jobs, PoolCall(hosts) PROVE WidthInv'
<1>1. UNCHANGED <<mode, width>> /\ workers' = {} /\ \A j \in Jobs: Alive(j)' => Alive(j)
  BY DEF PoolCall, callerVars, Alive
<1>2. QED
  BY <1>1, OthersKeepWidth

LEMMA NextWidth == ASSUME BaseInv, WidthInv, [Next]_vars PROVE WidthInv'
<1>1. PoolInv /\ PoolInv'
  BY NextPool DEF BaseInv
<1>2. CASE UNCHANGED poolVars
  BY <1>2 DEF poolVars, callerVars, WidthInv, Living, Alive
<1>3. CASE Generates
  BY <1>1, <1>3, StartKeepsWidth, OthersKeepWidth, OthersAddNobody DEF Generates
<1>4. ASSUME NEW r \in Runs, Ask(r) PROVE WidthInv'
  BY <1>1, <1>2, <1>4, AskCalls, CallKeepsWidth
<1>5. ASSUME NEW r \in Runs, Begins(r) \/ GenerationFails(r) \/ Kill(r) \/ (RunStep(r) /\ ~Ask(r))
      PROVE UNCHANGED poolVars
  BY <1>5 DEF Begins, GenerationFails, Kill, RunStep, FirstLoad, Load, Receives, Truncates, Writes
<1>6. QED
  BY <1>2, <1>3, <1>4, <1>5 DEF Next, RunStep, vars

LEMMA InitWidth == ASSUME Init PROVE WidthInv
<1>1. BaseInv
  BY InitBase
<1>2. main # "failed" /\ workers = {} /\ width \in Nat
  BY PoolAssumption DEF Init, PoolInit
<1>3. IsFiniteSet(workers) /\ Cardinality(workers) <= width
  BY <1>2, FS_EmptySet
<1>4. QED
  BY <1>1, <1>2, <1>3, WorkersAreEnough DEF BaseInv

\* The salt-calls at work are those of living workers, or of killed ones.
LEMMA WorkIsAlive == ASSUME PoolInv PROVE AtWork \subseteq Living
BY DEF PoolInv, PoolTypeOK, CallerTypeOK, CallerInv, Alive, AtWork, Living

\* No more salt-calls than there may be, in batches that succeed and in those that fail.
THEOREM WidthsAreRespected == Spec => []WidthIsRespected
<1>1. Init => BaseInv /\ WidthInv
  BY InitBase, InitWidth
<1>2. BaseInv /\ WidthInv /\ [Next]_vars => BaseInv' /\ WidthInv'
  BY NextBase, NextWidth
<1>3. BaseInv /\ WidthInv => WidthIsRespected
  <2> SUFFICES ASSUME BaseInv, WidthInv PROVE WidthIsRespected
    OBVIOUS
  <2>1. AtWork \subseteq Living /\ width \in Nat
    BY WorkIsAlive, PoolAssumption DEF BaseInv, PoolInv, PoolTypeOK
  <2>2. CASE mode = "sequential"
    <3>1. \A i, j \in AtWork: i = j
      BY <2>1, <2>2 DEF BaseInv, PoolInv, ModeInv, Living
    <3>2. CASE AtWork = {}
      BY <2>2, <3>2, FS_EmptySet DEF WidthIsRespected
    <3>3. ASSUME NEW j \in AtWork PROVE WidthIsRespected
      <4>1. AtWork = {j}
        BY <3>1, <3>3
      <4>2. Cardinality(AtWork) = 1
        BY <4>1, FS_Singleton
      <4>3. QED
        BY <2>2, <4>2 DEF WidthIsRespected
    <3>4. QED
      BY <3>2, <3>3
  <2>3. CASE mode # "sequential"
    <3>1. IsFiniteSet(Living) /\ Cardinality(Living) <= width
      BY <2>3 DEF WidthInv
    <3>2. Cardinality(AtWork) <= width
      BY <2>1, <3>1, Fewer
    <3>3. QED
      BY <2>3, <3>2 DEF WidthIsRespected
  <2>4. QED
    BY <2>2, <2>3
<1>4. QED
  BY <1>1, <1>2, <1>3, PTL DEF Spec

-----------------------------------------------------------------------------
(* What a run holds is fresh. *)

LEMMA UpdatedFresh ==
  ASSUME NEW a \in Entries, NEW b \in Entries, NEW t, IsFresh(a, t), IsFresh(b, t)
  PROVE  IsFresh(Updated(a, b), t)
BY DEF IsFresh, Updated

LEMMA SaneFresh ==
  ASSUME NEW file, NEW t PROVE IsFresh(Sane(file, t), t)
BY DEF Sane, IsFresh

RunMoves(r) == Begins(r) \/ RunStep(r) \/ GenerationFails(r) \/ Kill(r)

LEMMA NextIs ==
  ASSUME [Next]_vars
  PROVE  \/ UNCHANGED <<followed, size, clock, cache, runVars>> /\ (PoolStep \/ UNCHANGED poolVars)
         \/ \E r \in Runs: RunMoves(r)
BY DEF Next, vars, Generates, RunMoves

\* A step of one run leaves the others alone, but for met.
LEMMA OthersStay ==
  ASSUME TypeOK, NEW r \in Runs, RunMoves(r), NEW o \in Runs, o # r
  PROVE  /\ pc'[o] = pc[o] /\ now'[o] = now[o] /\ targets'[o] = targets[o] /\ refresh'[o] = refresh[o]
         /\ payload'[o] = payload[o] /\ left'[o] = left[o] /\ chunk'[o] = chunk[o] /\ got'[o] = got[o]
         /\ hostvars'[o] = hostvars[o] /\ before'[o] = before[o]
<1>1. CASE Begins(r)
  BY <1>1 DEF TypeOK, Begins
<1>2. CASE FirstLoad(r) \/ Load(r) \/ Ask(r)
  BY <1>2 DEF TypeOK, FirstLoad, Load, Ask
<1>3. CASE Receives(r) \/ GenerationFails(r) \/ Truncates(r) \/ Writes(r) \/ Kill(r)
  BY <1>3 DEF TypeOK, Receives, GenerationFails, Truncates, Writes, Kill
<1>4. QED
  BY <1>1, <1>2, <1>3 DEF RunMoves, RunStep

LEMMA FreshMoves ==
  ASSUME TypeOK, TypeOK', FreshInv, NEW r \in Runs, RunMoves(r) PROVE FreshRun(r)'
<1> USE DEF FreshRun
<1>0. FreshRun(r)
  BY DEF FreshInv
<1>1. CASE Begins(r)
  <2>1. /\ pc[r] = "idle" /\ pc'[r] = "first" /\ now'[r] = clock' /\ before'[r] = Sane(cache, clock')
        /\ UNCHANGED <<hostvars, payload>>
    BY <1>1 DEF Begins, TypeOK
  <2>2. clock' # 0
    BY InventoryAssumption DEF TypeOK
  <2>3. IsFresh(None, now'[r])
    BY DEF IsFresh, None
  <2>4. QED
    BY <1>0, <2>1, <2>2, <2>3, SaneFresh
<1>2. CASE FirstLoad(r)
  BY <1>0, <1>2, SaneFresh DEF FirstLoad, TypeOK
<1>3. CASE Load(r)
  <2> DEFINE data == Sane(cache, now[r])
             wanted == Wanted(r, data)
             rest == [j \in Jobs |-> IF j \in wanted THEN 0 ELSE data[j]]
  <2>1. data \in Entries /\ IsFresh(data, now[r])
    BY SaneType DEF TypeOK
  <2>2. IsFresh(rest, now[r])
    BY <2>1 DEF IsFresh
  <2> HIDE DEF data, wanted, rest
  <2>3. /\ pc[r] = "load" /\ pc'[r] \in {"done", "ask"} /\ payload'[r] = rest
        /\ hostvars'[r] = hostvars[r] \/ hostvars'[r] = Updated(hostvars[r], data)
        /\ UNCHANGED <<now, before>>
    BY <1>3 DEF Load, TypeOK, data, wanted, rest
  <2>4. IsFresh(hostvars[r], now[r]) /\ IsFresh(before[r], now[r]) /\ now[r] # 0
    BY <1>0, <2>3
  <2>5. IsFresh(Updated(hostvars[r], data), now[r])
    BY <2>1, <2>4, UpdatedFresh DEF TypeOK
  <2>6. IsFresh(hostvars'[r], now[r])
    BY <2>3, <2>4, <2>5
  <2>7. QED
    BY <2>2, <2>3, <2>4, <2>6
<1>4. CASE Ask(r) \/ Receives(r) \/ GenerationFails(r) \/ Kill(r)
  BY <1>0, <1>4 DEF Ask, Receives, GenerationFails, Kill, TypeOK, Over
<1>5. CASE Truncates(r)
  BY <1>0, <1>5, SaneFresh DEF Truncates, TypeOK
<1>6. CASE Writes(r)
  <2>1. /\ pc[r] = "write" /\ pc'[r] = "done" /\ hostvars'[r] = Updated(hostvars[r], payload[r])
        /\ UNCHANGED <<now, before, payload>>
    BY <1>6 DEF Writes, TypeOK
  <2>2. IsFresh(hostvars[r], now[r]) /\ IsFresh(payload[r], now[r])
    BY <1>0, <2>1
  <2>3. IsFresh(Updated(hostvars[r], payload[r]), now[r])
    BY <2>2, UpdatedFresh DEF TypeOK
  <2>4. QED
    BY <1>0, <2>1, <2>2, <2>3
<1>7. QED
  BY <1>1, <1>2, <1>3, <1>4, <1>5, <1>6 DEF RunMoves, RunStep

LEMMA NextFresh == ASSUME TypeOK, TypeOK', FreshInv, [Next]_vars PROVE FreshInv'
<1>1. CASE UNCHANGED runVars
  BY <1>1 DEF runVars, FreshInv, FreshRun
<1>2. ASSUME NEW r \in Runs, RunMoves(r), NEW o \in Runs PROVE FreshRun(o)'
  <2>1. CASE o = r
    BY <1>2, <2>1, FreshMoves
  <2>2. CASE o # r
    BY <1>2, <2>2, OthersStay DEF FreshInv, FreshRun
  <2>3. QED
    BY <2>1, <2>2
<1>3. QED
  BY <1>1, <1>2, NextIs DEF FreshInv

LEMMA InitFresh == ASSUME Init PROVE FreshInv
BY DEF Init, FreshInv, FreshRun

\* No variables in the output of a run have expired.
THEOREM OutputsAreFresh == Spec => []OutputIsFresh
<1>1. Init => BaseInv /\ FreshInv
  BY InitBase, InitFresh
<1>2. BaseInv /\ FreshInv /\ [Next]_vars => BaseInv' /\ FreshInv'
  BY NextBase, NextFresh DEF BaseInv
<1>3. FreshInv => OutputIsFresh
  BY DEF FreshInv, FreshRun, IsFresh, Valid, OutputIsFresh
<1>4. QED
  BY <1>1, <1>2, <1>3, PTL DEF Spec

-----------------------------------------------------------------------------
(* Every target is in the output or lost. *)

LEMMA EntriesAreWhole == ASSUME NEW e \in Entries, NEW j \in Jobs PROVE e # Torn
<1>1. DOMAIN e = Jobs /\ DOMAIN Torn = {}
  BY DEF Entries, Torn
<1>2. QED
  BY <1>1

\* What Truncates puts into the payload: nothing that it has is too old to be kept.
LEMMA MergedIsSane ==
  ASSUME TypeOK, FreshInv, NEW r \in Runs, pc[r] = "save", NEW j \in Jobs
  PROVE  Sane(Merged(r), now[r])[j] = IF j \in got[r] THEN now[r] ELSE payload[r][j]
<1>1. Merged(r) \in Entries
  BY MergedType DEF TypeOK, RunTypeOK
<1>2. Merged(r) # Torn
  BY <1>1, EntriesAreWhole
<1>3. Valid(now[r], now[r])
  BY InventoryAssumption DEF TypeOK, Valid
<1>4. payload[r][j] = 0 \/ Valid(payload[r][j], now[r])
  BY DEF FreshInv, FreshRun, IsFresh
<1>5. QED
  BY <1>2, <1>3, <1>4 DEF Sane, Merged

\* A host of the generation that has returned, and that is not in the roster.
LEMMA MissingIsLost ==
  ASSUME PoolInv, main = "returned", NEW j \in asked, j \notin roster PROVE Lost(j)
<1>1. todo = {} /\ Nobody /\ queue = <<>> /\ roster = results /\ Answered = results
  BY ToSetEmpty DEF PoolInv, ModeInv, QueueInv
<1>2. j \in Jobs /\ caller[j] = "gone"
  BY <1>1 DEF PoolInv, PoolTypeOK, CallerTypeOK, JobsInv, Nobody, Alive
<1>3. answer[j] = "none"
  BY <1>1, <1>2 DEF Answered
<1>4. QED
  BY <1>2, <1>3 DEF PoolInv, CallerInv, Lost

LEMMA AccountedMoves ==
  ASSUME BaseInv, FreshInv, AccountedInv, followed, RunMoves(Me) PROVE AccountedInv'
<1> USE DEF AccountedInv
<1>0. Me \in Runs /\ targets[Me] \subseteq Jobs /\ TypeOK /\ followed' = followed
  BY InventoryAssumption
     DEF BaseInv, TypeOK, RunMoves, Begins, RunStep, FirstLoad, Load, Ask, Receives, GenerationFails,
         Truncates, Writes, Kill
<1>1. CASE Begins(Me) \/ FirstLoad(Me) \/ GenerationFails(Me) \/ Kill(Me)
  <2>1. pc'[Me] \in {"first", "load", "failed", "killed"}
    BY <1>0, <1>1 DEF Begins, FirstLoad, GenerationFails, Kill, TypeOK
  <2>2. QED
    BY <2>1
<1>2. CASE Load(Me)
  <2> DEFINE data == Sane(cache, now[Me])
             wanted == Wanted(Me, data)
             rest == [j \in Jobs |-> IF j \in wanted THEN 0 ELSE data[j]]
  <2>1. \A j \in targets[Me]: j \in wanted \/ (data[j] # 0 /\ ~refresh[Me])
    BY DEF Wanted
  <2>2. \A j \in Jobs: j \notin wanted => rest[j] = data[j]
    OBVIOUS
  <2> HIDE DEF data, wanted, rest
  <2>3. /\ left'[Me] = wanted /\ payload'[Me] = rest /\ UNCHANGED <<targets, refresh>>
        /\ \/ wanted = {} /\ pc'[Me] = "done" /\ hostvars'[Me] = Updated(hostvars[Me], data)
           \/ pc'[Me] = "ask"
    BY <1>0, <1>2 DEF Load, TypeOK, data, wanted, rest
  <2>4. CASE pc'[Me] = "ask"
    BY <1>0, <2>1, <2>2, <2>3, <2>4
  <2>5. CASE wanted = {} /\ pc'[Me] = "done" /\ hostvars'[Me] = Updated(hostvars[Me], data)
    <3>1. \A j \in targets[Me]: hostvars'[Me][j] # 0 /\ ~refresh[Me]
      BY <1>0, <2>1, <2>5 DEF Updated
    <3>2. QED
      BY <2>3, <2>5, <3>1
  <2>6. QED
    BY <2>3, <2>4, <2>5
<1>3. CASE Ask(Me)
  <2>1. /\ pc[Me] = "ask" /\ pc'[Me] = "generate"
        /\ UNCHANGED <<targets, refresh, payload, got>>
    BY <1>0, <1>3 DEF Ask, TypeOK
  <2>2. PICK hosts \in SUBSET Jobs:
           hosts \subseteq left[Me] /\ left'[Me] = left[Me] \ hosts /\ chunk'[Me] = hosts /\ PoolCall(hosts)
    BY <1>0, <1>3, AskCalls
  <2>3. \A j \in Jobs: Missed(j) => Missed(j)'
    BY <2>2 DEF Missed, Lost, Dropped, PoolCall, GetHosts, callerVars
  <2>4. QED
    BY <1>0, <2>1, <2>2, <2>3
<1>4. CASE Receives(Me)
  <2>1. /\ pc[Me] = "generate" /\ main = "returned" /\ got'[Me] = got[Me] \cup roster
        /\ pc'[Me] = IF left[Me] = {} THEN "save" ELSE "ask"
        /\ UNCHANGED <<targets, refresh, payload, left>>
    BY <1>0, <1>4 DEF Receives, Returned, TypeOK
  <2>2. UNCHANGED <<asked, caller, salt, killed>>
    BY <1>4 DEF Receives, poolVars, callerVars
  <2>3. \A j \in chunk[Me]: j \in asked \/ Dropped(j)
    BY <1>0, <2>1 DEF BaseInv, RunInv, Dropped
  <2>4. \A j \in asked: j \in roster \/ Lost(j)
    BY <2>1, MissingIsLost DEF BaseInv
  <2>5. \A j \in Jobs: Missed(j) => Missed(j)'
    BY <2>1, <2>2 DEF Missed, Lost, Dropped
  <2>6. QED
    BY <1>0, <2>1, <2>3, <2>4, <2>5 DEF Missed
<1>5. CASE Truncates(Me)
  <2>1. /\ pc[Me] = "save" /\ pc'[Me] = "write" /\ payload'[Me] = Sane(Merged(Me), now[Me])
        /\ UNCHANGED <<now, targets, refresh, left>>
    BY <1>0, <1>5 DEF Truncates, TypeOK
  <2>2. UNCHANGED <<asked, caller, salt, killed>>
    BY <1>5 DEF Truncates, poolVars, callerVars
  <2>3. now[Me] # 0
    BY <1>0, <2>1 DEF FreshInv, FreshRun
  <2>4. \A j \in targets[Me]: payload'[Me][j] = IF j \in got[Me] THEN now[Me] ELSE payload[Me][j]
    BY <1>0, <2>1, MergedIsSane
  <2>5. \A j \in Jobs: Missed(j) => Missed(j)'
    BY <2>1, <2>2 DEF Missed, Lost, Dropped
  <2>6. QED
    BY <1>0, <2>1, <2>3, <2>4, <2>5
<1>6. CASE Writes(Me)
  <2>1. /\ pc[Me] = "write" /\ pc'[Me] = "done"
        /\ hostvars'[Me] = Updated(hostvars[Me], payload[Me])
        /\ UNCHANGED <<now, targets, refresh, left>>
    BY <1>0, <1>6 DEF Writes, TypeOK
  <2>2. UNCHANGED <<asked, caller, salt, killed>>
    BY <1>6 DEF Writes, poolVars, callerVars
  <2>3. \A j \in targets[Me]: payload[Me][j] # 0 => hostvars'[Me][j] = payload[Me][j]
    BY <1>0, <2>1 DEF Updated
  <2>4. \A j \in Jobs: Missed(j) => Missed(j)'
    BY <2>1, <2>2 DEF Missed, Lost, Dropped
  <2>5. QED
    BY <1>0, <2>1, <2>3, <2>4
<1>7. QED
  BY <1>1, <1>2, <1>3, <1>4, <1>5, <1>6 DEF RunMoves, RunStep

LEMMA OnlyMeMoves ==
  ASSUME BaseInv, followed, NEW r \in Runs, RunMoves(r) PROVE r = Me
BY DEF BaseInv, RunInv, RunMoves, RunStep, Begins, FirstLoad, Load, Ask, Receives, GenerationFails,
       Truncates, Writes, Kill, Over

LEMMA NextAccounted == ASSUME BaseInv, FreshInv, AccountedInv, [Next]_vars PROVE AccountedInv'
<1>1. CASE UNCHANGED <<followed, runVars>> /\ (PoolStep \/ UNCHANGED poolVars)
  <2>1. \A j \in Jobs: Missed(j) => Missed(j)'
    BY <1>1, PoolStepSpares DEF BaseInv, Missed, Lost, Dropped, poolVars, callerVars, runVars
  <2>2. targets[Me] \subseteq Jobs
    BY InventoryAssumption DEF BaseInv, TypeOK
  <2>3. QED
    BY <1>1, <2>1, <2>2 DEF AccountedInv, runVars
<1>2. ASSUME NEW r \in Runs, RunMoves(r) PROVE AccountedInv'
  <2>1. CASE followed
    BY <1>2, <2>1, OnlyMeMoves, AccountedMoves
  <2>2. CASE ~followed
    BY <1>2, <2>2
       DEF AccountedInv, RunMoves, Begins, RunStep, FirstLoad, Load, Ask, Receives, GenerationFails,
           Truncates, Writes, Kill
  <2>3. QED
    BY <2>1, <2>2
<1>3. QED
  BY <1>1, <1>2, NextIs

LEMMA InitAccounted == ASSUME Init PROVE AccountedInv
BY InventoryAssumption DEF Init, AccountedInv

\* A run that is done has the variables of its targets, but for the hosts that no module lists, whose
\* salt-call could not be launched or whose worker was killed.
THEOREM TargetsAreAccounted == Spec => []TargetsAreAccountedFor
<1>1. Init => BaseInv /\ FreshInv /\ AccountedInv
  BY InitBase, InitFresh, InitAccounted
<1>2. BaseInv /\ FreshInv /\ AccountedInv /\ [Next]_vars => BaseInv' /\ FreshInv' /\ AccountedInv'
  BY NextBase, NextFresh, NextAccounted DEF BaseInv
<1>3. BaseInv /\ AccountedInv => TargetsAreAccountedFor
  BY InventoryAssumption
     DEF BaseInv, TypeOK, PoolInv, CallerInv, AccountedInv, TargetsAreAccountedFor, Missed, Lost, Dropped
<1>4. QED
  BY <1>1, <1>2, <1>3, PTL DEF Spec

-----------------------------------------------------------------------------
(* The cache of a run that is alone *)

LEMMA AloneMoves ==
  ASSUME BaseInv, FreshInv, NEW r \in Runs, RunMoves(r), Active(r)', ~met'[r],
         Active(r) => Alone(r) /\ ~met[r]
  PROVE  Alone(r)'
<1> USE DEF Alone
<1>0. TypeOK
  BY DEF BaseInv
<1>1. CASE Begins(r)
  <2>1. /\ pc[r] = "idle" /\ pc'[r] = "first" /\ now'[r] = clock' /\ before'[r] = Sane(cache, clock')
        /\ UNCHANGED <<cache, got>>
    BY <1>0, <1>1 DEF Begins, TypeOK
  <2>2. Sane(cache, now[r])' = before'[r]
    BY <2>1 DEF Sane
  <2>3. got[r] = {}
    BY <2>1 DEF FreshInv, FreshRun
  <2>4. QED
    BY <2>1, <2>2, <2>3
<1>2. ASSUME ~Begins(r)
      PROVE  Active(r) /\ Alone(r) /\ UNCHANGED <<now, targets, refresh, before>>
  BY <1>2 DEF RunMoves, RunStep, FirstLoad, Load, Ask, Receives, GenerationFails, Truncates, Writes, Kill,
     Active, Over
<1>3. ASSUME cache' = cache, now' = now PROVE Sane(cache, now[r])' = Sane(cache, now[r])
  BY <1>3 DEF Sane
<1>4. CASE FirstLoad(r)
  <2>1. pc[r] = "first" /\ pc'[r] = "load" /\ UNCHANGED <<cache, now, before, got>>
    BY <1>0, <1>4 DEF FirstLoad, TypeOK
  <2>2. Active(r) /\ Alone(r)
    BY <2>1 DEF Active, Over
  <2>3. QED
    BY <1>3, <2>1, <2>2
<1>5. CASE Load(r)
  <2> DEFINE data == Sane(cache, now[r])
             wanted == Wanted(r, data)
             rest == [j \in Jobs |-> IF j \in wanted THEN 0 ELSE data[j]]
  <2>1. pc[r] = "load" /\ UNCHANGED <<cache, now, targets, refresh, before, got>>
    BY <1>5 DEF Load
  <2>2. Active(r) /\ Alone(r)
    BY <2>1 DEF Active, Over
  <2>3. data = before[r] /\ got[r] = {}
    BY <2>1, <2>2
  <2>4. \A j \in Jobs: rest[j] = IF j \in targets[r] /\ refresh[r] THEN 0 ELSE before[r][j]
    BY <2>3 DEF Wanted
  <2>5. wanted \subseteq targets[r]
    BY DEF Wanted
  <2> HIDE DEF data, wanted, rest
  <2>6. left'[r] = wanted /\ payload'[r] = rest /\ pc'[r] \in {"ask", "done"}
    BY <1>0, <1>5 DEF Load, TypeOK, data, wanted, rest
  <2>7. pc'[r] = "ask"
    BY <2>6 DEF Active, Over
  <2>8. Sane(cache, now[r])' = before'[r]
    BY <1>3, <2>1, <2>3 DEF data
  <2>9. QED
    BY <2>1, <2>3, <2>4, <2>5, <2>6, <2>7, <2>8
<1>6. CASE Ask(r)
  <2>1. /\ pc[r] = "ask" /\ pc'[r] = "generate" /\ left'[r] \subseteq left[r] /\ chunk'[r] \subseteq left[r]
        /\ UNCHANGED <<cache, now, targets, refresh, before, got, payload>>
    BY <1>0, <1>6 DEF Ask, TypeOK
  <2>2. Active(r) /\ Alone(r)
    BY <2>1 DEF Active, Over
  <2>3. QED
    BY <1>3, <2>1, <2>2
<1>7. CASE Receives(r)
  <2>1. /\ pc[r] = "generate" /\ pc'[r] \in {"save", "ask"}
        /\ UNCHANGED <<cache, now, targets, refresh, before, payload, left>>
    BY <1>0, <1>7 DEF Receives, TypeOK
  <2>2. PICK hosts \in Returned(r): got' = [got EXCEPT ![r] = @ \cup hosts]
    BY <1>7 DEF Receives
  <2>3. followed => r = Me
    BY <1>0, OnlyMeMoves
  <2>4. followed => asked \subseteq chunk[r]
    BY <2>1, <2>3 DEF BaseInv, RunInv
  <2>5. roster \subseteq asked
    BY DEF BaseInv, PoolInv, PoolTypeOK
  <2>6. hosts \subseteq chunk[r]
    BY <2>2, <2>4, <2>5 DEF Returned
  <2>7. got'[r] = got[r] \cup hosts
    BY <1>0, <2>2 DEF TypeOK
  <2>8. Active(r) /\ Alone(r)
    BY <2>1 DEF Active, Over
  <2>9. QED
    BY <1>3, <2>1, <2>6, <2>7, <2>8
<1>8. CASE Truncates(r)
  <2>1. /\ pc[r] = "save" /\ pc'[r] = "write" /\ cache' = Torn
        /\ payload'[r] = Sane(Merged(r), now[r]) /\ UNCHANGED <<now, targets, refresh, got, before>>
    BY <1>0, <1>8 DEF Truncates, TypeOK
  <2>2. Active(r) /\ Alone(r)
    BY <2>1 DEF Active, Over
  <2>3. \A j \in Jobs: payload'[r][j] = IF j \in got[r] THEN now[r] ELSE payload[r][j]
    BY <1>0, <2>1, MergedIsSane
  <2>4. \A j \in Jobs: payload'[r][j] = Kept(r, j)
    BY <2>1, <2>2, <2>3 DEF Kept
  <2>5. \A j \in Jobs: Kept(r, j)' = Kept(r, j)
    BY <2>1 DEF Kept
  <2>6. QED
    BY <2>1, <2>4, <2>5
<1>9. CASE GenerationFails(r) \/ Writes(r) \/ Kill(r)
  <2>1. pc'[r] \in {"failed", "done", "killed"}
    BY <1>0, <1>9 DEF GenerationFails, Writes, Kill, TypeOK
  <2>2. QED
    BY <2>1 DEF Active, Over
<1>10. QED
  BY <1>1, <1>4, <1>5, <1>6, <1>7, <1>8, <1>9 DEF RunMoves, RunStep

LEMMA NextAlone == ASSUME BaseInv, FreshInv, AloneInv, [Next]_vars PROVE AloneInv'
<1>0. TypeOK
  BY DEF BaseInv
<1>1. CASE UNCHANGED <<cache, runVars>>
  <2>1. \A r \in Runs: Alone(r) => Alone(r)'
    BY <1>1 DEF runVars, Alone, Sane, Kept
  <2>2. QED
    BY <1>1, <2>1 DEF runVars, AloneInv, Active
<1>2. ASSUME NEW x \in Runs, Begins(x)
      PROVE  /\ \A r \in Runs, o \in Runs: r # o /\ Active(r)' /\ Active(o)' => met'[r]
             /\ \A r \in Runs: r # x /\ Active(r)' => met'[r]
             /\ ~Active(x)
  <2>1. \A o \in Runs: o # x => pc'[o] = pc[o]
    BY <1>0, <1>2, OthersStay DEF RunMoves
  <2>2. \A o \in Runs: met'[o] <=> IF o = x THEN \E i \in Runs: pc[i] \notin Over
                                   ELSE met[o] \/ pc[o] \notin Over
    BY <1>2 DEF Begins
  <2>3. QED
    BY <1>2, <2>1, <2>2 DEF Active, Begins, Over, AloneInv
<1>3. ASSUME NEW x \in Runs, RunMoves(x), ~Begins(x)
      PROVE  /\ Active(x) /\ met' = met /\ \A r \in Runs: Active(r)' => Active(r)
  <2>1. Active(x) /\ met' = met
    BY <1>3 DEF RunMoves, RunStep, FirstLoad, Load, Ask, Receives, GenerationFails, Truncates, Writes,
       Kill, Active, Over
  <2>2. \A o \in Runs: o # x => pc'[o] = pc[o]
    BY <1>0, <1>3, OthersStay
  <2>3. QED
    BY <2>1, <2>2 DEF Active
<1>4. ASSUME NEW x \in Runs, RunMoves(x) PROVE AloneInv'
  <2>1. \A r, o \in Runs: r # o /\ Active(r)' /\ Active(o)' => met'[r]
    BY <1>2, <1>3, <1>4 DEF AloneInv
  <2>2. ASSUME NEW r \in Runs, Active(r)', ~met'[r] PROVE Alone(r)'
    <3>1. r = x
      BY <1>2, <1>3, <1>4, <2>2 DEF AloneInv
    <3>2. Active(r) => Alone(r) /\ ~met[r]
      BY <1>2, <1>3, <1>4, <2>2, <3>1 DEF AloneInv
    <3>3. QED
      BY <1>4, <2>2, <3>1, <3>2, AloneMoves
  <2>3. QED
    BY <2>1, <2>2 DEF AloneInv
<1>5. QED
  BY <1>1, <1>4, NextIs

LEMMA InitAlone == ASSUME Init PROVE AloneInv
BY DEF Init, AloneInv, Active, Over

\* A run that ends alone leaves in the cache what was there, and what it has got.
LEMMA DoneKeeps ==
  ASSUME BaseInv, FreshInv, AloneInv, [Next]_vars, NEW r \in Runs,
         pc[r] # "done", pc'[r] = "done", ~met[r], NEW j \in Jobs
  PROVE  Sane(cache', now[r])[j] = Kept(r, j)
<1>0. TypeOK
  BY DEF BaseInv
<1>1. Load(r) \/ Writes(r)
  <2>1. ~UNCHANGED runVars
    BY DEF runVars
  <2>2. PICK x \in Runs: RunMoves(x)
    BY <2>1, NextIs
  <2>3. x = r
    BY <1>0, <2>2, OthersStay
  <2>4. QED
    BY <1>0, <2>2, <2>3
       DEF RunMoves, RunStep, Begins, FirstLoad, Ask, Receives, GenerationFails, Truncates, Kill, TypeOK
<1>2. Active(r) /\ Alone(r)
  BY <1>1 DEF Load, Writes, Active, Over, AloneInv
<1>3. CASE Load(r)
  <2>1. pc[r] = "load" /\ cache' = cache
    BY <1>3 DEF Load
  <2>2. Sane(cache, now[r]) = before[r] /\ got[r] = {}
    BY <1>2, <2>1 DEF Alone
  <2>3. Wanted(r, Sane(cache, now[r])) = {}
    <3>1. CASE Wanted(r, Sane(cache, now[r])) # {}
      BY <1>0, <1>3, <3>1 DEF Load, TypeOK
    <3>2. QED
      BY <3>1
  <2>4. refresh[r] => targets[r] = {}
    BY <2>3 DEF Wanted
  <2>5. QED
    BY <2>1, <2>2, <2>4 DEF Kept
<1>4. CASE Writes(r)
  <2>1. pc[r] = "write"
    BY <1>4 DEF Writes
  <2>2. cache = Torn /\ payload[r][j] = Kept(r, j)
    BY <1>2, <2>1 DEF Alone
  <2>3. cache' = payload[r]
    BY <1>4, <2>2 DEF Writes
  <2>4. payload[r] # Torn
    BY <1>0, EntriesAreWhole DEF TypeOK
  <2>5. payload[r][j] = 0 \/ Valid(payload[r][j], now[r])
    BY <2>1 DEF FreshInv, FreshRun, IsFresh
  <2>6. QED
    BY <2>2, <2>3, <2>4, <2>5 DEF Sane
<1>5. QED
  BY <1>1, <1>3, <1>4

\* A run that meets no other loses nothing valid from the cache.
THEOREM AloneCacheIsKept == Spec => AloneKeepsTheCache
<1>1. Init => BaseInv /\ FreshInv /\ AloneInv
  BY InitBase, InitFresh, InitAlone
<1>2. BaseInv /\ FreshInv /\ AloneInv /\ [Next]_vars => BaseInv' /\ FreshInv' /\ AloneInv'
  BY NextBase, NextFresh, NextAlone DEF BaseInv
<1>3. BaseInv /\ FreshInv /\ AloneInv /\ [Next]_vars =>
        [\A r \in Runs: pc[r] # "done" /\ pc'[r] = "done" /\ ~met[r] =>
            \A j \in Jobs: Sane(cache', now[r])[j] = Kept(r, j)]_vars
  BY DoneKeeps
<1>4. QED
  BY <1>1, <1>2, <1>3, PTL DEF Spec, AloneKeepsTheCache
=============================================================================
