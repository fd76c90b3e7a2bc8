------------------------------ MODULE Inventory ------------------------------
(***************************************************************************)
(* The dynamic inventory of ansible (ansible/inventories/makinastates.py): *)
(* each run reads the cache of pillars, asks salt for those of its targets *)
(* that it does not find there, and rewrites the whole cache, with no      *)
(* lock.  A generation is either followed in detail, with module           *)
(* PillarPool, for one run that is alone (followed), or it ends as module  *)
(* Generation says it may, while runs meet (~followed).  That the pool     *)
(* implements Generation makes the second as good as the first.            *)
(***************************************************************************)
EXTENDS PillarPool

CONSTANTS
    Runs,        \* runs of the inventory script
    Me,          \* the one whose generation may be followed
    Targets,     \* the sets of hosts that a playbook may be limited to
    Caches,      \* what the cache may hold at first
    ChunkSizes,  \* numbers of hosts per call of salt, those to consider
    MaxAge,      \* cache_max_age
    MaxClock     \* bound: the clock stops there

ASSUME InventoryAssumption ==
    /\ Me \in Runs
    /\ Targets \subseteq SUBSET Jobs
    /\ ChunkSizes \subseteq Nat \ {0}
    /\ Caches \subseteq [Jobs -> 0 .. 1] \cup {[j \in {} |-> 0]}
    /\ MaxAge \in Nat \ {0}
    /\ MaxClock \in Nat \ {0}

VARIABLES
    followed,    \* whether generations are followed in detail
    size,        \* hosts per call of salt
    clock,
    cache,       \* the cache file: the hosts in it and their TTL_KEY, 0 for a host that is not
    pc,          \* pc[r]: what run r does next
    now,         \* now[r]: self.now
    targets,     \* targets[r]
    refresh,     \* refresh[r]: --refresh-cache
    payload,     \* payload[r]: what it has read, and will write
    left,        \* left[r]: the hosts it has still to ask for
    chunk,       \* chunk[r]: those it is asking for
    got,         \* got[r]: the hosts that salt has returned
    hostvars,    \* hostvars[r]: of each host the TTL_KEY of its variables, 0 for none
    met,         \* met[r]: another run was there at some moment of it
    before       \* before[r]: the entries that were in the cache when it began

runVars == <<pc, now, targets, refresh, payload, left, chunk, got, hostvars, met, before>>
vars == <<followed, size, clock, cache, runVars, poolVars>>

Torn == [j \in {} |-> 0]     \* a file that cannot be decoded
Entries == [Jobs -> 0 .. MaxClock]
None == [j \in Jobs |-> 0]
Over == {"idle", "failed", "killed", "done"}

\* The type invariant: what a run holds are entries of the cache, whose file may be torn.
TypeOK ==
    /\ PoolTypeOK
    /\ followed \in BOOLEAN
    /\ size \in ChunkSizes
    /\ clock \in 1 .. MaxClock
    /\ cache \in Entries \cup {Torn}
    /\ pc \in [Runs -> Over \cup {"first", "load", "ask", "generate", "save", "write"}]
    /\ now \in [Runs -> 0 .. MaxClock]
    /\ targets \in [Runs -> SUBSET Jobs]
    /\ refresh \in [Runs -> BOOLEAN]
    /\ payload \in [Runs -> Entries]
    /\ left \in [Runs -> SUBSET Jobs]
    /\ chunk \in [Runs -> SUBSET Jobs]
    /\ got \in [Runs -> SUBSET Jobs]
    /\ hostvars \in [Runs -> Entries]
    /\ met \in [Runs -> BOOLEAN]
    /\ before \in [Runs -> Entries]

\* The cache is what earlier runs have left, a killed one perhaps.
Init ==
    /\ PoolInit
    /\ followed \in BOOLEAN
    /\ size \in ChunkSizes
    /\ ~followed => /\ ~timed              \* these do not matter then
                    /\ mode = CHOOSE m \in Modes: TRUE
                    /\ size = CHOOSE n \in ChunkSizes: TRUE
    /\ ~followed \/ mode = "sequential" \/ size = 1 => width = CHOOSE n \in Widths: TRUE
    /\ clock = 1
    /\ cache \in Caches
    /\ pc = [r \in Runs |-> "idle"]
    /\ now = [r \in Runs |-> 0]
    /\ targets = [r \in Runs |-> {}]
    /\ refresh = [r \in Runs |-> FALSE]
    /\ payload = [r \in Runs |-> None]
    /\ left = [r \in Runs |-> {}]
    /\ chunk = [r \in Runs |-> {}]
    /\ got = [r \in Runs |-> {}]
    /\ hostvars = [r \in Runs |-> None]
    /\ met = [r \in Runs |-> FALSE]
    /\ before = [r \in Runs |-> None]

-----------------------------------------------------------------------------

\* Mutant of Valid: one second too late
ValidTooLong(stamp, time) == stamp + MaxAge >= time

\* is_cache_valid
Valid(stamp, time) == stamp + MaxAge > time

\* sanitize_payload: of what a run reads, the entries that have not expired; nothing of a file
\* that does not decode.
Sane(file, time) ==
    [j \in Jobs |-> IF file # Torn /\ Valid(file[j], time) THEN file[j] ELSE 0]

\* Time passes between the beginnings of runs; each keeps self.now for its whole life.
Begins(r) ==
    /\ pc[r] = "idle"
    /\ followed => r = Me
    /\ pc' = [pc EXCEPT ![r] = "first"]
    /\ clock' \in {clock, clock + 1} \cap 1 .. MaxClock
    /\ now' = [now EXCEPT ![r] = clock']
    /\ \E hosts \in Targets: targets' = [targets EXCEPT ![r] = hosts]
    /\ \E flag \in BOOLEAN: refresh' = [refresh EXCEPT ![r] = flag]
    /\ LET others == {o \in Runs: pc[o] \notin Over}
       IN  met' = [o \in Runs |-> IF o = r THEN others # {} ELSE met[o] \/ o \in others]
    /\ before' = [before EXCEPT ![r] = Sane(cache, clock')]
    /\ UNCHANGED <<followed, size, cache, payload, left, chunk, got, hostvars, poolVars>>

\* load_inventory(None): the variables and groups of all hosts of the cache.
FirstLoad(r) ==
    /\ pc[r] = "first"
    /\ pc' = [pc EXCEPT ![r] = "load"]
    /\ hostvars' = [hostvars EXCEPT ![r] = Sane(cache, now[r])]
    /\ UNCHANGED <<followed, size, clock, cache, now, targets, refresh, payload, left, chunk, got, met, before, poolVars>>

\* dict.update: hosts that the newer payload does not have keep what they had.
Updated(old, new) == [j \in Jobs |-> IF new[j] # 0 THEN new[j] ELSE old[j]]

\* The hosts that a run has to ask for; a refresh forgets what is cached of its targets.
Wanted(r, data) == IF refresh[r] THEN targets[r] ELSE {j \in targets[r]: data[j] = 0}

\* load_inventory(targets), up to the first call of salt.
Load(r) ==
    /\ pc[r] = "load"
    /\ LET data == Sane(cache, now[r])
           wanted == Wanted(r, data)
       IN  /\ left' = [left EXCEPT ![r] = wanted]
           /\ payload' = [payload EXCEPT ![r] = [j \in Jobs |-> IF j \in wanted THEN 0 ELSE data[j]]]
           /\ IF wanted = {}
              THEN /\ pc' = [pc EXCEPT ![r] = "done"]
                   /\ hostvars' = [hostvars EXCEPT ![r] = Updated(@, data)]
              ELSE /\ pc' = [pc EXCEPT ![r] = "ask"]
                   /\ UNCHANGED hostvars
    /\ UNCHANGED <<followed, size, clock, cache, now, targets, refresh, chunk, got, met, before, poolVars>>

\* get_ext_pillar: one call of salt after another, size hosts each.
Ask(r) ==
    /\ pc[r] = "ask"
    /\ pc' = [pc EXCEPT ![r] = "generate"]
    /\ \E hosts \in SUBSET left[r]:
         /\ hosts # {}
         /\ Cardinality(hosts) = size \/ (hosts = left[r] /\ Cardinality(hosts) < size)
         /\ left' = [left EXCEPT ![r] = @ \ hosts]
         /\ chunk' = [chunk EXCEPT ![r] = hosts]
         /\ IF followed THEN PoolCall(hosts) ELSE UNCHANGED poolVars
    /\ UNCHANGED <<followed, size, clock, cache, now, targets, refresh, payload, got, hostvars, met, before>>

\* What the generation of a run may have returned: exactly what has been answered.
Returned(r) == IF ~followed THEN SUBSET chunk[r] ELSE IF main = "returned" THEN {roster} ELSE {}

Receives(r) ==
    /\ pc[r] = "generate"
    /\ \E hosts \in Returned(r): got' = [got EXCEPT ![r] = @ \cup hosts]
    /\ pc' = [pc EXCEPT ![r] = IF left[r] = {} THEN "save" ELSE "ask"]
    /\ UNCHANGED <<followed, size, clock, cache, now, targets, refresh, payload, left, chunk, hostvars, met, before, poolVars>>

\* call_salt raises, and the run ends there: the chunks that it has are lost.
GenerationFails(r) ==
    /\ pc[r] = "generate"
    /\ followed => main = "failed"
    /\ pc' = [pc EXCEPT ![r] = "failed"]
    /\ UNCHANGED <<followed, size, clock, cache, now, targets, refresh, payload, left, chunk, got, hostvars, met, before, poolVars>>

\* Mutant of Merged: only what was got is kept
MergedDrops(r) == [j \in Jobs |-> IF j \in got[r] THEN now[r] ELSE 0]

\* The payload with what has been got, sanitized once more.
Merged(r) == [j \in Jobs |-> IF j \in got[r] THEN now[r] ELSE payload[r][j]]

\* open(filename, 'w')
Truncates(r) ==
    /\ pc[r] = "save"
    /\ pc' = [pc EXCEPT ![r] = "write"]
    /\ payload' = [payload EXCEPT ![r] = Sane(Merged(r), now[r])]
    /\ cache' = Torn
    /\ UNCHANGED <<followed, size, clock, now, targets, refresh, left, chunk, got, hostvars, met, before, poolVars>>

\* Over what another run has written since then, the rest of a longer text may remain.
Writes(r) ==
    /\ pc[r] = "write"
    /\ pc' = [pc EXCEPT ![r] = "done"]
    /\ cache' \in {payload[r]} \cup (IF cache = Torn THEN {} ELSE {Torn})
    /\ hostvars' = [hostvars EXCEPT ![r] = Updated(@, payload[r])]
    /\ UNCHANGED <<followed, size, clock, now, targets, refresh, payload, left, chunk, got, met, before, poolVars>>

\* Killed while it waits for salt, a run has changed nothing: that is GenerationFails.
Kill(r) ==
    /\ pc[r] \notin Over \cup {"generate"}
    /\ pc' = [pc EXCEPT ![r] = "killed"]
    /\ UNCHANGED <<followed, size, clock, cache, now, targets, refresh, payload, left, chunk, got, hostvars, met, before, poolVars>>

RunStep(r) ==
    \/ FirstLoad(r) \/ Load(r) \/ Ask(r) \/ Receives(r)
    \/ followed /\ GenerationFails(r)
    \/ Truncates(r) \/ Writes(r)

Generates == PoolStep /\ UNCHANGED <<followed, size, clock, cache, runVars>>

Next ==
    \/ \E r \in Runs: Begins(r) \/ RunStep(r) \/ GenerationFails(r) \/ Kill(r)
    \/ Generates

Spec == Init /\ [][Next]_vars

\* Processes are scheduled: the script, the main process, each worker and each salt-call that does
\* not hang go on.  Nobody has to begin a run, and nothing is assumed of kills.
FairSpec ==
    /\ Spec
    /\ \A r \in Runs: WF_vars(RunStep(r))
    /\ WF_vars(MainStep /\ UNCHANGED <<followed, size, clock, cache, runVars>>)
    /\ \A j \in Jobs:
         /\ WF_vars(WorkerStep(j) /\ UNCHANGED <<followed, size, clock, cache, runVars>>)
         /\ WF_vars(SaltStep(j) /\ UNCHANGED <<followed, size, clock, cache, runVars>>)

-----------------------------------------------------------------------------

\* When a run is done, it has the variables of every target, fresh ones if it was to refresh them,
\* but for those that no module lists (get_hosts) or whose salt-call could not be launched, for which
\* there was no salt-call, and those whose worker was killed: these are the only hosts that
\* may silently be missing, or be served from the old cache.
TargetsAreAccountedFor ==
    followed /\ pc[Me] = "done" =>
        \A j \in targets[Me]:
            \/ hostvars[Me][j] # 0 /\ (refresh[Me] => hostvars[Me][j] = now[Me])
            \/ salt[j] = "none"
            \/ j \in killed

\* A generation that returns leaves no salt-call behind that is still at work, except one whose
\* worker was killed and could not kill it.
NoOrphans ==
    main = "returned" => \A j \in asked: salt[j] \in {"runs", "hangs"} => j \in killed

\* No more salt-calls are at work at once than there may be processes or threads, one if there are
\* none: a place is free again only when the salt-call has ended, whatever has become of its
\* worker (dead, timed out, left behind by a failed generation), unless that one was killed.
AtWork == {j \in Jobs: salt[j] \in {"runs", "hangs"} /\ j \notin killed}
WidthIsRespected == Cardinality(AtWork) <= IF mode = "sequential" THEN 1 ELSE width

\* No variables in the inventory of a run are as old as cache_max_age, from wherever they come:
\* the first load, the cache that it reads again, or what it merges and saves.
OutputIsFresh ==
    \A r \in Runs: pc[r] = "done" =>
        \A j \in Jobs: hostvars[r][j] = 0 \/ hostvars[r][j] + MaxAge > now[r]

\* What becomes of an entry that was in the cache when run r began: it is replaced by what r has got,
\* forgotten if r was to refresh it and has not got it, and left there otherwise.
Kept(r, j) ==
    CASE j \in got[r] -> now[r]
      [] j \in targets[r] \ got[r] /\ refresh[r] -> 0
      [] OTHER -> before[r][j]

\* The cache is rewritten whole at the end of a run.  If no other run was there, it then holds what
\* it held when the run began, and what the run has got: nothing valid is lost but the entries
\* of targets that it was to refresh.
AloneKeepsTheCache ==
    [][\A r \in Runs: pc[r] # "done" /\ pc'[r] = "done" /\ ~met[r] =>
          \A j \in Jobs: Sane(cache', now[r])[j] = Kept(r, j)]_vars

\* generate_masterless_pillars and generate_ansible_roster, with all their workers, queues and
\* batches, return the answers that were given for the hosts they were asked for, all of them
\* and nothing else, or fail; and they fail when the answer of one of them cannot be used.
Phase == CASE main = "idle" -> "idle"
           [] main \in {"returned", "failed"} -> main
           [] OTHER -> "running"
Spoiled == {j \in Answered: answer[j] = "unusable"}
Gen == INSTANCE Generation WITH
    phase <- Phase, asked <- asked, answered <- Answered \ Spoiled, spoiled <- Spoiled, returned <- roster
PoolImplementsGeneration == Gen!GSpec

\* A run that has begun ends, whatever workers or salt-calls die or are killed; it is held only by
\* half a result in the pipe of its queue (a worker killed in the middle of put) or, if no timeout
\* was given, by a salt-call that hangs.
EveryRunEnds ==
    \A r \in Runs:
        pc[r] = "first" ~> \/ pc[r] \in Over
                           \/ main = "stuck"
                           \/ ~timed /\ \E j \in Jobs: salt[j] = "hangs" /\ caller[j] = "poll"
=============================================================================
