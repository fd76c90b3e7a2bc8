----------------------------- MODULE DnsSerial -----------------------------
(***************************************************************************)
(* mc_pillar.serial_for: the serial of a zone each time that the master is *)
(* configured.  It is the one of the local registry (module LocalRegistry) *)
(* or the first of the day, or what the name servers already have if that  *)
(* is more, plus one.  A name server only takes a zone whose serial is     *)
(* greater than that of its own copy.                                      *)
(***************************************************************************)
EXTENDS Naturals, FiniteSets

CONSTANTS
    Procs,           \* salt processes
    Domains,
    Servers,         \* the name servers of the domains
    Pinned,          \* dns_serials of the database: a serial for some domains, 0 for the others
    PerDay,          \* serials of a day (the code: 100, for YYYYMMDDxx)
    MaxFailures,     \* a server is skipped when it has failed more often than that (the code: 3)
    MaxDay,          \* bound
    MaxSerial        \* bound

ASSUME DnsAssumption ==
    /\ Domains # {}
    /\ Pinned \in [Domains -> Nat]
    /\ PerDay \in Nat \ {0}
    /\ MaxFailures \in Nat
    /\ MaxDay \in Nat \ {0}
    /\ MaxSerial \in Nat

VARIABLES
    day,
    file,        \* the registry dns_serials: a serial for each domain, 0 for none
    memo,        \* memo[p]: the dictionary of it in the cache of p, or Nothing
    failures,    \* failures[p]: dns_failures, times that each server has failed
    pc,          \* pc[p]: what p does next
    domain,      \* domain[p]: what it was called for
    serial,      \* serial[p]
    left,        \* left[p]: the servers that it has still to ask
    heard,       \* heard[p]: dns_serial
    copy,        \* copy[p]: the registry that it has read to update it
    zone,        \* zone[d]: the serial last returned for d, which the master then has
    published,   \* published[s][d]: the serial of the copy of d that server s has
    mishap,      \* the registry was written by a process with an outdated dictionary, or a process
                 \* has died while it wrote it
    recent,      \* the processes whose dictionaries are as the file, or ahead of it
    informed     \* the calls in progress that have met no other, whose servers had what was last
                 \* returned, and have all answered

regVars == <<file, memo, copy, mishap, recent>>
callVars == <<pc, domain, serial, left, heard, failures, informed>>
dnsVars == <<zone, published>>
vars == <<day, regVars, callVars, dnsVars>>

Nothing == [d \in {} |-> 0]
Empty == [d \in Domains |-> 0]
Registries == [Domains -> 0 .. MaxSerial]
Serials == [Domains -> Nat]

\* The type invariant: only a call in progress has servers to ask or a copy in hand.
TypeOK ==
    /\ day \in 1 .. MaxDay
    /\ file \in Registries \cup {Nothing}
    /\ memo \in [Procs -> Registries \cup {Nothing}]
    /\ \A p \in Procs: pc[p] # "idle" => memo[p] # Nothing
    /\ failures \in [Procs -> [Servers -> 0 .. MaxFailures + 1]]
    /\ pc \in [Procs -> {"idle", "ask", "decide", "write"}]
    /\ domain \in [Procs -> Domains]
    /\ serial \in [Procs -> Nat]
    /\ left \in [Procs -> SUBSET Servers]
    /\ heard \in [Procs -> Nat]
    /\ copy \in [Procs -> Registries]
    /\ zone \in Registries
    /\ published \in [Servers -> Serials]
    /\ mishap \in BOOLEAN
    /\ recent \subseteq Procs
    /\ informed \subseteq Procs

\* The servers may have the zones of an earlier master.
Init ==
    /\ day = 1
    /\ file = Empty
    /\ memo = [p \in Procs |-> Nothing]
    /\ failures = [p \in Procs |-> [s \in Servers |-> 0]]
    /\ pc = [p \in Procs |-> "idle"]
    /\ domain = [p \in Procs |-> CHOOSE d \in Domains: TRUE]
    /\ serial = [p \in Procs |-> 0]
    /\ left = [p \in Procs |-> {}]
    /\ heard = [p \in Procs |-> 0]
    /\ copy = [p \in Procs |-> Empty]
    /\ zone = Empty
    /\ published \in [Servers -> [Domains -> {0, PerDay + 2}]]
    /\ mishap = FALSE
    /\ recent = {}
    /\ informed = {}

-----------------------------------------------------------------------------

Larger(a, b) == IF a >= b THEN a ELSE b

\* The registry as it is read: a file that does not decode is removed.
Decoded == IF file = Nothing THEN Empty ELSE file

\* Mutant of Local: the registry is not looked at
LocalToday(d, local, stale) == Larger(day * PerDay + 1, Pinned[d])

\* The first serial of today, that of the database, or the local one (plus one once its time to live,
\* a year, is over): whichever is the largest.  So it is never behind the current day, and the
\* correction to "the Year-mo-da-xx convention" at the end has nothing left to do.
Local(d, local, stale) ==
    Larger(Larger(day * PerDay + 1, Pinned[d]), IF local # 0 /\ stale THEN local + 1 ELSE local)

Calling(p) == pc[p] # "idle"

\* serial_for(d), up to the query of the servers' names.
Call(p, d) ==
    /\ pc[p] = "idle"
    /\ pc' = [pc EXCEPT ![p] = "ask"]
    /\ left' = [left EXCEPT ![p] = Servers]
    /\ domain' = [domain EXCEPT ![p] = d]
    /\ IF memo[p] = Nothing
       THEN /\ memo' = [memo EXCEPT ![p] = Decoded]
            /\ file' = Decoded
            /\ recent' = recent \cup {p}
       ELSE UNCHANGED <<memo, file, recent>>
    /\ \E stale \in BOOLEAN: serial' = [serial EXCEPT ![p] = Local(d, memo'[p][d], stale)]
    /\ informed' = IF /\ \A q \in Procs: ~Calling(q)
                      /\ \A s \in Servers: published[s][d] >= zone[d]
                   THEN {p} ELSE {}
    /\ UNCHANGED <<day, heard, failures, copy, mishap, dnsVars>>

\* The names of the servers are not to be had: there is no server to blame.
ResolverFails(p) ==
    /\ pc[p] = "ask"
    /\ left[p] = Servers
    /\ heard[p] = 0
    /\ pc' = [pc EXCEPT ![p] = "decide"]
    /\ left' = [left EXCEPT ![p] = {}]
    /\ informed' = informed \ {p}
    /\ UNCHANGED <<day, regVars, domain, serial, heard, failures, dnsVars>>

Skipped(p, s) == failures[p][s] > MaxFailures

Skips(p, s) ==
    /\ pc[p] = "ask"
    /\ s \in left[p]
    /\ Skipped(p, s)
    /\ left' = [left EXCEPT ![p] = @ \ {s}]
    /\ informed' = informed \ {p}
    /\ UNCHANGED <<day, regVars, pc, domain, serial, heard, failures, dnsVars>>

\* Mutant of Answers: the last answer counts, not the largest
AnswersLast(p, s) ==
    /\ pc[p] = "ask"
    /\ s \in left[p]
    /\ ~Skipped(p, s)
    /\ left' = [left EXCEPT ![p] = @ \ {s}]
    /\ heard' = [heard EXCEPT ![p] = published[s][domain[p]]]
    /\ UNCHANGED <<day, regVars, pc, domain, serial, failures, informed, dnsVars>>

\* The failures of a server that answers are kept: they are filed under its address, and looked for
\* under its name.
Answers(p, s) ==
    /\ pc[p] = "ask"
    /\ s \in left[p]
    /\ ~Skipped(p, s)
    /\ left' = [left EXCEPT ![p] = @ \ {s}]
    /\ heard' = [heard EXCEPT ![p] = Larger(@, published[s][domain[p]])]
    /\ UNCHANGED <<day, regVars, pc, domain, serial, failures, informed, dnsVars>>

\* One server that fails ends the inquiry, and what the others have answered is not used, though the comment
\* says "if NS in the domain are reachable, we query each ones to get the max(serial) + 1".
Fails(p, s) ==
    /\ pc[p] = "ask"
    /\ s \in left[p]
    /\ ~Skipped(p, s)
    /\ pc' = [pc EXCEPT ![p] = "decide"]
    /\ left' = [left EXCEPT ![p] = {}]
    /\ failures' = [failures EXCEPT ![p][s] = @ + 1]
    /\ informed' = informed \ {p}
    /\ UNCHANGED <<day, regVars, domain, serial, heard, dnsVars>>

\* What is returned: one more than the local serial, or than the largest answer.
Decided(p) == (IF pc[p] = "ask" THEN Larger(serial[p], heard[p]) ELSE serial[p]) + 1

\* It is put into the dictionary in the cache, which the registry is updated with: up to the second
\* lock of update_local_registry.
Decide(p) ==
    /\ \/ pc[p] = "ask" /\ left[p] = {}
       \/ pc[p] = "decide"
    /\ Decided(p) <= MaxSerial
    /\ pc' = [pc EXCEPT ![p] = "write"]
    /\ serial' = [serial EXCEPT ![p] = Decided(p)]
    /\ memo' = [memo EXCEPT ![p][domain[p]] = Decided(p)]
    /\ heard' = [heard EXCEPT ![p] = 0]
    /\ copy' = [copy EXCEPT ![p] = Decoded]
    /\ file' = Decoded
    /\ UNCHANGED <<day, mishap, recent, domain, left, failures, informed, dnsVars>>

\* Mutant of Updated: the entries of the file come first
UpdatedKeeps(p) == [d \in Domains |-> IF copy[p][d] # 0 THEN copy[p][d] ELSE memo[p][d]]

Updated(p) == [d \in Domains |-> IF memo[p][d] # 0 THEN memo[p][d] ELSE copy[p][d]]

\* The call is over, with whatever result.
Ends(p) ==
    /\ pc' = [pc EXCEPT ![p] = "idle"]
    /\ serial' = [serial EXCEPT ![p] = 0]
    /\ left' = [left EXCEPT ![p] = {}]
    /\ heard' = [heard EXCEPT ![p] = 0]
    /\ copy' = [copy EXCEPT ![p] = Empty]
    /\ informed' = informed \ {p}

\* It returns, and the zone is written.
Write(p) ==
    /\ pc[p] = "write"
    /\ file' = Updated(p)
    /\ zone' = [zone EXCEPT ![domain[p]] = serial[p]]
    /\ mishap' = (mishap \/ p \notin recent)
    /\ recent' = recent \cap {p}
    /\ Ends(p)
    /\ UNCHANGED <<day, memo, domain, failures, published>>

\* LockError, at either lock: nothing is returned, but the dictionary has the new serial.
Raises(p) ==
    /\ pc[p] = "write"
    /\ Ends(p)
    /\ UNCHANGED <<day, file, memo, mishap, recent, domain, failures, dnsVars>>

\* An entry of the cache expires.  The failures go with theirs: they are read from dns_serials_failures
\* and written to dns_failures.
Forget(p) ==
    /\ pc[p] = "idle"
    /\ \/ /\ memo' = [memo EXCEPT ![p] = Nothing]
          /\ recent' = recent \ {p}
          /\ UNCHANGED failures
       \/ /\ failures' = [failures EXCEPT ![p] = [s \in Servers |-> 0]]
          /\ UNCHANGED <<memo, recent>>
    /\ UNCHANGED <<day, file, copy, mishap, pc, domain, serial, left, heard, informed, dnsVars>>

\* A process dies, in the middle of the writing perhaps.
Die(p) ==
    /\ Calling(p)
    /\ \/ UNCHANGED <<file, mishap>>
       \/ /\ pc[p] = "write"
          /\ file' = Nothing
          /\ mishap' = TRUE
    /\ memo' = [memo EXCEPT ![p] = Nothing]
    /\ recent' = recent \ {p}
    /\ failures' = [failures EXCEPT ![p] = [s \in Servers |-> 0]]
    /\ Ends(p)
    /\ UNCHANGED <<day, domain, dnsVars>>

-----------------------------------------------------------------------------

\* A server finds a zone whose serial is greater than that of its copy.
Transfer(s, d) ==
    /\ zone[d] > published[s][d]
    /\ published' = [published EXCEPT ![s][d] = zone[d]]
    /\ UNCHANGED <<day, regVars, callVars, zone>>

NextDay ==
    /\ day < MaxDay
    /\ day' = day + 1
    /\ UNCHANGED <<regVars, callVars, dnsVars>>

Next ==
    \/ \E p \in Procs:
         \/ \E d \in Domains: Call(p, d)
         \/ ResolverFails(p)
         \/ \E s \in Servers: Skips(p, s) \/ Answers(p, s) \/ Fails(p, s)
         \/ Decide(p) \/ Write(p) \/ Raises(p) \/ Forget(p) \/ Die(p)
    \/ \E s \in Servers, d \in Domains: Transfer(s, d)
    \/ NextDay

Spec == Init /\ [][Next]_vars

-----------------------------------------------------------------------------

Well == ~mishap

\* As long as nobody has written the registry with an outdated dictionary (the caches of two processes
\* live at the same time) or died while writing it, it has the serial of every zone that was returned:
\* what was decided and not returned, a day that passes, servers that fail or are skipped take nothing from it.
RegistryRemembers ==
    Well => /\ file # Nothing
            /\ \A d \in Domains: file[d] >= zone[d]

\* And as long as that is so a zone is never given the serial that it has, or an older one, whether or
\* not any name server can be asked.
SerialsIncrease ==
    [][\A p \in Procs: Write(p) /\ Well' => zone'[domain[p]] > zone[domain[p]]]_vars

\* Whatever has happened to the registry, and whatever the servers have from elsewhere: a call that meets
\* no other, whose servers have what was last returned and all answer, gives the zone a serial that
\* each of them will take.
ServersFollow ==
    [][\A p \in Procs:
         Write(p) /\ p \in informed =>
             \A s \in Servers: zone'[domain[p]] > published[s][domain[p]]]_vars
=============================================================================
