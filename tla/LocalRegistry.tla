---------------------------- MODULE LocalRegistry ----------------------------
(***************************************************************************)
(* The local registries of mc_macros.py: a file of entries that a process  *)
(* reads through a cache of its own (memoize_cache), and that it updates   *)
(* by reading it again, under one lock, and writing it, under another.     *)
(* The client is mc_pillar.get_password: it looks for the password of a    *)
(* host in the map of the database, which its process caches for good and  *)
(* changes, then in the cached registry, makes one if there is none (or if *)
(* it is forced to), and updates the registry with all that it knows.      *)
(***************************************************************************)
EXTENDS WaitLock

CONSTANTS
    Hosts,
    NoHost,
    MaxPasswords     \* bound: passwords made in a history

ASSUME RegistryAssumption ==
    /\ NoHost \notin Hosts
    /\ Hosts # {}
    /\ MaxPasswords \in Nat

VARIABLES
    file,        \* the registry file: the password of each host, 0 for none
    pc,          \* pc[p]: what p is at
    host,        \* host[p]: whose password it looks for, or NoHost
    memo,        \* memo[p]: the dictionary in the cache of p, or Nothing
    db,          \* db[p]: the passwords in its cached map of the database (db_reg)
    copy,        \* copy[p]: the registry that it has read to update it
    lost,        \* the writers whose file was removed while they had it open
    made,        \* the passwords made so far are 1 .. made
    mishaps,     \* what has gone wrong: an update was made of older copies, or has failed
                 \* ("outdated"); a process has died or failed while it wrote the file ("cut")
    given,       \* given[h]: the newest password returned for h, 0 for none, while all is well
    current,     \* the processes whose copies are as the file, but for their own changes
    recent       \* those whose cached dictionaries are, but for newer passwords

regVars == <<file, pc, host, memo, db, copy, lost, made, mishaps, given, current, recent>>
vars == <<lockVars, regVars>>

Nothing == [h \in {} |-> 0]      \* a file that cannot be decoded, a dictionary that is not there
Empty == [h \in Hosts |-> 0]     \* no file, or no entry in it
Registries == [Hosts -> 0 .. MaxPasswords]

\* The type invariant.  A file, a cached dictionary and a copy have a place for every host or, the
\* first two, are Nothing; a process outside its calls has no host in hand.
TypeOK ==
    /\ LockTypeOK
    /\ file \in Registries \cup {Nothing}
    /\ pc \in [Procs -> {"idle", "load", "choose", "read", "write", "fill", "chmod", "end"}]
    /\ host \in [Procs -> Hosts \cup {NoHost}]
    /\ \A p \in Procs: pc[p] = "idle" <=> host[p] = NoHost
    /\ memo \in [Procs -> Registries \cup {Nothing}]
    /\ db \in [Procs -> Registries]
    /\ copy \in [Procs -> Registries]
    /\ lost \subseteq Procs
    /\ made \in 0 .. MaxPasswords
    /\ mishaps \subseteq {"outdated", "cut"}
    /\ given \in Registries
    /\ current \subseteq Procs
    /\ recent \subseteq Procs

Init ==
    /\ LockInit
    /\ file = Empty
    /\ pc = [p \in Procs |-> "idle"]
    /\ host = [p \in Procs |-> NoHost]
    /\ memo = [p \in Procs |-> Nothing]
    /\ db = [p \in Procs |-> Empty]
    /\ copy = [p \in Procs |-> Empty]
    /\ lost = {}
    /\ made = 0
    /\ mishaps = {}
    /\ given = Empty
    /\ current = {}
    /\ recent = {}

\* All is well until somebody has locked a nameless file, or a mishap.  Returned passwords are kept
\* track of until then.
Well == ~stranded /\ mishaps = {}
Track == given' = IF Well' THEN given ELSE Empty
Return(h, password) ==
    given' = IF Well /\ given[h] < password THEN [given EXCEPT ![h] = password] ELSE given

\* What p knows besides its cache ends with its call.
Over(p) ==
    /\ pc' = [pc EXCEPT ![p] = "idle"]
    /\ host' = [host EXCEPT ![p] = NoHost]
    /\ copy' = [copy EXCEPT ![p] = Empty]
    /\ current' = current \ {p}

-----------------------------------------------------------------------------
(* mc_macros *)

\* pack_load_local_registry: a file that cannot be decoded is removed, under the feet of whoever
\* is writing it.
Decoded == IF file = Nothing THEN Empty ELSE file
Decode ==
    /\ file' = Decoded
    /\ lost' = IF file = Nothing THEN lost \cup {q \in Procs: pc[q] = "fill"} ELSE lost

\* _get_local_registry, when the cache has no entry: the dictionary is cached, and it is the same
\* object that callers get and change.
Load(p) ==
    /\ pc[p] = "load"
    /\ Leave(p)
    /\ Decode
    /\ memo' = [memo EXCEPT ![p] = Decoded]
    /\ recent' = recent \cup {p}
    /\ UNCHANGED <<pc, host, db, copy, made, mishaps, given, current>>

\* update_registry_params, cached=False: the cache is neither read nor refreshed.
Read(p) ==
    /\ pc[p] = "read"
    /\ Leave(p)
    /\ Decode
    /\ copy' = [copy EXCEPT ![p] = Decoded]
    /\ current' = current \cup {p}
    /\ UNCHANGED <<pc, host, memo, db, made, mishaps, given, recent>>

\* Mutant of Updated: the entries of the file come first
UpdatedKeeps(p) == [h \in Hosts |-> IF copy[p][h] # 0 THEN copy[p][h] ELSE memo[p][h]]

\* The entries of the caller replace those of the file, changed by it or not.
Updated(p) == [h \in Hosts |-> IF memo[p][h] # 0 THEN memo[p][h] ELSE copy[p][h]]

\* encode_local_registry: the content is always a new one, and open(registryf, 'wb') truncates.
Truncate(p) ==
    /\ pc[p] = "write"
    /\ at[p] = "body"
    /\ pc' = [pc EXCEPT ![p] = "fill"]
    /\ file' = Nothing
    /\ lost' = lost \ {p}
    /\ current' = current \cap {p}
    /\ recent' = recent \cap {p}
    /\ mishaps' = mishaps \cup (IF p \in current \cap recent THEN {} ELSE {"outdated"})
    /\ UNCHANGED <<lockVars, host, memo, db, copy, made>>
    /\ Track

\* Over what another process has written since then, the rest of a longer text may remain.
Fill(p) ==
    /\ pc[p] = "fill"
    /\ pc' = [pc EXCEPT ![p] = "chmod"]
    /\ IF p \in lost
       THEN UNCHANGED file
       ELSE file' \in {Updated(p)} \cup (IF file = Nothing THEN {} ELSE {Nothing})
    /\ UNCHANGED <<lockVars, host, memo, db, copy, lost, made, mishaps, given, current, recent>>

\* open or write raises (a full disk): wait_lock is left by an exception.
WriteRaises(p) ==
    /\ pc[p] \in {"write", "fill"}
    /\ at[p] = "body"
    /\ file' \in {file} \cup (IF pc[p] = "write" \/ p \in lost THEN {} ELSE {Nothing})
    /\ lost' = lost \ {p}
    /\ Over(p)
    /\ Released(p)
    /\ mishaps' = mishaps \cup {IF pc[p] = "fill" THEN "cut" ELSE "outdated"}
    /\ UNCHANGED <<memo, db, made, recent>>
    /\ Track

Chmod(p) ==
    /\ pc[p] = "chmod"
    /\ file # Empty
    /\ pc' = [pc EXCEPT ![p] = "end"]
    /\ Leave(p)
    /\ UNCHANGED <<file, host, memo, db, copy, lost, made, mishaps, given, current, recent>>

\* os.chmod raises when the file has been removed: wait_lock is left by an exception.
ChmodRaises(p) ==
    /\ pc[p] = "chmod"
    /\ file = Empty
    /\ Over(p)
    /\ Released(p)
    /\ mishaps' = mishaps \cup {"outdated"}
    /\ UNCHANGED <<file, memo, db, lost, made, recent>>
    /\ Track

\* wait_lock raises LockError.
LockRaises(p) ==
    /\ at[p] = "error"
    /\ Over(p)
    /\ Released(p)
    /\ mishaps' = mishaps \cup (IF pc[p] = "load" THEN {} ELSE {"outdated"})
    /\ UNCHANGED <<file, memo, db, lost, made, recent>>
    /\ Track

-----------------------------------------------------------------------------
(* mc_pillar *)

\* get_password(h): the cached registry is used, or it is loaded.
GetPassword(p, h) ==
    /\ pc[p] = "idle"
    /\ host' = [host EXCEPT ![p] = h]
    /\ IF memo[p] = Nothing
       THEN pc' = [pc EXCEPT ![p] = "load"] /\ Enter(p)
       ELSE pc' = [pc EXCEPT ![p] = "choose"] /\ UNCHANGED lockVars
    /\ UNCHANGED <<file, memo, db, copy, lost, made, mishaps, given, current, recent>>

\* The map of the database comes first.
Known(p, h) == IF db[p][h] # 0 THEN db[p][h] ELSE memo[p][h]

\* pw_id[user] = db_id[user] = pw, where pw_id is in the cached dictionary
Caches(p, password) ==
    /\ memo' = [memo EXCEPT ![p][host[p]] = password]
    /\ db' = [db EXCEPT ![p][host[p]] = password]

\* A password that is known is returned, and not stored, even where the registry has another one
\* (l.2814 compares what l.2810 has made equal): the next update from that dictionary stores it.
Found(p) ==
    /\ pc[p] = "choose"
    /\ Known(p, host[p]) # 0
    /\ Caches(p, Known(p, host[p]))
    /\ recent' = IF Known(p, host[p]) = memo[p][host[p]] THEN recent ELSE recent \ {p}
    /\ Over(p)
    /\ Return(host[p], Known(p, host[p]))
    /\ UNCHANGED <<lockVars, file, lost, made, mishaps>>

\* One is made when there is none, or by force (regenerate: if the database has none).
Make(p) ==
    /\ pc[p] = "choose"
    /\ made < MaxPasswords
    /\ made' = made + 1
    /\ Caches(p, made')
    /\ pc' = [pc EXCEPT ![p] = "read"]
    /\ Enter(p)
    /\ UNCHANGED <<file, host, copy, lost, mishaps, given, current, recent>>

\* From one lock to what comes next.
Unlocks(p) ==
    /\ Unlock(p)
    /\ pc[p] # "end"
    /\ pc' = [pc EXCEPT ![p] = IF @ = "load" THEN "choose" ELSE "write"]
    /\ UNCHANGED <<file, host, memo, db, copy, lost, made, mishaps, given, current, recent>>

\* The second lock of an update.
Again(p) ==
    /\ pc[p] = "write"
    /\ Enter(p)
    /\ UNCHANGED regVars

Returns(p) ==
    /\ Unlock(p)
    /\ pc[p] = "end"
    /\ Over(p)
    /\ Return(host[p], memo[p][host[p]])
    /\ UNCHANGED <<file, memo, db, lost, made, mishaps, recent>>

\* The entry of the cache expires, or its process ends: then all that it knows is gone.
Forget(p) ==
    /\ pc[p] = "idle"
    /\ memo[p] # Nothing \/ db[p] # Empty
    /\ memo' = [memo EXCEPT ![p] = Nothing]
    /\ db' \in {db, [db EXCEPT ![p] = Empty]}
    /\ recent' = recent \ {p}
    /\ UNCHANGED <<lockVars, file, pc, host, copy, lost, made, mishaps, given, current>>

\* kill -9, at any point; another process may take its place.
Die(p) ==
    /\ pc[p] # "idle"
    /\ Released(p)
    /\ Over(p)
    /\ memo' = [memo EXCEPT ![p] = Nothing]
    /\ db' = [db EXCEPT ![p] = Empty]
    /\ recent' = recent \ {p}
    /\ lost' = lost \ {p}
    /\ mishaps' = mishaps \cup (IF pc[p] = "fill" THEN {"cut"} ELSE {})
    /\ UNCHANGED <<file, made>>
    /\ Track

-----------------------------------------------------------------------------

InLock(p) ==
    /\ LockStep(p)
    /\ UNCHANGED <<file, pc, host, memo, db, copy, lost, made, mishaps, current, recent>>
    /\ Track

Step(p) ==
    \/ InLock(p)
    \/ Load(p) \/ Read(p) \/ Truncate(p) \/ Fill(p) \/ WriteRaises(p) \/ Chmod(p) \/ ChmodRaises(p)
    \/ LockRaises(p)
    \/ Found(p) \/ Make(p) \/ Unlocks(p) \/ Again(p) \/ Returns(p)

Next == \E p \in Procs: Step(p) \/ (\E h \in Hosts: GetPassword(p, h)) \/ Forget(p) \/ Die(p)

Spec == Init /\ [][Next]_vars

\* A process goes on as long as it lives.
FairSpec == Spec /\ \A p \in Procs: WF_vars(Step(p))

-----------------------------------------------------------------------------

\* A reader (_get_local_registry) finds a registry file that cannot be decoded, which it takes for
\* an empty one and removes, only after a process has died or failed in the middle of a write or a
\* lock was stranded: otherwise a file that is open for writing is never read.
WholeFilesAreRead ==
    [][\A p \in Procs: (Load(p) \/ Read(p)) /\ file = Nothing => stranded \/ "cut" \in mishaps]_vars

\* While all is well, a password that get_password has returned is the one in the file, or the file
\* has a newer one, except while the file is being written: so a failed update, a death or a failure
\* within a write, a stranded lock and an update of older copies (a cached registry or an entry of
\* the database map that another process has left behind) are the only ways to lose one.
PasswordsAreKept ==
    Well => \/ \E p \in Procs: pc[p] = "fill"
            \/ \A h \in Hosts: file[h] >= given[h]

\* Every call of get_password ends, with a password or an error, whoever else dies in a lock or
\* holds it: no process waits for ever for another one's lock.  (A call that has to make a
\* password stops when the bound MaxPasswords is reached.)
EveryCallEnds ==
    \A p \in Procs:
        pc[p] # "idle" ~> pc[p] = "idle" \/ (pc[p] = "choose" /\ made = MaxPasswords)
=============================================================================
