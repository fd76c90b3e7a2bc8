------------------------ MODULE LocalRegistryProofs ------------------------
(***************************************************************************)
(* The theorems about wait_lock and the registry that it guards, for any   *)
(* processes, hosts and passwords.                                         *)
(***************************************************************************)
EXTENDS LocalRegistry, TLAPS

(***************************************************************************)
(* wait_lock: whoever has a lock has a file, no two have the same, and     *)
(* until somebody is stranded it is the file that the path names.          *)
(***************************************************************************)
Named == {p \in Procs: at[p] \in {"body", "unlink"}}

FilesInHand == \A p \in Procs: at[p] \in {"poll", "body", "unlink", "unlock"} => fd[p] # NoInode

HoldersDiffer == \A p, q \in Holders: fd[p] = fd[q] => p = q

HoldersAreNamed == ~stranded => \A p \in Named: fd[p] = name

LockInv == LockTypeOK /\ FilesInHand /\ HoldersDiffer /\ HoldersAreNamed

LEMMA LockInitInv == ASSUME LockInit PROVE LockInv
<1> SUFFICES /\ name \in Inodes \cup {NoInode}
             /\ 0 \in 0 .. Tries - 1
  BY DEF LockInit, LockInv, LockTypeOK, FilesInHand, HoldersDiffer, HoldersAreNamed, Holders, Named
<1>1. Tries \in Nat /\ Tries > 0
  BY LockAssumption
<1>2. PICK i \in Inodes: TRUE
  <2>1. [p \in Procs |-> NoInode] \in [Procs -> Inodes \cup {NoInode}]
    OBVIOUS
  <2>2. QED
    BY <2>1, LockAssumption
<1>3. QED
  BY <1>1, <1>2 DEF LockInit

\* The file that Create makes is a file.
LEMMA SomeUnused == ASSUME LockTypeOK, name = NoInode PROVE (CHOOSE i \in Unused: TRUE) \in Inodes
<1>1. PICK i \in Inodes: \A p \in Procs: fd[p] # i
  BY LockAssumption DEF LockTypeOK
<1>2. i \in Unused
  BY <1>1, LockAssumption DEF Unused
<1>3. QED
  BY <1>2 DEF Unused

LEMMA LockNextInv == ASSUME LockInv, [LockNext]_lockVars PROVE LockInv'
<1> USE DEF LockInv, LockTypeOK, FilesInHand, HoldersDiffer, HoldersAreNamed, Holders, Named
<1>1. CASE UNCHANGED lockVars
  BY <1>1 DEF lockVars
<1>2. ASSUME NEW p \in Procs, Enter(p) PROVE LockInv'
  BY <1>2 DEF Enter
<1>3. ASSUME NEW p \in Procs, Create(p) PROVE LockInv'
  <2>1. CASE name = NoInode
    <3>1. name' \in Inodes
      BY <1>3, <2>1, SomeUnused DEF Create
    <3>2. QED
      BY <1>3, <2>1, <3>1 DEF Create
  <2>2. CASE name # NoInode
    BY <1>3, <2>2 DEF Create
  <2>3. QED
    BY <2>1, <2>2
<1>4. ASSUME NEW p \in Procs, Open(p) PROVE LockInv'
  <2>1. (tries[p] + 1) % Tries \in 0 .. Tries - 1
    BY LockAssumption
  <2>2. tries' \in [Procs -> 0 .. Tries - 1]
    BY <1>4, <2>1 DEF Open
  <2>3. /\ fd' \in [Procs -> Inodes \cup {NoInode}]
        /\ \A q \in Procs: q # p => fd'[q] = fd[q] /\ at'[q] = at[q]
        /\ at' \in [Procs -> {"out", "create", "open", "poll", "body", "unlink", "unlock", "error"}]
        /\ at'[p] \in {"create", "error", "poll"}
        /\ at'[p] = "poll" => fd'[p] # NoInode
    BY <1>4 DEF Open
  <2>4. UNCHANGED <<name, stranded>>
    BY <1>4 DEF Open
  <2>5. QED
    BY <2>2, <2>3, <2>4
<1>5. ASSUME NEW p \in Procs, Acquire(p) PROVE LockInv'
  <2>1. /\ at[p] = "poll" /\ at'[p] = "body" /\ \A q \in Procs: q # p => at'[q] = at[q]
        /\ at' \in [Procs -> {"out", "create", "open", "poll", "body", "unlink", "unlock", "error"}]
        /\ UNCHANGED <<name, fd, tries>>
    BY <1>5 DEF Acquire
  <2>2. HoldersDiffer'
    BY <1>5, <2>1 DEF Acquire
  <2>3. stranded' \in BOOLEAN /\ HoldersAreNamed'
    BY <1>5, <2>1 DEF Acquire
  <2>4. QED
    BY <2>1, <2>2, <2>3
<1>6. ASSUME NEW p \in Procs, TimesOut(p) PROVE LockInv'
  BY <1>6 DEF TimesOut
<1>7. ASSUME NEW p \in Procs, Leave(p) PROVE LockInv'
  BY <1>7 DEF Leave
<1>8. ASSUME NEW p \in Procs, Unlink(p) PROVE LockInv'
  BY <1>8 DEF Unlink
<1>9. ASSUME NEW p \in Procs, Released(p) PROVE LockInv'
  BY <1>9, LockAssumption DEF Released
<1>10. QED
  BY <1>1, <1>2, <1>3, <1>4, <1>5, <1>6, <1>7, <1>8, <1>9 DEF LockNext, LockStep

LEMMA LockInvExcludes == ASSUME LockInv PROVE BodiesExclude
BY DEF LockInv, HoldersDiffer, HoldersAreNamed, BodiesExclude, InBody, Holders, Named

\* wait_lock excludes for whatever use, as long as nobody has locked a file without a name.
THEOREM LockExcludes == LockSpec => []BodiesExclude
<1>1. LockInit => LockInv
  BY LockInitInv
<1>2. LockInv /\ [LockNext]_lockVars => LockInv'
  BY LockNextInv
<1>3. LockInv => BodiesExclude
  BY LockInvExcludes
<1>4. QED
  BY <1>1, <1>2, <1>3, PTL DEF LockSpec

(***************************************************************************)
(* The registry uses its lock as wait_lock allows.                         *)
(***************************************************************************)
LEMMA StepLocks == ASSUME [Next]_vars PROVE [LockNext]_lockVars
<1>1. CASE UNCHANGED vars
  BY <1>1 DEF vars
<1>2. ASSUME NEW p \in Procs, Step(p) PROVE [LockNext]_lockVars
  <2>1. CASE InLock(p)
    BY <2>1 DEF InLock, LockNext
  <2>2. CASE Load(p) \/ Read(p) \/ Chmod(p)
    BY <2>2 DEF Load, Read, Chmod, LockNext
  <2>3. CASE Truncate(p) \/ Fill(p) \/ Found(p)
    BY <2>3 DEF Truncate, Fill, Found
  <2>4. CASE WriteRaises(p) \/ ChmodRaises(p) \/ LockRaises(p) \/ Unlocks(p) \/ Returns(p)
    BY <2>4 DEF WriteRaises, ChmodRaises, LockRaises, Unlocks, Returns, Unlock, LockNext
  <2>5. CASE Make(p) \/ Again(p)
    BY <2>5 DEF Make, Again, LockNext
  <2>6. QED
    BY <1>2, <2>1, <2>2, <2>3, <2>4, <2>5 DEF Step
<1>3. ASSUME NEW p \in Procs, NEW h \in Hosts, GetPassword(p, h) PROVE [LockNext]_lockVars
  BY <1>3 DEF GetPassword, LockNext
<1>4. ASSUME NEW p \in Procs, Forget(p) \/ Die(p) PROVE [LockNext]_lockVars
  BY <1>4 DEF Forget, Die, LockNext
<1>5. QED
  BY <1>1, <1>2, <1>3, <1>4 DEF Next

\* The lock of the registry is a lock of wait_lock: the registry implements LockSpec.
THEOREM RegistryLocks == Spec => LockSpec
<1>1. Init => LockInit
  BY DEF Init
<1>2. [Next]_vars => [LockNext]_lockVars
  BY StepLocks
<1>3. QED
  BY <1>1, <1>2, PTL DEF Spec, LockSpec

\* Two processes are never both at the registry file, until a lock is stranded.
THEOREM RegistryExcludes == Spec => []BodiesExclude
BY RegistryLocks, LockExcludes, PTL

(***************************************************************************)
(* Types.  A process that is past looking at its cache has a dictionary,   *)
(* and one that writes has the lock.                                       *)
(***************************************************************************)
Looked(p) == pc[p] \notin {"idle", "load"} \/ (pc[p] = "load" /\ at[p] \in {"unlink", "unlock"})

CallInv ==
    /\ TypeOK
    /\ \A p \in Procs: Looked(p) => memo[p] # Nothing
    /\ \A p \in Procs: pc[p] \in {"idle", "choose"} => at[p] = "out"
    /\ \A p \in Procs: pc[p] \in {"fill", "chmod"} => at[p] = "body"

(***************************************************************************)
(* The file: until a lock is stranded or a write is cut, it cannot be      *)
(* decoded exactly while somebody fills it, who has not lost it.           *)
(***************************************************************************)
Whole == ~stranded /\ "cut" \notin mishaps

FileInv == Whole => /\ lost = {}
                    /\ file = Nothing <=> \E p \in Procs: pc[p] = "fill"

(***************************************************************************)
(* The content of the registry is that of the file, or what is about to    *)
(* fill it.                                                                *)
(***************************************************************************)
IsContent(v) ==
    /\ \A p \in Procs: pc[p] = "fill" => v = Updated(p)
    /\ (\A p \in Procs: pc[p] # "fill") => v = file

\* All that is known is a password made, ...
MadeInv ==
    \A h \in Hosts:
        /\ file # Nothing => file[h] <= made
        /\ \A p \in Procs: copy[p][h] <= made /\ db[p][h] <= made
                            /\ (memo[p] # Nothing => memo[p][h] <= made)

\* a new one is in both maps of its maker until it is stored, ...
NewIsCached == \A p \in Procs: pc[p] \in {"read", "write"} => db[p][host[p]] = memo[p][host[p]]

\* ... and what has been returned or cached is no newer than the content v, except a password that its
\* maker has not stored yet; and those who may store one know v.
NewFor(p, h) == pc[p] \in {"read", "write"} /\ h = host[p]

Keeps(v) ==
    /\ \A h \in Hosts: given[h] <= v[h]
    /\ \A p \in Procs: memo[p] # Nothing => \A h \in Hosts: NewFor(p, h) \/ memo[p][h] <= v[h]
    /\ \A p \in Procs, h \in Hosts: NewFor(p, h) \/ db[p][h] <= v[h]
    /\ \A p \in recent: memo[p] # Nothing /\ \A h \in Hosts: v[h] <= memo[p][h]
    /\ \A p \in current: /\ pc[p] \in {"read", "write", "fill", "chmod", "end"}
                         /\ pc[p] \in {"read", "write"} => copy[p] = v

KeepInv == Well => \E v \in Registries: IsContent(v) /\ Keeps(v)

-----------------------------------------------------------------------------
(* Dictionaries *)

LEMMA EmptyIsRegistry == Empty \in Registries
BY RegistryAssumption DEF Empty, Registries

LEMMA NothingIsNone == Nothing \notin Registries
<1>1. PICK h \in Hosts: TRUE
  BY RegistryAssumption
<1>2. DOMAIN Nothing = {}
  BY DEF Nothing
<1>3. \A r \in Registries: DOMAIN r = Hosts
  BY DEF Registries
<1>4. QED
  BY <1>1, <1>2, <1>3

LEMMA EntryIsNat ==
  ASSUME NEW r \in Registries, NEW h \in Hosts PROVE r[h] \in 0 .. MaxPasswords /\ r[h] \in Nat
BY RegistryAssumption DEF Registries

LEMMA ChangedEntry ==
  ASSUME NEW r \in Registries, NEW h \in Hosts, NEW n \in 0 .. MaxPasswords
  PROVE  /\ [r EXCEPT ![h] = n] \in Registries
         /\ [r EXCEPT ![h] = n][h] = n
         /\ \A g \in Hosts: g # h => [r EXCEPT ![h] = n][g] = r[g]
BY DEF Registries

LEMMA DecodedIsRegistry == ASSUME TypeOK PROVE Decoded \in Registries /\ Decoded # Nothing
BY EmptyIsRegistry, NothingIsNone DEF Decoded, TypeOK

LEMMA UpdatedIsRegistry ==
  ASSUME TypeOK, NEW p \in Procs, memo[p] # Nothing
  PROVE  /\ Updated(p) \in Registries
         /\ \A h \in Hosts: Updated(p)[h] = IF memo[p][h] # 0 THEN memo[p][h] ELSE copy[p][h]
BY DEF Updated, TypeOK, Registries

-----------------------------------------------------------------------------
(* The calls keep their types. *)

LEMMA TrackType == ASSUME TypeOK, Track PROVE given' \in Registries
BY EmptyIsRegistry DEF Track, TypeOK

LEMMA ReturnType ==
  ASSUME TypeOK, NEW h \in Hosts, NEW n \in 0 .. MaxPasswords, Return(h, n)
  PROVE  given' \in Registries /\ \A g \in Hosts: given'[g] = given[g] \/ (g = h /\ given'[g] = n)
<1>1. given \in Registries
  BY DEF TypeOK
<1>2. /\ [given EXCEPT ![h] = n] \in Registries /\ [given EXCEPT ![h] = n][h] = n
      /\ \A g \in Hosts: g # h => [given EXCEPT ![h] = n][g] = given[g]
  BY <1>1, ChangedEntry
<1>3. QED
  BY <1>1, <1>2 DEF Return

\* What Caches does: the dictionary and the map of p have the password, and all else is as it was.
CachesTo(p, n) ==
    /\ memo' \in [Procs -> Registries \cup {Nothing}] /\ db' \in [Procs -> Registries]
    /\ memo'[p] \in Registries /\ memo'[p] # Nothing
    /\ memo'[p][host[p]] = n /\ db'[p][host[p]] = n
    /\ \A h \in Hosts: h # host[p] => memo'[p][h] = memo[p][h] /\ db'[p][h] = db[p][h]
    /\ \A q \in Procs: q # p => memo'[q] = memo[q] /\ db'[q] = db[q]

LEMMA CachedPassword ==
  ASSUME TypeOK, NEW p \in Procs, host[p] \in Hosts, memo[p] \in Registries,
         NEW n \in 0 .. MaxPasswords, Caches(p, n)
  PROVE  CachesTo(p, n)
<1> DEFINE r == [memo[p] EXCEPT ![host[p]] = n]
           d == [db[p] EXCEPT ![host[p]] = n]
<1>1. r \in Registries /\ r[host[p]] = n /\ \A h \in Hosts: h # host[p] => r[h] = memo[p][h]
  BY ChangedEntry
<1>2. d \in Registries /\ d[host[p]] = n /\ \A h \in Hosts: h # host[p] => d[h] = db[p][h]
  BY ChangedEntry DEF TypeOK
<1>3. memo' = [memo EXCEPT ![p] = r] /\ db' = [db EXCEPT ![p] = d]
  BY DEF Caches
<1>4. /\ memo' \in [Procs -> Registries \cup {Nothing}] /\ db' \in [Procs -> Registries]
      /\ memo'[p] = r /\ db'[p] = d
      /\ \A q \in Procs: q # p => memo'[q] = memo[q] /\ db'[q] = db[q]
  BY <1>1, <1>2, <1>3 DEF TypeOK
<1>5. r # Nothing
  BY <1>1, NothingIsNone
<1> HIDE DEF r, d
<1>6. QED
  BY <1>1, <1>2, <1>4, <1>5 DEF CachesTo

\* A password that p knows.
LEMMA KnownIsPassword ==
  ASSUME TypeOK, NEW p \in Procs, host[p] \in Hosts, memo[p] \in Registries
  PROVE  /\ Known(p, host[p]) \in 0 .. MaxPasswords
         /\ Known(p, host[p]) \in {db[p][host[p]], memo[p][host[p]]}
<1>1. db[p] \in Registries
  BY DEF TypeOK
<1>2. QED
  BY <1>1, EntryIsNat DEF Known

LEMMA OverType ==
  ASSUME TypeOK, NEW p \in Procs, Over(p)
  PROVE  /\ pc' \in [Procs -> {"idle", "load", "choose", "read", "write", "fill", "chmod", "end"}]
         /\ host' \in [Procs -> Hosts \cup {NoHost}]
         /\ \A q \in Procs: pc'[q] = "idle" <=> host'[q] = NoHost
         /\ copy' \in [Procs -> Registries]
         /\ current' \subseteq Procs
         /\ pc'[p] = "idle" /\ \A q \in Procs: q # p => pc'[q] = pc[q]
BY EmptyIsRegistry DEF TypeOK, Over

LEMMA InLockCall == ASSUME CallInv, LockTypeOK', NEW p \in Procs, InLock(p) PROVE CallInv'
<1>1. given' \in Registries
  BY TrackType DEF CallInv, InLock
<1>2. UNCHANGED <<file, pc, host, memo, db, copy, lost, made, mishaps, current, recent>>
  BY DEF InLock
<1>3. TypeOK'
  BY <1>1, <1>2 DEF CallInv, TypeOK
<1>4. /\ at[p] \in {"create", "open", "poll", "unlink"}
      /\ \A q \in Procs: q # p => at'[q] = at[q]
      /\ at'[p] \in {"unlink", "unlock"} => at[p] = "unlink"
  BY DEF InLock, LockStep, Create, Open, Acquire, TimesOut, Unlink, CallInv, TypeOK, LockTypeOK
<1>5. QED
  BY <1>2, <1>3, <1>4 DEF CallInv, Looked

LEMMA ReadersCall ==
  ASSUME CallInv, LockTypeOK', NEW p \in Procs, Load(p) \/ Read(p) PROVE CallInv'
<1> USE DEF CallInv, Looked
<1>1. Decoded \in Registries /\ Decoded # Nothing
  BY DecodedIsRegistry
<1>2. file' \in Registries \cup {Nothing} /\ lost' \subseteq Procs
  BY <1>1 DEF Load, Read, Decode, TypeOK
<1>3. at[p] = "body" /\ at' = [at EXCEPT ![p] = "unlink"]
  BY DEF Load, Read, Leave
<1>4. \A q \in Procs: q # p => at'[q] = at[q]
  BY <1>3 DEF TypeOK, LockTypeOK
<1>5. at'[p] = "unlink"
  BY <1>3 DEF TypeOK, LockTypeOK
<1>6. CASE Load(p)
  BY <1>1, <1>2, <1>4, <1>5, <1>6 DEF Load, TypeOK
<1>7. CASE Read(p)
  BY <1>1, <1>2, <1>4, <1>5, <1>7 DEF Read, TypeOK
<1>8. QED
  BY <1>6, <1>7

LEMMA WritersCall ==
  ASSUME CallInv, LockTypeOK', NEW p \in Procs, Truncate(p) \/ Fill(p) \/ Chmod(p) PROVE CallInv'
<1> USE DEF CallInv, Looked
<1>1. CASE Truncate(p)
  <2>1. given' \in Registries
    BY <1>1, TrackType DEF Truncate
  <2>2. QED
    BY <1>1, <2>1 DEF Truncate, TypeOK, lockVars
<1>2. CASE Fill(p)
  <2>1. memo[p] # Nothing
    BY <1>2 DEF Fill
  <2>2. file' \in Registries \cup {Nothing}
    BY <1>2, <2>1, UpdatedIsRegistry DEF Fill, TypeOK
  <2>3. QED
    BY <1>2, <2>2 DEF Fill, TypeOK, lockVars
<1>3. CASE Chmod(p)
  BY <1>3 DEF Chmod, Leave, TypeOK, LockTypeOK
<1>4. QED
  BY <1>1, <1>2, <1>3

LEMMA FailuresCall ==
  ASSUME CallInv, LockTypeOK', NEW p \in Procs,
         WriteRaises(p) \/ ChmodRaises(p) \/ LockRaises(p) \/ Die(p)
  PROVE  CallInv'
<1> USE DEF CallInv, Looked
<1>1. Over(p) /\ Released(p) /\ Track
  BY DEF WriteRaises, ChmodRaises, LockRaises, Die
<1>2. given' \in Registries
  BY <1>1, TrackType
<1>3. at'[p] = "out" /\ \A q \in Procs: q # p => at'[q] = at[q]
  BY <1>1 DEF Released, TypeOK, LockTypeOK
<1>4. /\ memo' \in [Procs -> Registries \cup {Nothing}]
      /\ db' \in [Procs -> Registries]
      /\ \A q \in Procs: q # p => memo'[q] = memo[q]
      /\ file' \in Registries \cup {Nothing} /\ made' = made
      /\ lost' \subseteq Procs /\ recent' \subseteq Procs
      /\ mishaps' \subseteq {"outdated", "cut"}
  <2>1. CASE WriteRaises(p)
    BY <2>1 DEF WriteRaises, TypeOK
  <2>2. CASE ChmodRaises(p) \/ LockRaises(p)
    BY <2>2 DEF ChmodRaises, LockRaises, TypeOK
  <2>3. CASE Die(p)
    BY <2>3, EmptyIsRegistry DEF Die, TypeOK
  <2>4. QED
    BY <2>1, <2>2, <2>3
<1>5. TypeOK'
  BY <1>1, <1>2, <1>4, OverType DEF TypeOK
<1>6. QED
  BY <1>1, <1>3, <1>4, <1>5, OverType

LEMMA ClientCall ==
  ASSUME CallInv, LockTypeOK', NEW p \in Procs,
         (\E h \in Hosts: GetPassword(p, h)) \/ Make(p) \/ Unlocks(p) \/ Again(p) \/ Forget(p)
  PROVE  CallInv'
<1> USE DEF CallInv, Looked
<1>1. ASSUME NEW h \in Hosts, GetPassword(p, h) PROVE CallInv'
  <2>1. h # NoHost
    BY RegistryAssumption
  <2>2. CASE memo[p] = Nothing
    BY <1>1, <2>1, <2>2 DEF GetPassword, Enter, TypeOK, LockTypeOK
  <2>3. CASE memo[p] # Nothing
    BY <1>1, <2>1, <2>3 DEF GetPassword, TypeOK, lockVars
  <2>4. QED
    BY <2>2, <2>3
<1>2. CASE Make(p)
  <2>1. host[p] \in Hosts /\ memo[p] \in Registries
    BY <1>2, RegistryAssumption DEF Make, TypeOK
  <2>2. made' \in 0 .. MaxPasswords
    BY <1>2, RegistryAssumption DEF Make, TypeOK
  <2>3. CachesTo(p, made')
    BY <1>2, <2>1, <2>2, CachedPassword DEF Make
  <2>4. /\ memo' \in [Procs -> Registries \cup {Nothing}] /\ db' \in [Procs -> Registries]
        /\ memo'[p] # Nothing
        /\ \A q \in Procs: q # p => memo'[q] = memo[q]
    BY <2>3 DEF CachesTo
  <2>5. /\ pc'[p] = "read" /\ at'[p] = "create"
        /\ \A q \in Procs: q # p => pc'[q] = pc[q] /\ at'[q] = at[q]
    BY <1>2 DEF Make, Enter, TypeOK, LockTypeOK
  <2>6. TypeOK'
    BY <1>2, <2>2, <2>4 DEF Make, TypeOK
  <2>7. QED
    BY <2>4, <2>5, <2>6
<1>3. CASE Unlocks(p)
  BY <1>3 DEF Unlocks, Unlock, Released, TypeOK, LockTypeOK
<1>4. CASE Again(p)
  BY <1>4 DEF Again, Enter, TypeOK, LockTypeOK, regVars
<1>5. CASE Forget(p)
  BY <1>5, EmptyIsRegistry DEF Forget, TypeOK, lockVars
<1>6. QED
  BY <1>1, <1>2, <1>3, <1>4, <1>5

LEMMA ReturnsCall ==
  ASSUME CallInv, LockTypeOK', NEW p \in Procs, Found(p) \/ Returns(p) PROVE CallInv'
<1> USE DEF CallInv, Looked
<1>1. pc[p] # "idle" /\ memo[p] # Nothing /\ Over(p) /\ UNCHANGED <<file, lost, made, mishaps>>
  BY DEF Found, Returns
<1>a. host[p] \in Hosts /\ memo[p] \in Registries
  BY <1>1, RegistryAssumption DEF TypeOK
<1>2. given' \in Registries
  <2>1. CASE Found(p)
    BY <1>a, <2>1, ReturnType, KnownIsPassword DEF Found
  <2>2. CASE Returns(p)
    BY <1>a, <2>2, ReturnType, EntryIsNat DEF Returns
  <2>3. QED
    BY <2>1, <2>2
<1>3. /\ memo' \in [Procs -> Registries \cup {Nothing}] /\ db' \in [Procs -> Registries]
      /\ memo'[p] # Nothing
      /\ \A q \in Procs: q # p => memo'[q] = memo[q]
      /\ recent' \subseteq Procs
  <2>1. CASE Found(p)
    <3>1. CachesTo(p, Known(p, host[p]))
      BY <1>a, <2>1, CachedPassword, KnownIsPassword DEF Found
    <3>2. QED
      BY <2>1, <3>1 DEF CachesTo, Found, TypeOK
  <2>2. CASE Returns(p)
    BY <1>1, <2>2 DEF Returns, TypeOK
  <2>3. QED
    BY <2>1, <2>2
<1>4. at'[p] = "out" /\ \A q \in Procs: q # p => at'[q] = at[q]
  BY DEF Found, Returns, Unlock, Released, TypeOK, LockTypeOK, lockVars
<1>5. TypeOK'
  BY <1>1, <1>2, <1>3, OverType DEF TypeOK
<1>6. QED
  BY <1>1, <1>3, <1>4, <1>5, OverType

LEMMA NextCall == ASSUME CallInv, LockTypeOK', [Next]_vars PROVE CallInv'
<1>1. CASE UNCHANGED vars
  BY <1>1 DEF vars, lockVars, regVars, CallInv, TypeOK, Looked
<1>2. CASE Next
  BY <1>2, InLockCall, ReadersCall, WritersCall, FailuresCall, ClientCall, ReturnsCall DEF Next, Step
<1>3. QED
  BY <1>1, <1>2

LEMMA InitCall == ASSUME Init, LockTypeOK PROVE CallInv
<1>1. 0 \in 0 .. MaxPasswords
  BY RegistryAssumption
<1>2. QED
  BY <1>1, EmptyIsRegistry DEF Init, LockInit, CallInv, TypeOK, Looked

\* The types of the lock and of the registry.
THEOREM TypeCorrect == Spec => []TypeOK
<1>1. Init => LockInv /\ CallInv
  BY LockInitInv, InitCall DEF Init, LockInv
<1>2. LockInv /\ CallInv /\ [Next]_vars => LockInv' /\ CallInv'
  BY StepLocks, LockNextInv, NextCall DEF LockInv
<1>3. CallInv => TypeOK
  BY DEF CallInv
<1>4. QED
  BY <1>1, <1>2, <1>3, PTL DEF Spec

-----------------------------------------------------------------------------
(* The file *)

LEMMA AloneInBody ==
  ASSUME LockInv, CallInv, ~stranded, NEW p \in Procs, at[p] = "body"
  PROVE  \A q \in Procs: pc[q] \in {"fill", "chmod"} => q = p
BY LockInvExcludes DEF BodiesExclude, InBody, CallInv

LEMMA Monotone ==
  ASSUME TypeOK, [Next]_vars PROVE (Whole' => Whole) /\ (Well' => Well)
<1>1. stranded => stranded'
  <2>1. CASE UNCHANGED lockVars
    BY <2>1 DEF lockVars
  <2>2. CASE LockNext
    BY <2>2 DEF LockNext, LockStep, Enter, Create, Open, Acquire, TimesOut, Leave, Unlink, Released
  <2>3. QED
    BY <2>1, <2>2, StepLocks
<1>2. mishaps \subseteq mishaps'
  <2>1. CASE UNCHANGED vars
    BY <2>1 DEF vars, regVars
  <2>2. ASSUME NEW p \in Procs, Step(p) \/ Forget(p) \/ Die(p) \/ \E h \in Hosts: GetPassword(p, h)
        PROVE  mishaps \subseteq mishaps'
    BY <2>2 DEF Step, Forget, Die, GetPassword, InLock, Load, Read, Truncate, Fill, Chmod,
       WriteRaises, ChmodRaises, LockRaises, Found, Make, Unlocks, Again, Returns, regVars
  <2>3. QED
    BY <2>1, <2>2 DEF Next
<1>3. QED
  BY <1>1, <1>2 DEF Whole, Well

\* A reader has the lock, and so nobody fills the file that it reads.
LEMMA ReaderFindsFile ==
  ASSUME LockInv, CallInv, FileInv, Whole, NEW p \in Procs, Load(p) \/ Read(p)
  PROVE  /\ file # Nothing /\ file \in Registries /\ Decoded = file
         /\ \A q \in Procs: pc[q] # "fill"
         /\ UNCHANGED <<file, lost>>
<1>1. at[p] = "body" /\ pc[p] # "fill"
  BY DEF Load, Read, Leave
<1>2. \A q \in Procs: pc[q] # "fill"
  BY <1>1, AloneInBody DEF Whole
<1>3. file # Nothing
  BY <1>2 DEF FileInv
<1>4. file \in Registries /\ Decoded = file
  BY <1>3 DEF CallInv, TypeOK, Decoded
<1>5. UNCHANGED <<file, lost>>
  BY <1>3, <1>4 DEF Load, Read, Decode
<1>6. QED
  BY <1>2, <1>3, <1>4, <1>5

LEMMA FileKept ==
  ASSUME FileInv, Whole, UNCHANGED <<file, lost>>,
         \A q \in Procs: pc'[q] = "fill" <=> pc[q] = "fill"
  PROVE  FileInv'
BY DEF FileInv

LEMMA NextFile ==
  ASSUME LockInv, CallInv, CallInv', FileInv, [Next]_vars, Whole, Whole' PROVE FileInv'
<1> USE DEF CallInv
<1>1. CASE UNCHANGED vars
  BY <1>1 DEF vars, regVars, FileInv
<1>2. ASSUME NEW p \in Procs, Load(p) \/ Read(p) PROVE FileInv'
  <2>1. UNCHANGED <<file, lost, pc>>
    BY <1>2, ReaderFindsFile DEF Load, Read
  <2>2. QED
    BY <2>1, FileKept
<1>3. ASSUME NEW p \in Procs, Truncate(p) PROVE FileInv'
  BY <1>3 DEF Truncate, FileInv, TypeOK
<1>4. ASSUME NEW p \in Procs, Fill(p) PROVE FileInv'
  <2>1. file = Nothing /\ lost = {} /\ pc[p] = "fill" /\ memo[p] # Nothing
    BY <1>4 DEF Fill, FileInv, Looked
  <2>2. file' = Updated(p) /\ lost' = {}
    BY <1>4, <2>1 DEF Fill
  <2>3. file' # Nothing
    BY <2>1, <2>2, UpdatedIsRegistry, NothingIsNone
  <2>4. \A q \in Procs: pc[q] = "fill" => q = p
    BY <2>1, AloneInBody DEF Whole
  <2>5. pc' = [pc EXCEPT ![p] = "chmod"]
    BY <1>4 DEF Fill
  <2>6. \A q \in Procs: pc'[q] # "fill"
    BY <2>4, <2>5 DEF TypeOK
  <2>7. QED
    BY <2>2, <2>3, <2>6 DEF FileInv
<1>5. ASSUME NEW p \in Procs, WriteRaises(p) \/ ChmodRaises(p) \/ LockRaises(p) \/ Die(p)
                                \/ Found(p) \/ Returns(p)
      PROVE  FileInv'
  <2>1. pc[p] # "fill"
    <3>1. CASE Die(p) \/ WriteRaises(p)
      BY <3>1 DEF Die, WriteRaises, Whole
    <3>2. CASE LockRaises(p)
      BY <3>2 DEF LockRaises
    <3>3. CASE ChmodRaises(p) \/ Found(p) \/ Returns(p)
      BY <3>3 DEF ChmodRaises, Found, Returns
    <3>4. QED
      BY <1>5, <3>1, <3>2, <3>3
  <2>2. Over(p)
    BY <1>5 DEF WriteRaises, ChmodRaises, LockRaises, Die, Found, Returns
  <2>3. file' = file /\ lost' = lost
    BY <1>5, <2>1 DEF WriteRaises, ChmodRaises, LockRaises, Die, Found, Returns, FileInv
  <2>4. QED
    BY <2>1, <2>2, <2>3, OverType, FileKept
<1>6. ASSUME NEW p \in Procs,
             InLock(p) \/ Chmod(p) \/ Make(p) \/ Unlocks(p) \/ Again(p) \/ Forget(p)
                \/ \E h \in Hosts: GetPassword(p, h)
      PROVE  FileInv'
  <2>1. UNCHANGED <<file, lost>>
    BY <1>6 DEF InLock, Chmod, Make, Unlocks, Again, Forget, GetPassword, regVars
  <2>2. \A q \in Procs: pc'[q] = "fill" <=> pc[q] = "fill"
    BY <1>6 DEF InLock, Chmod, Make, Unlocks, Unlock, Again, Forget, GetPassword, regVars, TypeOK
  <2>3. QED
    BY <2>1, <2>2, FileKept
<1>7. QED
  BY <1>1, <1>2, <1>3, <1>4, <1>5, <1>6 DEF Next, Step

-----------------------------------------------------------------------------
(* The passwords *)

LEMMA NextMade == ASSUME CallInv, CallInv', MadeInv, [Next]_vars PROVE MadeInv'
<1> USE DEF CallInv, MadeInv
<1>0. \A r \in Registries, h \in Hosts: r[h] \in Nat
  BY EntryIsNat
<1>e. \A h \in Hosts: Empty[h] = 0
  BY DEF Empty
<1>m. made \in Nat
  BY RegistryAssumption DEF TypeOK
<1>1. CASE UNCHANGED vars
  BY <1>1 DEF vars, regVars
<1>2. ASSUME NEW p \in Procs, Load(p) \/ Read(p) PROVE MadeInv'
  <2>1. \A h \in Hosts: Decoded[h] <= made
    BY <1>e, <1>m DEF Decoded
  <2>2. file' = Decoded /\ made' = made
    BY <1>2 DEF Load, Read, Decode
  <2>3. \A q \in Procs: /\ memo'[q] = memo[q] \/ memo'[q] = Decoded
                        /\ copy'[q] = copy[q] \/ copy'[q] = Decoded
    BY <1>2 DEF Load, Read, TypeOK
  <2>4. QED
    BY <1>2, <2>1, <2>2, <2>3 DEF Load, Read
<1>3. ASSUME NEW p \in Procs, Fill(p) PROVE MadeInv'
  <2>1. memo[p] # Nothing
    BY <1>3 DEF Fill, Looked
  <2>2. \A h \in Hosts: Updated(p)[h] <= made
    BY <2>1, UpdatedIsRegistry
  <2>3. file' \in {file, Updated(p), Nothing} /\ UNCHANGED <<memo, db, copy, made>>
    BY <1>3 DEF Fill
  <2>4. QED
    BY <2>2, <2>3
<1>4. ASSUME NEW p \in Procs, Make(p) PROVE MadeInv'
  <2>1. host[p] \in Hosts /\ memo[p] \in Registries /\ made' \in 0 .. MaxPasswords
    BY <1>4, RegistryAssumption DEF Make, TypeOK, Looked
  <2>2. CachesTo(p, made')
    BY <1>4, <2>1, CachedPassword DEF Make
  <2>5. made' = made + 1 /\ UNCHANGED <<file, copy>> /\ memo[p] # Nothing
    BY <1>4 DEF Make, Looked
  <2>6. \A h \in Hosts, q \in Procs: copy[q][h] \in Nat
    BY <1>0 DEF TypeOK
  <2>7. \A h \in Hosts: file # Nothing => file[h] \in Nat
    BY <1>0 DEF TypeOK
  <2>8. \A h \in Hosts, q \in Procs: memo[q] # Nothing => memo[q][h] \in Nat
    BY <1>0 DEF TypeOK
  <2>c. \A h \in Hosts, q \in Procs: db[q][h] \in Nat
    BY <1>0 DEF TypeOK
  <2>9. ASSUME NEW h \in Hosts PROVE file' # Nothing => file'[h] <= made'
    BY <1>m, <2>5, <2>7
  <2>10. ASSUME NEW h \in Hosts, NEW q \in Procs PROVE copy'[q][h] <= made'
    BY <1>m, <2>5, <2>6
  <2>11. ASSUME NEW h \in Hosts, NEW q \in Procs PROVE memo'[q] # Nothing => memo'[q][h] <= made'
    <3>1. CASE q = p /\ h = host[p]
      BY <3>1, <2>2, <2>5, <1>m DEF CachesTo
    <3>2. CASE q = p /\ h # host[p]
      BY <3>2, <2>2, <2>5, <2>8, <1>m DEF CachesTo
    <3>3. CASE q # p
      BY <3>3, <2>2, <2>5, <2>8, <1>m DEF CachesTo
    <3>4. QED
      BY <3>1, <3>2, <3>3
  <2>12. ASSUME NEW h \in Hosts, NEW q \in Procs PROVE db'[q][h] <= made'
    <3>1. CASE q = p /\ h = host[p]
      BY <3>1, <2>2, <2>5, <1>m DEF CachesTo
    <3>2. CASE q # p \/ h # host[p]
      <4>1. db'[q][h] = db[q][h]
        BY <3>2, <2>2 DEF CachesTo
      <4>2. QED
        BY <4>1, <2>5, <2>c, <1>m
    <3>3. QED
      BY <3>1, <3>2
  <2>13. QED
    BY <2>9, <2>10, <2>11, <2>12
<1>5. ASSUME NEW p \in Procs, WriteRaises(p) \/ ChmodRaises(p) \/ LockRaises(p) \/ Die(p)
                                \/ Returns(p)
      PROVE  MadeInv'
  <2>1. file' \in {file, Nothing} /\ made' = made /\ copy' = [copy EXCEPT ![p] = Empty]
    BY <1>5 DEF WriteRaises, ChmodRaises, LockRaises, Die, Returns, Over
  <2>2. \A q \in Procs: /\ memo'[q] = memo[q] \/ memo'[q] = Nothing
                        /\ db'[q] = db[q] \/ db'[q] = Empty
    BY <1>5 DEF WriteRaises, ChmodRaises, LockRaises, Die, Returns, TypeOK
  <2>3. \A q \in Procs: copy'[q] = copy[q] \/ copy'[q] = Empty
    BY <2>1 DEF TypeOK
  <2>4. QED
    BY <1>e, <1>m, <2>1, <2>2, <2>3
<1>6. ASSUME NEW p \in Procs,
             InLock(p) \/ Truncate(p) \/ Chmod(p) \/ Unlocks(p) \/ Again(p) \/ Forget(p)
                \/ \E h \in Hosts: GetPassword(p, h)
      PROVE  MadeInv'
  <2>1. /\ UNCHANGED <<made, copy>>
        /\ file' = file \/ file' = Nothing
        /\ \A q \in Procs: /\ memo'[q] = memo[q] \/ memo'[q] = Nothing
                           /\ db'[q] = db[q] \/ db'[q] = Empty
    BY <1>6 DEF InLock, Truncate, Chmod, Unlocks, Again, Forget, GetPassword, regVars, TypeOK
  <2>2. QED
    BY <1>e, <1>m, <2>1
<1>7. ASSUME NEW p \in Procs, Found(p) PROVE MadeInv'
  <2>1. host[p] \in Hosts /\ memo[p] \in Registries /\ memo[p] # Nothing
    BY <1>7, RegistryAssumption DEF Found, TypeOK, Looked
  <2> DEFINE n == Known(p, host[p])
  <2>2. n \in {db[p][host[p]], memo[p][host[p]]} /\ CachesTo(p, n)
    BY <1>7, <2>1, CachedPassword, KnownIsPassword DEF Found
  <2>3. n <= made
    BY <2>1, <2>2
  <2>4. UNCHANGED <<file, made>> /\ copy' = [copy EXCEPT ![p] = Empty]
    BY <1>7 DEF Found, Over
  <2>5. \A q \in Procs: copy'[q] = copy[q] \/ copy'[q] = Empty
    BY <2>4 DEF TypeOK
  <2> HIDE DEF n
  <2>6. \A h \in Hosts, q \in Procs: /\ db'[q][h] \in {db[q][h], n}
                                     /\ memo'[q][h] \in {memo[q][h], n}
                                     /\ memo'[q] # Nothing => memo[q] # Nothing
    BY <2>1, <2>2 DEF CachesTo
  <2>7. QED
    BY <1>e, <1>m, <2>3, <2>4, <2>5, <2>6
<1>8. QED
  BY <1>1, <1>2, <1>3, <1>4, <1>5, <1>6, <1>7 DEF Next, Step

LEMMA NextCached == ASSUME CallInv, NewIsCached, [Next]_vars PROVE NewIsCached'
<1> USE DEF CallInv, NewIsCached
<1>1. CASE UNCHANGED vars
  BY <1>1 DEF vars, regVars
<1>2. ASSUME NEW p \in Procs, Load(p) PROVE NewIsCached'
  BY <1>2 DEF Load, TypeOK
<1>3. ASSUME NEW p \in Procs, Make(p) PROVE NewIsCached'
  <2>1. host[p] \in Hosts /\ memo[p] \in Registries /\ made' \in 0 .. MaxPasswords
    BY <1>3, RegistryAssumption DEF Make, TypeOK, Looked
  <2>2. CachesTo(p, made')
    BY <1>3, <2>1, CachedPassword DEF Make
  <2>3. UNCHANGED host /\ \A q \in Procs: q # p => pc'[q] = pc[q]
    BY <1>3 DEF Make, TypeOK
  <2>4. QED
    BY <2>2, <2>3 DEF CachesTo
<1>4. ASSUME NEW p \in Procs, WriteRaises(p) \/ ChmodRaises(p) \/ LockRaises(p) \/ Die(p)
                                \/ Returns(p)
      PROVE  NewIsCached'
  <2>1. /\ Over(p)
        /\ \A q \in Procs: q # p => memo'[q] = memo[q] /\ db'[q] = db[q]
    BY <1>4 DEF WriteRaises, ChmodRaises, LockRaises, Die, Returns, TypeOK
  <2>2. pc'[p] = "idle" /\ \A q \in Procs: q # p => pc'[q] = pc[q] /\ host'[q] = host[q]
    BY <2>1 DEF Over, TypeOK
  <2>3. QED
    BY <2>1, <2>2
<1>5. ASSUME NEW p \in Procs, Found(p) PROVE NewIsCached'
  <2>1. Over(p) /\ Caches(p, Known(p, host[p]))
    BY <1>5 DEF Found
  <2>2. \A q \in Procs: q # p => memo'[q] = memo[q] /\ db'[q] = db[q]
    BY <2>1 DEF Caches, TypeOK
  <2>3. pc'[p] = "idle" /\ \A q \in Procs: q # p => pc'[q] = pc[q] /\ host'[q] = host[q]
    BY <2>1 DEF Over, TypeOK
  <2>4. QED
    BY <2>2, <2>3
<1>6. ASSUME NEW p \in Procs,
             InLock(p) \/ Read(p) \/ Truncate(p) \/ Fill(p) \/ Chmod(p) \/ Again(p)
      PROVE  NewIsCached'
  <2>1. /\ UNCHANGED <<host, memo, db>>
        /\ \A q \in Procs: pc'[q] \in {"read", "write"} => pc[q] = pc'[q]
    BY <1>6 DEF InLock, Read, Truncate, Fill, Chmod, Again, regVars, TypeOK
  <2>2. QED
    BY <2>1
<1>7. ASSUME NEW p \in Procs, Unlocks(p) PROVE NewIsCached'
  <2>1. UNCHANGED <<host, memo, db>> /\ pc[p] \in {"load", "read", "write"}
    BY <1>7 DEF Unlocks, Unlock, TypeOK
  <2>2. \A q \in Procs: pc'[q] \in {"read", "write"} => pc[q] \in {"read", "write"}
    BY <1>7, <2>1 DEF Unlocks, TypeOK
  <2>3. QED
    BY <2>1, <2>2
<1>8. ASSUME NEW p \in Procs, Forget(p) \/ \E h \in Hosts: GetPassword(p, h) PROVE NewIsCached'
  <2>1. pc[p] = "idle" /\ pc'[p] \in {"idle", "load", "choose"}
    BY <1>8 DEF Forget, GetPassword, TypeOK
  <2>2. \A q \in Procs: q # p => /\ pc'[q] = pc[q] /\ host'[q] = host[q]
                                 /\ memo'[q] = memo[q] /\ db'[q] = db[q]
    BY <1>8 DEF Forget, GetPassword, TypeOK
  <2>3. QED
    BY <2>1, <2>2
<1>9. QED
  BY <1>1, <1>2, <1>3, <1>4, <1>5, <1>6, <1>7, <1>8 DEF Next, Step

IInv == LockInv /\ CallInv /\ FileInv /\ MadeInv /\ NewIsCached /\ KeepInv

\* Steps that leave the file, and what those who fill it have to write, leave the content.
LEMMA SameContent ==
  ASSUME NEW v, IsContent(v), file' = file,
         \A q \in Procs: pc'[q] = "fill" <=> pc[q] = "fill",
         \A q \in Procs: pc[q] = "fill" => memo'[q] = memo[q] /\ copy'[q] = copy[q]
  PROVE  IsContent(v)'
BY DEF IsContent, Updated

LEMMA ContentIsMade ==
  ASSUME CallInv, FileInv, MadeInv, Whole, NEW v, IsContent(v)
  PROVE  \A h \in Hosts: v[h] <= made
<1>1. CASE \E p \in Procs: pc[p] = "fill"
  <2>1. PICK p \in Procs: pc[p] = "fill"
    BY <1>1
  <2>2. v = Updated(p) /\ memo[p] # Nothing
    BY <2>1 DEF IsContent, CallInv, Looked
  <2>3. QED
    BY <2>2, UpdatedIsRegistry DEF MadeInv, CallInv
<1>2. CASE \A p \in Procs: pc[p] # "fill"
  BY <1>2 DEF IsContent, FileInv, MadeInv
<1>3. QED
  BY <1>1, <1>2

\* What a step of p has to leave true of v for the other processes to keep it.
LEMMA SameKeeps ==
  ASSUME CallInv, NEW v, Keeps(v), NEW p \in Procs,
         \A h \in Hosts: given'[h] <= v[h],
         \A q \in Procs: q # p => /\ pc'[q] = pc[q] /\ host'[q] = host[q]
                                  /\ memo'[q] = memo[q] /\ copy'[q] = copy[q]
                                  /\ db'[q] = db[q],
         \A h \in Hosts: NewFor(p, h)' \/ db'[p][h] <= v[h],
         recent' \subseteq recent \cup {p}, current' \subseteq current \cup {p},
         memo'[p] # Nothing => \A h \in Hosts: NewFor(p, h)' \/ memo'[p][h] <= v[h],
         p \in recent' => memo'[p] # Nothing /\ \A h \in Hosts: v[h] <= memo'[p][h],
         p \in current' => /\ pc'[p] \in {"read", "write", "fill", "chmod", "end"}
                           /\ pc'[p] \in {"read", "write"} => copy'[p] = v
  PROVE  Keeps(v)'
BY DEF Keeps, NewFor, CallInv, TypeOK

LEMMA InLockKeeps ==
  ASSUME IInv, Well, Well', NEW v \in Registries, IsContent(v), Keeps(v),
         NEW p \in Procs, InLock(p) \/ Again(p) \/ Chmod(p) \/ Unlocks(p) \/ Forget(p)
                            \/ \E h \in Hosts: GetPassword(p, h)
  PROVE  IsContent(v)' /\ Keeps(v)'
<1> USE DEF IInv, CallInv
<1>1. given' = given /\ UNCHANGED <<file, copy>> /\ current' = current
  BY DEF InLock, Track, Again, Chmod, Unlocks, Forget, GetPassword, regVars
<1>2. /\ \A q \in Procs: q # p => pc'[q] = pc[q] /\ host'[q] = host[q] /\ memo'[q] = memo[q]
      /\ recent' \subseteq recent
      /\ p \in recent' => memo'[p] = memo[p]
      /\ memo'[p] # Nothing => memo'[p] = memo[p]
      /\ \A q \in Procs: q # p => db'[q] = db[q]
      /\ db'[p] \in {db[p], Empty}
  BY DEF InLock, Again, Chmod, Unlocks, Forget, GetPassword, regVars, TypeOK
<1>3. /\ \A q \in Procs: pc'[q] = "fill" <=> pc[q] = "fill"
      /\ pc[p] = "fill" => memo'[p] = memo[p]
  BY DEF InLock, Again, Chmod, Unlocks, Unlock, Forget, GetPassword, regVars, TypeOK
<1>4. IsContent(v)'
  BY <1>1, <1>2, <1>3, SameContent
<1>5. \A h \in Hosts: given'[h] <= v[h]
  BY <1>1 DEF Keeps
<1>6. memo'[p] # Nothing => \A h \in Hosts: NewFor(p, h)' \/ memo'[p][h] <= v[h]
  <2>1. \A h \in Hosts: NewFor(p, h) => NewFor(p, h)'
    BY DEF InLock, Again, Chmod, Unlocks, Unlock, Forget, GetPassword, regVars, TypeOK, NewFor
  <2>2. QED
    BY <1>2, <2>1 DEF Keeps
<1>d. \A h \in Hosts: NewFor(p, h)' \/ db'[p][h] <= v[h]
  <2>1. \A h \in Hosts: NewFor(p, h) => NewFor(p, h)'
    BY DEF InLock, Again, Chmod, Unlocks, Unlock, Forget, GetPassword, regVars, TypeOK, NewFor
  <2>2. \A h \in Hosts: Empty[h] <= v[h]
    BY EntryIsNat DEF Empty
  <2>3. QED
    BY <1>2, <2>1, <2>2 DEF Keeps
<1>7. p \in recent' => memo'[p] # Nothing /\ \A h \in Hosts: v[h] <= memo'[p][h]
  BY <1>2 DEF Keeps
<1>8. p \in current => /\ pc'[p] \in {"read", "write", "fill", "chmod", "end"}
                       /\ pc'[p] \in {"read", "write"} => pc[p] \in {"read", "write"}
  BY DEF Keeps, InLock, Again, Chmod, Unlocks, Unlock, Forget, GetPassword, regVars, TypeOK
<1>9. p \in current' => /\ pc'[p] \in {"read", "write", "fill", "chmod", "end"}
                        /\ pc'[p] \in {"read", "write"} => copy'[p] = v
  BY <1>1, <1>8 DEF Keeps
<1>10. Keeps(v)'
  BY <1>1, <1>2, <1>5, <1>6, <1>d, <1>7, <1>9, SameKeeps
<1>11. QED
  BY <1>4, <1>10

LEMMA ReadersKeep ==
  ASSUME IInv, Well, NEW v \in Registries, IsContent(v), Keeps(v),
         NEW p \in Procs, Load(p) \/ Read(p)
  PROVE  IsContent(v)' /\ Keeps(v)'
<1> USE DEF IInv, CallInv
<1>1. /\ file # Nothing /\ Decoded = file /\ file' = file
      /\ \A q \in Procs: pc[q] # "fill"
  BY ReaderFindsFile DEF Well, Whole
<1>2. v = file
  BY <1>1 DEF IsContent
<1>3. UNCHANGED <<pc, host, db, given>>
  BY DEF Load, Read
<1>4. IsContent(v)'
  BY <1>1, <1>3, SameContent
<1>5. \A h \in Hosts: v[h] <= v[h]
  BY EntryIsNat
<1>6. CASE Load(p)
  <2>1. /\ memo'[p] = v
        /\ \A q \in Procs: q # p => memo'[q] = memo[q]
        /\ recent' = recent \cup {p} /\ UNCHANGED <<copy, current>>
    BY <1>1, <1>2, <1>6 DEF Load, TypeOK
  <2>2. v # Nothing
    BY <1>1, <1>2
  <2>3. Keeps(v)'
    BY <1>3, <1>5, <2>1, <2>2, SameKeeps DEF Keeps, NewFor
  <2>4. QED
    BY <1>4, <2>3
<1>7. CASE Read(p)
  <2>1. /\ copy'[p] = v /\ pc[p] = "read"
        /\ \A q \in Procs: q # p => copy'[q] = copy[q]
        /\ current' = current \cup {p} /\ UNCHANGED <<memo, recent>>
    BY <1>1, <1>2, <1>7 DEF Read, TypeOK
  <2>2. \A h \in Hosts: NewFor(p, h) => NewFor(p, h)'
    BY <1>3 DEF NewFor
  <2>3. Keeps(v)'
    BY <1>3, <2>1, <2>2, SameKeeps DEF Keeps
  <2>4. QED
    BY <1>4, <2>3
<1>8. QED
  BY <1>6, <1>7

LEMMA TruncateKeeps ==
  ASSUME IInv, Well, Well', NEW v \in Registries, IsContent(v), Keeps(v),
         NEW p \in Procs, Truncate(p)
  PROVE  \E u \in Registries: IsContent(u)' /\ Keeps(u)'
<1> USE DEF IInv, CallInv
<1>1. /\ pc[p] = "write" /\ at[p] = "body" /\ pc' = [pc EXCEPT ![p] = "fill"]
      /\ current' = current \cap {p} /\ recent' = recent \cap {p}
      /\ UNCHANGED <<host, memo, db, copy>>
  BY DEF Truncate
<1>2. p \in current /\ p \in recent /\ given' = given
  BY DEF Truncate, Well, Track
<1>3. /\ pc'[p] = "fill" /\ \A q \in Procs: q # p => pc'[q] = pc[q]
      /\ \A q \in Procs: q # p => pc'[q] # "fill"
  BY <1>1, AloneInBody DEF TypeOK, Well
<1>4. copy[p] = v /\ memo[p] # Nothing /\ \A h \in Hosts: v[h] <= memo[p][h]
  BY <1>1, <1>2 DEF Keeps
<1> DEFINE u == Updated(p)
<1>5. u \in Registries /\ \A h \in Hosts: u[h] = IF memo[p][h] # 0 THEN memo[p][h] ELSE v[h]
  BY <1>4, UpdatedIsRegistry
<1>6. \A h \in Hosts: v[h] \in Nat /\ memo[p][h] \in Nat /\ u[h] \in Nat
  BY <1>4, <1>5, EntryIsNat DEF TypeOK
<1>7. \A h \in Hosts: u[h] = memo[p][h] /\ v[h] <= u[h]
  BY <1>4, <1>5, <1>6
<1>8. PICK w \in Registries: w = u
  BY <1>5
<1>9. IsContent(w)'
  BY <1>1, <1>3, <1>8 DEF IsContent, Updated
<1>10. \A h \in Hosts: w[h] = memo[p][h] /\ v[h] <= w[h] /\ w[h] \in Nat
  BY <1>6, <1>7, <1>8
<1>11. \A h \in Hosts: given'[h] <= w[h]
  <2>1. \A h \in Hosts: given[h] \in Nat /\ given[h] <= v[h]
    BY EntryIsNat DEF Keeps, TypeOK
  <2>2. QED
    BY <1>2, <1>6, <1>10, <2>1
<1>12. ASSUME NEW q \in Procs, memo'[q] # Nothing, NEW h \in Hosts
       PROVE  NewFor(q, h)' \/ memo'[q][h] <= w[h]
  <2>1. CASE q = p
    BY <1>1, <1>6, <1>10, <2>1
  <2>2. CASE q # p
    <3>1. memo[q] \in Registries /\ memo'[q] = memo[q]
      BY <1>1, <1>12 DEF TypeOK
    <3>2. NewFor(q, h) \/ memo[q][h] <= v[h]
      BY <1>12, <3>1 DEF Keeps
    <3>3. memo[q][h] \in Nat
      BY <3>1, EntryIsNat
    <3>4. NewFor(q, h) => NewFor(q, h)'
      BY <1>1, <1>3, <2>2 DEF NewFor
    <3>5. QED
      BY <1>6, <1>10, <3>1, <3>2, <3>3, <3>4
  <2>3. QED
    BY <2>1, <2>2
<1>d. ASSUME NEW q \in Procs, NEW h \in Hosts PROVE NewFor(q, h)' \/ db'[q][h] <= w[h]
  <2>1. db'[q][h] = db[q][h] /\ db[q][h] \in Nat /\ v[h] <= w[h] /\ v[h] \in Nat /\ w[h] \in Nat
    BY <1>1, <1>6, <1>10, EntryIsNat DEF TypeOK
  <2>2. NewFor(q, h) \/ db[q][h] <= v[h]
    BY DEF Keeps
  <2>3. CASE q # p
    <3>1. NewFor(q, h) => NewFor(q, h)'
      BY <1>1, <1>3, <2>3 DEF NewFor
    <3>2. QED
      BY <2>1, <2>2, <3>1
  <2>4. CASE q = p
    <3>1. db[p][h] <= made /\ w[h] = memo[p][h] /\ memo[p][h] \in Nat
      BY <1>6, <1>10 DEF MadeInv
    <3>2. CASE ~NewFor(p, h)
      BY <2>1, <2>2, <2>4, <3>2
    <3>3. CASE NewFor(p, h)
      <4>1. db[p][h] <= memo[p][h]
        BY <1>1, <2>1, <2>4, <3>1, <3>3 DEF NewIsCached, NewFor
      <4>2. QED
        BY <2>1, <2>4, <3>1, <4>1
    <3>4. QED
      BY <3>2, <3>3
  <2>5. QED
    BY <2>3, <2>4
<1>13. ASSUME NEW q \in recent' PROVE memo'[q] # Nothing /\ \A h \in Hosts: w[h] <= memo'[q][h]
  BY <1>1, <1>4, <1>10, <1>13
<1>14. ASSUME NEW q \in current'
       PROVE  /\ pc'[q] \in {"read", "write", "fill", "chmod", "end"}
              /\ pc'[q] \in {"read", "write"} => copy'[q] = w
  BY <1>1, <1>3, <1>14
<1>15. Keeps(w)'
  BY <1>11, <1>12, <1>d, <1>13, <1>14 DEF Keeps
<1>16. QED
  BY <1>9, <1>15

LEMMA FillKeeps ==
  ASSUME IInv, Well, NEW v \in Registries, IsContent(v), Keeps(v), NEW p \in Procs, Fill(p)
  PROVE  IsContent(v)' /\ Keeps(v)'
<1> USE DEF IInv, CallInv
<1>1. file = Nothing /\ lost = {} /\ pc[p] = "fill"
  BY DEF Fill, FileInv, Well, Whole
<1>2. file' = Updated(p) /\ v = Updated(p)
  BY <1>1 DEF Fill, IsContent
<1>3. \A q \in Procs: q # p => pc[q] # "fill"
  BY <1>1, AloneInBody DEF Well
<1>4. pc'[p] = "chmod" /\ \A q \in Procs: q # p => pc'[q] = pc[q]
  BY DEF Fill, TypeOK
<1>5. IsContent(v)'
  BY <1>2, <1>3, <1>4 DEF IsContent
<1>6. UNCHANGED <<host, memo, db, copy, given, current, recent>>
  BY DEF Fill
<1>7. \A h \in Hosts: NewFor(p, h) => NewFor(p, h)'
  BY <1>1 DEF NewFor
<1>8. Keeps(v)'
  BY <1>4, <1>6, <1>7, SameKeeps DEF Keeps
<1>9. QED
  BY <1>5, <1>8

LEMMA MakeKeeps ==
  ASSUME IInv, Well, NEW v \in Registries, IsContent(v), Keeps(v), NEW p \in Procs, Make(p)
  PROVE  IsContent(v)' /\ Keeps(v)'
<1> USE DEF IInv, CallInv
<1>1. /\ pc[p] = "choose" /\ made' = made + 1 /\ pc' = [pc EXCEPT ![p] = "read"]
      /\ Caches(p, made')
      /\ UNCHANGED <<file, host, copy, given, current, recent>>
  BY DEF Make
<1>2. host[p] \in Hosts /\ memo[p] \in Registries /\ made' \in 0 .. MaxPasswords
  BY <1>1, RegistryAssumption DEF Make, TypeOK, Looked
<1>3. CachesTo(p, made')
  BY <1>1, <1>2, CachedPassword
<1>4. /\ memo'[p] \in Registries /\ memo'[p][host[p]] = made'
      /\ \A h \in Hosts: h # host[p] => memo'[p][h] = memo[p][h] /\ db'[p][h] = db[p][h]
      /\ \A q \in Procs: q # p => memo'[q] = memo[q] /\ db'[q] = db[q] /\ pc'[q] = pc[q]
      /\ pc'[p] = "read"
  BY <1>1, <1>3 DEF CachesTo, TypeOK
<1>5. memo'[p] # Nothing /\ memo[p] # Nothing
  BY <1>2, <1>4, NothingIsNone
<1>6. IsContent(v)'
  BY <1>1, <1>4, SameContent
<1>7. \A h \in Hosts: v[h] <= made' /\ v[h] \in Nat
  BY <1>1, ContentIsMade, EntryIsNat, RegistryAssumption DEF Well, Whole, TypeOK
<1>8. \A h \in Hosts: NewFor(p, h)' \/ memo'[p][h] <= v[h]
  <2>1. \A h \in Hosts: memo[p][h] <= v[h]
    BY <1>1, <1>5 DEF Keeps, NewFor
  <2>2. QED
    BY <1>1, <1>4, <2>1 DEF NewFor
<1>d. \A h \in Hosts: NewFor(p, h)' \/ db'[p][h] <= v[h]
  <2>1. \A h \in Hosts: db[p][h] <= v[h]
    BY <1>1 DEF Keeps, NewFor
  <2>2. QED
    BY <1>1, <1>4, <2>1 DEF NewFor
<1>9. p \in recent' => \A h \in Hosts: v[h] <= memo'[p][h]
  BY <1>1, <1>4, <1>7 DEF Keeps
<1>10. p \notin current'
  BY <1>1 DEF Keeps
<1>11. \A h \in Hosts: given'[h] <= v[h]
  BY <1>1 DEF Keeps
<1>12. Keeps(v)'
  BY <1>1, <1>4, <1>5, <1>8, <1>d, <1>9, <1>10, <1>11, SameKeeps
<1>13. QED
  BY <1>6, <1>12

\* A call that ends with what it has found, ...
LEMMA FoundKeeps ==
  ASSUME IInv, Well, NEW v \in Registries, IsContent(v), Keeps(v), NEW p \in Procs, Found(p)
  PROVE  IsContent(v)' /\ Keeps(v)'
<1> USE DEF IInv, CallInv
<1> DEFINE n == Known(p, host[p])
<1>1. /\ pc[p] = "choose" /\ Over(p) /\ Caches(p, n) /\ Return(host[p], n) /\ file' = file
      /\ recent' = IF n = memo[p][host[p]] THEN recent ELSE recent \ {p}
  BY DEF Found
<1>2. host[p] \in Hosts /\ memo[p] \in Registries /\ memo[p] # Nothing
  BY <1>1, RegistryAssumption DEF TypeOK, Looked
<1>3. n \in 0 .. MaxPasswords /\ n \in {db[p][host[p]], memo[p][host[p]]} /\ CachesTo(p, n)
  BY <1>1, <1>2, CachedPassword, KnownIsPassword
<1>4. /\ pc'[p] = "idle" /\ p \notin current' /\ current' \subseteq current
      /\ \A q \in Procs: q # p => pc'[q] = pc[q] /\ host'[q] = host[q] /\ copy'[q] = copy[q]
  BY <1>1 DEF Over, TypeOK
<1>5. \A h \in Hosts: memo[p][h] <= v[h] /\ db[p][h] <= v[h]
  BY <1>1, <1>2 DEF Keeps, NewFor
<1>6. n <= v[host[p]]
  BY <1>2, <1>3, <1>5
<1>7. \A h \in Hosts: given'[h] = given[h] \/ (h = host[p] /\ given'[h] = n)
  BY <1>1, <1>2, <1>3, ReturnType
<1> HIDE DEF n
<1>8. \A h \in Hosts: given'[h] <= v[h]
  BY <1>6, <1>7 DEF Keeps
<1>9. \A h \in Hosts: memo'[p][h] <= v[h] /\ db'[p][h] <= v[h]
  BY <1>3, <1>5, <1>6 DEF CachesTo
<1>10. p \in recent' => memo'[p] # Nothing /\ \A h \in Hosts: v[h] <= memo'[p][h]
  <2>1. ASSUME p \in recent' PROVE memo'[p] # Nothing /\ \A h \in Hosts: v[h] <= memo'[p][h]
    <3>1. p \in recent /\ n = memo[p][host[p]]
      BY <1>1, <2>1
    <3>2. \A h \in Hosts: memo'[p][h] = memo[p][h]
      BY <1>3, <3>1 DEF CachesTo
    <3>3. QED
      BY <1>3, <3>1, <3>2 DEF Keeps, CachesTo
  <2>2. QED
    BY <2>1
<1>11. recent' \subseteq recent
  BY <1>1
<1>12. \A q \in Procs: q # p => memo'[q] = memo[q] /\ db'[q] = db[q]
  BY <1>3 DEF CachesTo
<1>13. IsContent(v)'
  BY <1>1, <1>4, <1>12, SameContent
<1>14. Keeps(v)'
  BY <1>4, <1>8, <1>9, <1>10, <1>11, <1>12, SameKeeps
<1>15. QED
  BY <1>13, <1>14

\* ... or with what it has stored, an error or a death.
LEMMA OverKeeps ==
  ASSUME IInv, Well, Well', NEW v \in Registries, IsContent(v), Keeps(v), NEW p \in Procs,
         WriteRaises(p) \/ ChmodRaises(p) \/ LockRaises(p) \/ Die(p) \/ Returns(p)
  PROVE  IsContent(v)' /\ Keeps(v)'
<1> USE DEF IInv, CallInv
<1>0. ~WriteRaises(p) /\ ~ChmodRaises(p)
  BY DEF WriteRaises, ChmodRaises, Well
<1>1. pc[p] \notin {"fill", "read", "write"} \/ (memo'[p] = Nothing /\ db'[p] = Empty)
  BY <1>0 DEF LockRaises, Die, Returns, Well, TypeOK
<1>2. pc[p] # "fill"
  BY <1>0 DEF LockRaises, Die, Returns, Well
<1>3. /\ Over(p) /\ file' = file /\ recent' \subseteq recent
      /\ \A q \in Procs: q # p => memo'[q] = memo[q] /\ db'[q] = db[q]
      /\ memo'[p] = memo[p] \/ (memo'[p] = Nothing /\ p \notin recent')
      /\ db'[p] = db[p] \/ db'[p] = Empty
  BY <1>0 DEF LockRaises, Die, Returns, TypeOK
<1>4. /\ pc'[p] = "idle"
      /\ current' = current \ {p}
      /\ \A q \in Procs: q # p => pc'[q] = pc[q] /\ host'[q] = host[q] /\ copy'[q] = copy[q]
  BY <1>3 DEF Over, TypeOK
<1>5. IsContent(v)'
  BY <1>2, <1>3, <1>4, SameContent
<1>6. \A h \in Hosts: given'[h] <= v[h]
  <2>1. CASE Track
    BY <2>1 DEF Track, Keeps
  <2>2. CASE Returns(p)
    <3>1. pc[p] = "end" /\ Return(host[p], memo[p][host[p]])
      BY <2>2 DEF Returns
    <3>2. host[p] \in Hosts /\ memo[p] \in Registries /\ memo[p] # Nothing
      BY <3>1, RegistryAssumption DEF TypeOK, Looked
    <3>3. \A h \in Hosts: memo[p][h] <= v[h]
      BY <3>1, <3>2 DEF Keeps, NewFor
    <3>4. \A h \in Hosts: given'[h] = given[h] \/ (h = host[p] /\ given'[h] = memo[p][host[p]])
      BY <3>1, <3>2, ReturnType, EntryIsNat
    <3>5. QED
      BY <3>3, <3>4 DEF Keeps
  <2>3. QED
    BY <1>0, <2>1, <2>2 DEF LockRaises, Die
<1>7. memo'[p] # Nothing => \A h \in Hosts: memo'[p][h] <= v[h]
  BY <1>1, <1>3 DEF Keeps, NewFor
<1>d. \A h \in Hosts: db'[p][h] <= v[h]
  <2>1. \A h \in Hosts: Empty[h] <= v[h]
    BY EntryIsNat DEF Empty
  <2>2. QED
    BY <1>1, <1>3, <2>1 DEF Keeps, NewFor
<1>8. p \in recent' => memo'[p] # Nothing /\ \A h \in Hosts: v[h] <= memo'[p][h]
  BY <1>3 DEF Keeps
<1>9. Keeps(v)'
  BY <1>3, <1>4, <1>6, <1>7, <1>d, <1>8, SameKeeps
<1>10. QED
  BY <1>5, <1>9

LEMMA NextKeep == ASSUME IInv, Well, Well', [Next]_vars PROVE KeepInv'
<1>1. PICK v \in Registries: IsContent(v) /\ Keeps(v)
  BY DEF IInv, KeepInv
<1>2. CASE UNCHANGED vars
  <2>1. IsContent(v)' /\ Keeps(v)'
    BY <1>1, <1>2 DEF vars, regVars, IsContent, Updated, Keeps, NewFor
  <2>2. QED
    BY <2>1 DEF KeepInv
<1>3. CASE Next
  <2>1. \E u \in Registries: IsContent(u)' /\ Keeps(u)'
    BY <1>1, <1>3, InLockKeeps, ReadersKeep, TruncateKeeps, FillKeeps, MakeKeeps, FoundKeeps,
       OverKeeps
       DEF Next, Step
  <2>2. QED
    BY <2>1 DEF KeepInv
<1>4. QED
  BY <1>2, <1>3

LEMMA InitIInv == ASSUME Init PROVE IInv
<1>1. LockInv /\ CallInv
  BY LockInitInv, InitCall DEF Init, LockInv
<1>2. Empty # Nothing /\ Empty \in Registries /\ \A h \in Hosts: Empty[h] = 0
  BY EmptyIsRegistry, NothingIsNone DEF Empty
<1>3. FileInv
  BY <1>2 DEF Init, FileInv
<1>4. MadeInv /\ NewIsCached
  BY <1>2 DEF Init, MadeInv, NewIsCached
<1>5. IsContent(Empty) /\ Keeps(Empty)
  BY <1>2 DEF Init, IsContent, Keeps
<1>6. QED
  BY <1>1, <1>2, <1>3, <1>4, <1>5 DEF IInv, KeepInv

LEMMA NextIInv == ASSUME IInv, [Next]_vars PROVE IInv'
<1>1. LockInv'
  BY StepLocks, LockNextInv DEF IInv
<1>2. CallInv'
  BY <1>1, NextCall DEF IInv, LockInv
<1>3. MadeInv' /\ NewIsCached'
  BY <1>2, NextMade, NextCached DEF IInv
<1>4. (Whole' => Whole) /\ (Well' => Well)
  BY Monotone DEF IInv, CallInv
<1>5. FileInv'
  <2>1. CASE Whole'
    BY <1>2, <1>4, <2>1, NextFile DEF IInv
  <2>2. CASE ~Whole'
    BY <2>2 DEF FileInv
  <2>3. QED
    BY <2>1, <2>2
<1>6. KeepInv'
  <2>1. CASE Well'
    BY <1>4, <2>1, NextKeep
  <2>2. CASE ~Well'
    BY <2>2 DEF KeepInv
  <2>3. QED
    BY <2>1, <2>2
<1>7. QED
  BY <1>1, <1>2, <1>3, <1>5, <1>6 DEF IInv

LEMMA KeepIsKept == ASSUME IInv PROVE PasswordsAreKept
<1>1. SUFFICES ASSUME Well, \A p \in Procs: pc[p] # "fill"
               PROVE  \A h \in Hosts: file[h] >= given[h]
  BY DEF PasswordsAreKept
<1>2. PICK v \in Registries: IsContent(v) /\ Keeps(v)
  BY <1>1 DEF IInv, KeepInv
<1>3. v = file
  BY <1>1, <1>2 DEF IsContent
<1>4. \A h \in Hosts: given[h] <= v[h] /\ given[h] \in Nat /\ v[h] \in Nat
  BY <1>2, EntryIsNat DEF Keeps, IInv, CallInv, TypeOK
<1>5. QED
  BY <1>3, <1>4

\* A password that get_password has returned is kept, as long as all is well.
THEOREM ReturnedPasswordsAreKept == Spec => []PasswordsAreKept
<1>1. Init => IInv
  BY InitIInv
<1>2. IInv /\ [Next]_vars => IInv'
  BY NextIInv
<1>3. IInv => PasswordsAreKept
  BY KeepIsKept
<1>4. QED
  BY <1>1, <1>2, <1>3, PTL DEF Spec

\* No reader meets a file that is being written.
THEOREM ReadersFindWholeFiles == Spec => WholeFilesAreRead
<1>1. Init => IInv
  BY InitIInv
<1>2. IInv /\ [Next]_vars => IInv'
  BY NextIInv
<1>3. IInv /\ [Next]_vars =>
        [\A p \in Procs: (Load(p) \/ Read(p)) /\ file = Nothing
                           => stranded \/ "cut" \in mishaps]_vars
  BY ReaderFindsFile DEF IInv, Whole
<1>4. QED
  BY <1>1, <1>2, <1>3, PTL DEF Spec, WholeFilesAreRead
=============================================================================
