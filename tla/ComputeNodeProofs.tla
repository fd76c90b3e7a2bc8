------------------------- MODULE ComputeNodeProofs -------------------------
(***************************************************************************)
(* The properties of ComputeNode for any machines, workers, addresses,     *)
(* ports and services, and for any disturbances.                           *)
(*                                                                         *)
(* Three invariants.  Types refines the type of a worker's record by what  *)
(* it is doing (Sound).  CalmInv speaks of histories without a disturbance *)
(* (Calm), in which one call at most is in progress (Serial), the call     *)
(* Current: the registry agrees with the settings of the machines (Good),  *)
(* or the copy does that Current is about to write, and Current knows      *)
(* enough of both files for its next step (IpCall, PortCall).  AloneInv    *)
(* speaks of every history: a call that has met nobody since it began      *)
(* knows the settings of its machine (Knows).                              *)
(***************************************************************************)
EXTENDS ComputeNode, FiniteSetTheorems, WellFoundedInduction, TLAPS

-----------------------------------------------------------------------------
(* The first free number exists.                                           *)

Less == {p \in Nat \X Nat : p[1] < p[2]}

LEMMA LessIsLess == \A m, n \in Nat : <<m, n>> \in Less <=> m < n
BY DEF Less

LEMMA LessIsSmaller ==
  ASSUME NEW m \in Nat, NEW n \in Nat, m < n
  PROVE  <<0 .. (m - 1), 0 .. (n - 1)>> \in StrictSubsetOrdering(Nat)
<1>1. 0 .. (m - 1) \subseteq 0 .. (n - 1)
  OBVIOUS
<1>2. m \in 0 .. (n - 1) /\ m \notin 0 .. (m - 1)
  OBVIOUS
<1>3. 0 .. (m - 1) \in SUBSET Nat /\ 0 .. (n - 1) \in SUBSET Nat
  OBVIOUS
<1> DEFINE M == 0 .. (m - 1)
           N == 0 .. (n - 1)
<1>4. M \subseteq N /\ M # N /\ <<M, N>> \in (SUBSET Nat) \X (SUBSET Nat)
  BY <1>1, <1>2, <1>3
<1> HIDE DEF M, N
<1>5. <<M, N>> \in StrictSubsetOrdering(Nat)
  BY <1>4 DEF StrictSubsetOrdering
<1> QED BY <1>5 DEF M, N

LEMMA LessIsWellFounded == IsWellFoundedOn(Less, Nat)
<1> SUFFICES ASSUME NEW f \in [Nat -> Nat],
                    \A n \in Nat : <<f[n + 1], f[n]>> \in Less
             PROVE  FALSE
  BY DEF IsWellFoundedOn
<1> DEFINE g == [n \in Nat |-> 0 .. (f[n] - 1)]
<1>1. \A n \in Nat : g[n] \in FiniteSubsetsOf(Nat)
  BY FS_Interval DEF FiniteSubsetsOf
<1>2. ASSUME NEW n \in Nat PROVE <<g[n + 1], g[n]>> \in StrictSubsetOrdering(Nat)
  <2>1. n + 1 \in Nat
    OBVIOUS
  <2>2. f[n + 1] \in Nat /\ f[n] \in Nat /\ <<f[n + 1], f[n]>> \in Less
    BY <2>1
  <2>3. f[n + 1] < f[n]
    BY <2>2, LessIsLess
  <2>4. g[n + 1] = 0 .. (f[n + 1] - 1) /\ g[n] = 0 .. (f[n] - 1)
    BY <2>1
  <2> QED BY <2>2, <2>3, <2>4, LessIsSmaller
<1>3. g \in [Nat -> FiniteSubsetsOf(Nat)]
  BY <1>1
<1> QED BY <1>2, <1>3, FS_StrictSubsetOrderingWellFounded DEF IsWellFoundedOn

LEMMA FirstFreeIsFree ==
  ASSUME NEW range, range \subseteq Nat \ {None}, NEW taken
  PROVE  /\ FirstFree(range, taken) = None => range \subseteq taken
         /\ FirstFree(range, taken) # None => FirstFree(range, taken) \in range \ taken
<1>1. CASE range \subseteq taken
  BY <1>1 DEF FirstFree
<1>2. CASE ~(range \subseteq taken)
  <2> DEFINE T == range \ taken
  <2>1. T # {} /\ T \subseteq Nat
    BY <1>2
  <2>2. \E x \in T : \A y \in T : <<y, x>> \notin Less
    <3> HIDE DEF T
    <3> QED BY <2>1, LessIsWellFounded, WFMin
  <2>3. \E n \in T : \A m \in T : n <= m
    <3>1. PICK n \in T : \A m \in T : <<m, n>> \notin Less
      BY <2>2
    <3>2. \A m \in T : m \in Nat /\ n \in Nat /\ ~ (m < n)
      BY <2>1, <3>1, LessIsLess
    <3>3. \A m \in T : n <= m
      BY <3>2
    <3> QED BY <3>3
  <2>4. FirstFree(range, taken) \in T
    BY <1>2, <2>3 DEF FirstFree
  <2> QED BY <2>4
<1> QED BY <1>1, <1>2

-----------------------------------------------------------------------------
(* Partial functions.                                                      *)

LEMMA MapsApply ==
  ASSUME NEW D, NEW R, NEW f \in Maps(D, R)
  PROVE  DOMAIN f \subseteq D /\ \A x \in DOMAIN f : f[x] \in R
BY DEF Maps

LEMMA MapsNothing ==
  ASSUME NEW D, NEW R
  PROVE  Nothing \in Maps(D, R) /\ DOMAIN Nothing = {}
<1>1. Nothing \in [{} -> R]
  BY DEF Nothing
<1> QED BY <1>1 DEF Maps

LEMMA MapsSet ==
  ASSUME NEW D, NEW R, NEW f \in Maps(D, R), NEW x \in D, NEW y \in R
  PROVE  Set(f, x, y) \in Maps(D, R)
<1>1. Set(f, x, y) \in [DOMAIN f \cup {x} -> R]
  BY MapsApply DEF Set
<1>2. DOMAIN f \cup {x} \in SUBSET D
  BY MapsApply
<1> QED BY <1>1, <1>2 DEF Maps

LEMMA MapsRestrict ==
  ASSUME NEW D, NEW R, NEW f \in Maps(D, R), NEW S, S \subseteq DOMAIN f
  PROVE  Restrict(f, S) \in Maps(D, R)
<1>1. Restrict(f, S) \in [S -> R]
  BY MapsApply DEF Restrict
<1>2. S \in SUBSET D
  BY MapsApply
<1> QED BY <1>1, <1>2 DEF Maps

LEMMA MapsWithout ==
  ASSUME NEW D, NEW R, NEW f \in Maps(D, R), NEW S
  PROVE  Without(f, S) \in Maps(D, R)
BY MapsRestrict DEF Without

-----------------------------------------------------------------------------
(* Types.                                                                  *)

\* What is known of the record of a worker, beyond its types.
Sound(r) ==
  /\ r.pc \in {"find", "save", "fail"} => r.file = "ips" /\ r.vm \in VMs
  /\ r.pc = "find" => r.val \in IPs \cup {None}
  /\ r.pc = "save" => r.val \in IPs /\ r.copy \in Maps(VMs, IPs)
  /\ r.pc = "set" => r.file = "ports" /\ r.vm \in VMs /\ r.kind \in Kinds /\ r.val \in Ports
  /\ r.pc \in {"open", "fill"} /\ r.file = "ips" => r.copy \in Maps(VMs, IPs)
  /\ r.pc \in {"open", "fill"} /\ r.file = "ports" => r.copy \in Maps(Keys, Ports)

Calls == {r \in WorkerType : Sound(r)}

Types == TypeOK /\ worker \in [Workers -> Calls]

LEMMA IdleIsCall == Idle \in Calls
<1>1. Nothing \in Maps(VMs, IPs)
  BY MapsNothing
<1> QED BY <1>1 DEF Calls, Sound, WorkerType, Idle, Files

LEMMA DeletedIsCall ==
  ASSUME NEW r \in Calls, NEW f
  PROVE  Deleted(r, f) \in Calls
BY DEF Deleted, Calls, Sound, WorkerType

LEMMA AloneIsCall ==
  ASSUME NEW r \in Calls, NEW a \in {"yes", "no"}
  PROVE  [r EXCEPT !.alone = a] \in Calls
BY DEF Calls, Sound, WorkerType

LEMMA ContinuesTypes ==
  ASSUME worker \in [Workers -> Calls], NEW w \in Workers, NEW r \in Calls, NEW f, Continues(w, r, f)
  PROVE  worker' \in [Workers -> Calls]
<1>1. \A q \in Workers : Deleted(worker[q], f) \in Calls
  BY DeletedIsCall
<1> QED BY <1>1 DEF Continues

LEMMA BeginsTypes ==
  ASSUME worker \in [Workers -> Calls], NEW w \in Workers, NEW r \in Calls, NEW f, Begins(w, r, f)
  PROVE  worker' \in [Workers -> Calls]
<1>1. \A q \in Workers : [Deleted(worker[q], f) EXCEPT !.alone = "no"] \in Calls
  BY DeletedIsCall, AloneIsCall
<1>2. [r EXCEPT !.alone = IF Busy = {} THEN "yes" ELSE "no"] \in Calls
  BY AloneIsCall
<1> HIDE DEF Calls
<1>3. ASSUME NEW q \in Workers PROVE worker'[q] \in Calls
  BY <1>1, <1>2 DEF Begins
<1>4. worker' = [q \in Workers |-> worker'[q]]
  BY DEF Begins
<1> QED BY <1>3, <1>4

LEMMA RegistryType ==
  ASSUME TypeOK
  PROVE  Registry \in Maps(VMs, IPs) /\ PortsMap \in Maps(Keys, Ports)
<1>1. Nothing \in Maps(VMs, IPs) /\ Nothing \in Maps(Keys, Ports)
  BY MapsNothing
<1> QED BY <1>1 DEF TypeOK, Contents, Registry, PortsMap

LEMMA FilesTypes ==
  ASSUME TypeOK
  PROVE  /\ Content(Registry) \in Contents(VMs, IPs)
         /\ Torn \in Contents(VMs, IPs) /\ Torn \in Contents(Keys, Ports)
         /\ Missing \in Contents(Keys, Ports)
<1>1. Nothing \in Maps(VMs, IPs) /\ Nothing \in Maps(Keys, Ports)
  BY MapsNothing
<1> QED BY <1>1, RegistryType DEF Contents, Content, Torn, Missing

\* What a look at the registry leaves.
LEMMA ConstructedTypes ==
  ASSUME TypeOK, files' = Constructed
  PROVE  /\ DOMAIN files' = Files
         /\ files'["ips"] = Content(Registry) /\ files'["ips"] \in Contents(VMs, IPs)
         /\ files'["ports"] = files["ports"]
BY FilesTypes DEF TypeOK, Constructed, Files

LEMMA DisturbTypes ==
  ASSUME TypeOK, NEW ways, Disturb(ways)
  PROVE  disturbed' \in 0..MaxDisturbances
<1>1. disturbed \in 0..MaxDisturbances /\ MaxDisturbances \in Nat
  BY ConstantsAssumption DEF TypeOK
<1>2. disturbed' = disturbed \/ (disturbed < MaxDisturbances /\ disturbed' = disturbed + 1)
  BY DEF Disturb
<1> QED BY <1>1, <1>2

LEMMA OneWorkerTypes ==
  ASSUME worker \in [Workers -> Calls], NEW w \in Workers, NEW r \in Calls,
         worker' = [worker EXCEPT ![w] = r]
  PROVE  worker' \in [Workers -> Calls]
OBVIOUS

\* The records that calls go on with.
LEMMA FindIpTypes ==
  ASSUME TypeOK, NEW v \in VMs
  PROVE  [Idle EXCEPT !.pc = "find", !.vm = v, !.val = ip4[v]] \in Calls
<1>1. ip4[v] \in IPs \cup {None}
  BY DEF TypeOK
<1>2. Nothing \in Maps(VMs, IPs)
  BY MapsNothing
<1> QED BY <1>1, <1>2 DEF Calls, Sound, WorkerType, Idle, Files

LEMMA SetIpTypes ==
  ASSUME TypeOK, NEW v \in VMs, NEW ip \in IPs
  PROVE  [ToRegister([Idle EXCEPT !.vm = v], ip) EXCEPT !.pc = "save"] \in Calls
<1>1. Set(Registry, v, ip) \in Maps(VMs, IPs)
  BY RegistryType, MapsSet
<1> QED BY <1>1 DEF Calls, Sound, WorkerType, Idle, Files, ToRegister

LEMMA OpenTypes ==
  ASSUME NEW m \in Maps(VMs, IPs)
  PROVE  [Idle EXCEPT !.pc = "open", !.copy = m] \in Calls
BY DEF Calls, Sound, WorkerType, Idle, Files

LEMMA RegisterTypes ==
  ASSUME TypeOK, NEW r \in Calls, r.pc = "find", NEW ip \in IPs, NEW p \in {"save", "open"}
  PROVE  [ToRegister(r, ip) EXCEPT !.pc = p] \in Calls
<1>1. Set(Registry, r.vm, ip) \in Maps(VMs, IPs)
  BY RegistryType, MapsSet DEF Calls, Sound
<1> QED BY <1>1 DEF Calls, Sound, WorkerType, ToRegister

LEMMA FailTypes ==
  ASSUME NEW r \in Calls, r.pc = "find"
  PROVE  [r EXCEPT !.pc = "fail"] \in Calls
BY DEF Calls, Sound, WorkerType

LEMMA SavedTypes ==
  ASSUME NEW r \in Calls, r.pc = "save"
  PROVE  [r EXCEPT !.pc = "open"] \in Calls
BY DEF Calls, Sound, WorkerType

LEMMA OpenedTypes ==
  ASSUME NEW r \in Calls, r.pc = "open"
  PROVE  [r EXCEPT !.pc = "fill"] \in Calls
BY DEF Calls, Sound, WorkerType

LEMMA PortTypes ==
  ASSUME NEW v \in VMs, NEW k \in Kinds, NEW p \in Ports
  PROVE  [Idle EXCEPT !.pc = "set", !.file = "ports", !.vm = v, !.kind = k, !.val = p] \in Calls
<1>1. Nothing \in Maps(VMs, IPs)
  BY MapsNothing
<1> QED BY <1>1 DEF Calls, Sound, WorkerType, Idle, Files

LEMMA SetPortTypes ==
  ASSUME TypeOK, NEW r \in Calls, r.pc = "set"
  PROVE  [r EXCEPT !.pc = "open", !.copy = Set(PortsMap, <<r.vm, r.kind>>, r.val)] \in Calls
<1>1. <<r.vm, r.kind>> \in Keys /\ r.val \in Ports
  BY DEF Calls, Sound, Keys
<1>2. Set(PortsMap, <<r.vm, r.kind>>, r.val) \in Maps(Keys, Ports)
  BY <1>1, RegistryType, MapsSet
<1> QED BY <1>2 DEF Calls, Sound, WorkerType

LEMMA CleanedTypes ==
  ASSUME TypeOK
  PROVE  Cleaned \in Maps(VMs, IPs)
<1>1. Registry \in Maps(VMs, IPs)
  BY RegistryType
<1>2. Restrict(Registry, DOMAIN Registry \cap vms) \in Maps(VMs, IPs)
  BY <1>1, MapsRestrict
<1>3. Without(Registry, Twice) \in Maps(VMs, IPs)
  BY <1>1, MapsWithout
<1> QED BY <1>2, <1>3 DEF Cleaned

LEMMA InheritedAre ==
  \A m \in Inherited : m = Nothing \/ \E u \in VMs, p \in Ports : m = Entry(u, p)
BY DEF Inherited

LEMMA TypesInit == Init => Types
<1> SUFFICES ASSUME Init PROVE Types
  OBVIOUS
<1>1. Missing \in Contents(VMs, IPs) /\ Missing \in Contents(Keys, Ports)
  BY MapsNothing DEF Missing, Contents
<1>2. worker \in [Workers -> Calls]
  BY IdleIsCall DEF Init
<1>3. worker \in [Workers -> WorkerType]
  BY <1>2 DEF Calls
<1>4. ASSUME NEW u \in VMs, NEW p \in Ports PROVE Entry(u, p) \in Maps(VMs, Ports)
  <2>1. Entry(u, p) \in [{u} -> Ports] /\ {u} \in SUBSET VMs
    BY DEF Entry
  <2> QED BY <2>1 DEF Maps
<1>5. Nothing \in Maps(VMs, Ports)
  BY MapsNothing
<1>6. \A m \in Inherited : m \in Maps(VMs, Ports)
  BY <1>4, <1>5, InheritedAre
<1>7. retro \in [Retro -> Maps(VMs, Ports)]
  BY <1>6 DEF Init
<1>8. vms \in SUBSET VMs /\ ip4 \in [VMs -> IPs \cup {None}] /\ cleaned \in {"yes", "no"}
  BY DEF Init
<1>9. DOMAIN files = Files /\ files["ips"] = Missing /\ files["ports"] = Missing
  BY DEF Init, Files
<1>10. disturbed \in 0..MaxDisturbances
  <2>1. disturbed = 0 /\ MaxDisturbances \in Nat
    BY ConstantsAssumption DEF Init
  <2> QED BY <2>1
<1> QED BY <1>1, <1>2, <1>3, <1>7, <1>8, <1>9, <1>10 DEF Types, TypeOK

\* What a step has to show.
Typed ==
  /\ worker' \in [Workers -> Calls]
  /\ vms' \in SUBSET VMs
  /\ ip4' \in [VMs -> IPs \cup {None}]
  /\ DOMAIN files' = Files
  /\ files'["ips"] \in Contents(VMs, IPs)
  /\ files'["ports"] \in Contents(Keys, Ports)
  /\ retro' \in [Retro -> Maps(VMs, Ports)]
  /\ cleaned' \in {"yes", "no"}
  /\ disturbed' \in 0..MaxDisturbances

LEMMA TypedIsTypes == Typed => Types'
<1>1. Typed => worker' \in [Workers -> WorkerType]
  BY DEF Typed, Calls
<1> QED BY <1>1 DEF Typed, Types, TypeOK

LEMMA OpensTypes ==
  ASSUME Types, NEW w \in Workers, Opens(w)
  PROVE  Types'
<1>1. worker[w] \in Calls /\ worker[w].pc = "open" /\ worker[w].file \in Files
  BY DEF Types, Opens, Calls, WorkerType
<1>2. worker' = [worker EXCEPT ![w] = [worker[w] EXCEPT !.pc = "fill"]]
  BY DEF Opens
<1>3. worker' \in [Workers -> Calls]
  BY <1>1, <1>2, OpenedTypes, OneWorkerTypes DEF Types
<1>4. DOMAIN files' = Files /\ files'["ips"] \in Contents(VMs, IPs)
      /\ files'["ports"] \in Contents(Keys, Ports)
  BY FilesTypes DEF Opens, Types, TypeOK
<1> QED BY <1>3, <1>4, TypedIsTypes DEF Typed, Opens, Types, TypeOK

LEMMA FillsTypes ==
  ASSUME Types, NEW w \in Workers, Fills(w)
  PROVE  Types'
<1>1. worker[w] \in Calls /\ worker[w].pc = "fill" /\ worker[w].file \in Files
  BY DEF Types, Fills, Calls, WorkerType
<1>2. worker' = [worker EXCEPT ![w] = Idle] /\ Idle \in Calls
  BY IdleIsCall DEF Fills
<1>3. worker' \in [Workers -> Calls]
  BY <1>2, OneWorkerTypes DEF Types
<1>4. /\ worker[w].file = "ips" => Content(worker[w].copy) \in Contents(VMs, IPs)
      /\ worker[w].file = "ports" => Content(worker[w].copy) \in Contents(Keys, Ports)
  BY <1>1 DEF Calls, Sound, Content, Contents
<1>5. DOMAIN files' = Files /\ files'["ips"] \in Contents(VMs, IPs)
      /\ files'["ports"] \in Contents(Keys, Ports)
  BY <1>1, <1>4 DEF Fills, Types, TypeOK, Files
<1> QED BY <1>3, <1>5, TypedIsTypes DEF Typed, Fills, Types, TypeOK

LEMMA EndsTypes ==
  ASSUME Types, NEW w \in Workers, FillsNothing(w) \/ WorkerDies(w)
  PROVE  Types'
<1>1. worker' = [worker EXCEPT ![w] = Idle] /\ Idle \in Calls
  BY IdleIsCall DEF FillsNothing, WorkerDies
<1>2. worker' \in [Workers -> Calls]
  BY <1>1, OneWorkerTypes DEF Types
<1>3. disturbed' \in 0..MaxDisturbances
  BY DisturbTypes DEF FillsNothing, WorkerDies, Types, TypeOK
<1>4. UNCHANGED <<vms, ip4, files, retro, cleaned>>
  BY DEF FillsNothing, WorkerDies
<1> QED BY <1>2, <1>3, <1>4, TypedIsTypes DEF Typed, Types, TypeOK

LEMMA FirstIpTypes ==
  FirstFree(IPs, Range(Registry)) # None => FirstFree(IPs, Range(Registry)) \in IPs
BY ConstantsAssumption, FirstFreeIsFree

LEMMA FindsTypes ==
  ASSUME Types, NEW w \in Workers, FindsItsOwn(w) \/ FindsNewIp(w)
  PROVE  Types'
<1> DEFINE ip == FirstFree(IPs, Range(Registry))
<1>1. worker[w] \in Calls /\ worker[w].pc = "find" /\ worker[w].val \in IPs \cup {None}
  BY DEF Types, FindsItsOwn, FindsNewIp, Calls, Sound
<1>2. /\ worker[w].val # None => [ToRegister(worker[w], worker[w].val) EXCEPT !.pc = "open"] \in Calls
      /\ ip # None => [ToRegister(worker[w], ip) EXCEPT !.pc = "save"] \in Calls
      /\ [worker[w] EXCEPT !.pc = "fail"] \in Calls
      /\ Idle \in Calls
  BY <1>1, FirstIpTypes, RegisterTypes, FailTypes, IdleIsCall DEF Types
<1> HIDE DEF ip
<1>3. \E r \in Calls : Continues(w, r, "ips")
  <2>1. CASE FindsItsOwn(w)
    BY <1>2, <2>1 DEF FindsItsOwn
  <2>2. CASE FindsNewIp(w)
    <3>1. CASE ip = None
      BY <1>2, <2>2, <3>1 DEF FindsNewIp, ip
    <3>2. CASE ip # None
      BY <1>2, <2>2, <3>2 DEF FindsNewIp, ip
    <3> QED BY <3>1, <3>2
  <2> QED BY <2>1, <2>2
<1>4. worker' \in [Workers -> Calls]
  BY <1>3, ContinuesTypes DEF Types
<1>5. files' = Constructed /\ UNCHANGED <<vms, ip4, retro, cleaned, disturbed>>
  BY DEF FindsItsOwn, FindsNewIp
<1> QED BY <1>4, <1>5, ConstructedTypes, TypedIsTypes DEF Typed, Types, TypeOK

LEMMA SavesIpTypes ==
  ASSUME Types, NEW w \in Workers, SavesIp(w)
  PROVE  Types'
<1>1. worker[w] \in Calls /\ worker[w].pc = "save" /\ worker[w].val \in IPs /\ worker[w].vm \in VMs
  BY DEF Types, SavesIp, Calls, Sound
<1>2. worker' = [worker EXCEPT ![w] = [worker[w] EXCEPT !.pc = "open"]]
  BY DEF SavesIp
<1>3. worker' \in [Workers -> Calls]
  BY <1>1, <1>2, SavedTypes, OneWorkerTypes DEF Types
<1>4. ip4' \in [VMs -> IPs \cup {None}]
  BY <1>1 DEF SavesIp, Types, TypeOK
<1> QED BY <1>3, <1>4, TypedIsTypes DEF Typed, SavesIp, Types, TypeOK

LEMMA NoIpLeftTypes ==
  ASSUME Types, NEW w \in Workers, NoIpLeft(w)
  PROVE  Types'
<1>1. worker' = [worker EXCEPT ![w] = Idle] /\ Idle \in Calls
  BY IdleIsCall DEF NoIpLeft
<1>2. worker' \in [Workers -> Calls]
  BY <1>1, OneWorkerTypes DEF Types
<1>3. ip4' \in [VMs -> IPs \cup {None}]
  BY DEF NoIpLeft, Types, TypeOK
<1> QED BY <1>2, <1>3, TypedIsTypes DEF Typed, NoIpLeft, Types, TypeOK

LEMMA SetsPortTypes ==
  ASSUME Types, NEW w \in Workers, SetsPort(w)
  PROVE  Types'
<1> DEFINE r == worker[w]
           s == [r EXCEPT !.pc = "open", !.copy = Set(PortsMap, <<r.vm, r.kind>>, r.val)]
<1>1. r \in Calls /\ r.pc = "set"
  BY DEF Types, SetsPort
<1>2. s \in Calls /\ Idle \in Calls
  BY <1>1, SetPortTypes, IdleIsCall DEF Types
<1>3. worker' = [worker EXCEPT ![w] = Idle] \/ worker' = [worker EXCEPT ![w] = s]
  BY DEF SetsPort
<1>4. worker' \in [Workers -> Calls]
  BY <1>2, <1>3, OneWorkerTypes DEF Types
<1> QED BY <1>4, TypedIsTypes DEF Typed, SetsPort, Types, TypeOK

LEMMA PortsTornTypes ==
  ASSUME Types, NEW w \in Workers, PortsTornForSet(w) \/ \E v \in VMs : PortsTornForGet(w, v)
  PROVE  Types'
<1>1. Continues(w, Idle, "ports") \/ Begins(w, Idle, "ports")
  BY DEF PortsTornForSet, PortsTornForGet
<1>2. worker' \in [Workers -> Calls]
  BY <1>1, IdleIsCall, ContinuesTypes, BeginsTypes DEF Types
<1>3. disturbed' \in 0..MaxDisturbances
  BY DisturbTypes DEF PortsTornForSet, PortsTornForGet, Types, TypeOK
<1>4. files' = [files EXCEPT !["ports"] = Missing] /\ UNCHANGED <<vms, ip4, retro, cleaned>>
  BY DEF PortsTornForSet, PortsTornForGet
<1>5. DOMAIN files' = Files /\ files'["ips"] = files["ips"] /\ files'["ports"] = Missing
  BY <1>4 DEF Types, TypeOK, Files
<1> QED BY <1>2, <1>3, <1>4, <1>5, FilesTypes, TypedIsTypes DEF Typed, Types, TypeOK

LEMMA LooksTypes ==
  ASSUME Types, NEW w \in Workers,
         \/ \E v \in VMs : FindIp(w, v)
         \/ \E v \in VMs, ip \in IPs : SetIp(w, v, ip)
         \/ \E v \in VMs \cup {NoVm}, ip \in IPs \cup {None} : RemoveIp(w, v, ip)
         \/ CleanupIps(w)
  PROVE  Types'
<1>1. \E r \in Calls : Begins(w, r, "ips")
  <2>1. CASE \E v \in VMs : FindIp(w, v)
    BY <2>1, FindIpTypes DEF FindIp, Types
  <2>2. CASE \E v \in VMs, ip \in IPs : SetIp(w, v, ip)
    BY <2>2, SetIpTypes DEF SetIp, Types
  <2>3. CASE \E v \in VMs \cup {NoVm}, ip \in IPs \cup {None} : RemoveIp(w, v, ip)
    <3>1. PICK v, ip : Begins(w, [Idle EXCEPT !.pc = "open",
                                              !.copy = Without(Registry, Removed(v, ip))], "ips")
      BY <2>3 DEF RemoveIp
    <3>2. Without(Registry, Removed(v, ip)) \in Maps(VMs, IPs)
      BY RegistryType, MapsWithout DEF Types
    <3> QED BY <3>1, <3>2, OpenTypes
  <2>4. CASE CleanupIps(w)
    <3>1. [Idle EXCEPT !.pc = "open", !.copy = Cleaned] \in Calls /\ Idle \in Calls
      BY CleanedTypes, OpenTypes, IdleIsCall DEF Types
    <3> QED BY <2>4, <3>1 DEF CleanupIps
  <2> QED BY <2>1, <2>2, <2>3, <2>4
<1>2. worker' \in [Workers -> Calls]
  BY <1>1, BeginsTypes DEF Types
<1>3. files' = Constructed /\ UNCHANGED <<vms, ip4, retro>> /\ cleaned' \in {"yes", "no"}
  BY DEF FindIp, SetIp, RemoveIp, CleanupIps, Types, TypeOK
<1>4. disturbed' \in 0..MaxDisturbances
  BY DisturbTypes DEF FindIp, SetIp, RemoveIp, CleanupIps, Types
<1> QED BY <1>2, <1>3, <1>4, ConstructedTypes, TypedIsTypes DEF Typed, Types, TypeOK

LEMMA TakePortTypes ==
  ASSUME Types, NEW w \in Workers, NEW v \in VMs, NEW k \in Kinds, NEW reset,
         TakePort(w, v, k, reset)
  PROVE  Types'
<1>1. FirstFree(Ports, Allocated) \in Ports
  BY ConstantsAssumption, FirstFreeIsFree DEF TakePort
<1>2. \E r \in Calls : Begins(w, r, "ports")
  BY <1>1, PortTypes DEF TakePort
<1>3. worker' \in [Workers -> Calls]
  BY <1>2, BeginsTypes DEF Types
<1>4. disturbed' \in 0..MaxDisturbances /\ UNCHANGED <<vms, ip4, files, retro, cleaned>>
  BY DisturbTypes DEF TakePort, Types
<1> QED BY <1>3, <1>4, TypedIsTypes DEF Typed, Types, TypeOK

LEMMA CleanupPortsTypes ==
  ASSUME Types, NEW k \in Retro, CleanupPorts(k)
  PROVE  Types'
<1>1. Nothing \in [{} -> Ports]
  BY DEF Nothing
<1>2. Nothing \in Maps(VMs, Ports)
  BY <1>1 DEF Maps
<1>3. retro' \in [Retro -> Maps(VMs, Ports)]
  BY <1>2 DEF CleanupPorts, Types, TypeOK
<1> QED BY <1>3, TypedIsTypes DEF Typed, CleanupPorts, Types, TypeOK

LEMMA MovesTypes ==
  ASSUME Types, NEW v \in VMs, VmLeaves(v) \/ VmComes(v)
  PROVE  Types'
<1>1. disturbed' \in 0..MaxDisturbances
  BY DisturbTypes DEF VmLeaves, VmComes, Types, TypeOK
<1>2. vms' \in SUBSET VMs /\ cleaned' \in {"yes", "no"} /\ UNCHANGED <<ip4, files, retro, worker>>
  BY DEF VmLeaves, VmComes, Types, TypeOK
<1> QED BY <1>1, <1>2, TypedIsTypes DEF Typed, Types, TypeOK

LEMMA TypesStep == Types /\ [Next]_vars => Types'
<1> SUFFICES ASSUME Types, [Next]_vars PROVE Types'
  OBVIOUS
<1>1. CASE UNCHANGED vars
  BY <1>1 DEF vars, Types, TypeOK
<1>2. ASSUME NEW w \in Workers, Goes(w) PROVE Types'
  BY <1>2, OpensTypes, FillsTypes, EndsTypes, FindsTypes, SavesIpTypes, NoIpLeftTypes,
     SetsPortTypes, PortsTornTypes DEF Goes
<1>3. ASSUME NEW w \in Workers, Renders(w) PROVE Types'
  BY <1>3, LooksTypes, PortsTornTypes, TakePortTypes DEF Renders
<1>4. ASSUME NEW w \in Workers, Administers(w) PROVE Types'
  BY <1>4, LooksTypes DEF Administers
<1>5. ASSUME NEW w \in Workers, WorkerDies(w) PROVE Types'
  BY <1>5, EndsTypes
<1>6. ASSUME NEW k \in Retro, CleanupPorts(k) PROVE Types'
  BY <1>6, CleanupPortsTypes
<1>7. ASSUME NEW v \in VMs, VmLeaves(v) \/ VmComes(v) PROVE Types'
  BY <1>7, MovesTypes
<1> QED BY <1>1, <1>2, <1>3, <1>4, <1>5, <1>6, <1>7 DEF Next

\* Every file holds what it is for, at any time and whatever has happened.
THEOREM TypeCorrect == Spec => []TypeOK
<1>1. Types => TypeOK
  BY DEF Types
<1> QED BY <1>1, TypesInit, TypesStep, PTL DEF Spec

-----------------------------------------------------------------------------
(* Undisturbed, calls come one by one: the call in progress, or Idle.      *)

Serial == \A p, q \in Busy : p = q
Current == IF Busy = {} THEN Idle ELSE worker[CHOOSE w \in Busy : TRUE]

LEMMA CurrentIs ==
  ASSUME Serial, NEW w \in Workers, worker[w].pc # "idle"
  PROVE  Current = worker[w] /\ \A q \in Workers \ {w} : worker[q].pc = "idle"
<1>1. Busy = {w}
  BY DEF Serial, Busy
<1> QED BY <1>1 DEF Current, Busy

LEMMA NextCurrent ==
  ASSUME NEW w \in Workers, \A q \in Workers \ {w} : worker'[q].pc = "idle"
  PROVE  /\ Serial'
         /\ worker'[w].pc = "idle" => Current' = Idle
         /\ worker'[w].pc # "idle" => Current' = worker'[w]
<1>1. CASE worker'[w].pc = "idle"
  <2>1. Busy' = {}
    BY <1>1 DEF Busy
  <2> QED BY <1>1, <2>1 DEF Serial, Current
<1>2. CASE worker'[w].pc # "idle"
  <2>1. Busy' = {w}
    BY <1>2 DEF Busy
  <2> QED BY <1>2, <2>1 DEF Serial, Current
<1> QED BY <1>1, <1>2

LEMMA CalmBegins ==
  ASSUME worker \in [Workers -> Calls], NEW w \in Workers, NEW r \in Calls, NEW f,
         Begins(w, r, f), Busy = {}
  PROVE  /\ Serial' /\ Current = Idle
         /\ r.pc = "idle" => Current' = Idle
         /\ r.pc # "idle" => Current' = [r EXCEPT !.alone = "yes"]
<1>1. worker'[w] = [r EXCEPT !.alone = "yes"]
  BY DEF Begins
<1>2. worker'[w].pc = r.pc
  BY <1>1 DEF Calls, WorkerType
<1>3. \A q \in Workers \ {w} : worker'[q] = worker[q] /\ worker[q].pc = "idle"
  BY DEF Begins, Busy
<1>4. \A q \in Workers \ {w} : worker'[q].pc = "idle"
  BY <1>3
<1> QED BY <1>1, <1>2, <1>4, NextCurrent DEF Current

LEMMA CalmContinues ==
  ASSUME Serial, NEW w \in Workers, worker[w].pc # "idle", NEW r, NEW f,
         Continues(w, r, f)
  PROVE  /\ Serial' /\ Current = worker[w]
         /\ r.pc = "idle" => Current' = Idle
         /\ r.pc # "idle" => Current' = r
<1>1. worker'[w] = r
  BY DEF Continues
<1>2. \A q \in Workers \ {w} : worker[q].pc = "idle"
  BY CurrentIs
<1>3. \A q \in Workers \ {w} : worker'[q] = Deleted(worker[q], f)
  BY DEF Continues
<1>4. \A q \in Workers \ {w} : Deleted(worker[q], f) = worker[q]
  BY <1>2 DEF Deleted
<1>5. \A q \in Workers \ {w} : worker'[q].pc = "idle"
  BY <1>2, <1>3, <1>4
<1> QED BY <1>1, <1>5, NextCurrent, CurrentIs

LEMMA CalmGoesOn ==
  ASSUME Serial, worker \in [Workers -> Calls], NEW w \in Workers, worker[w].pc # "idle", NEW r,
         worker' = [worker EXCEPT ![w] = r]
  PROVE  /\ Serial' /\ Current = worker[w]
         /\ r.pc = "idle" => Current' = Idle
         /\ r.pc # "idle" => Current' = r
<1>1. worker'[w] = r
  OBVIOUS
<1>2. \A q \in Workers \ {w} : worker[q].pc = "idle"
  BY CurrentIs
<1>3. \A q \in Workers \ {w} : worker'[q] = worker[q]
  OBVIOUS
<1>4. \A q \in Workers \ {w} : worker'[q].pc = "idle"
  BY <1>2, <1>3
<1> QED BY <1>1, <1>4, NextCurrent, CurrentIs

LEMMA DisturbCalm ==
  ASSUME TypeOK, NEW ways, Disturb(ways), Calm'
  PROVE  Calm /\ ways = {}
<1>1. disturbed \in Nat /\ disturbed' = 0
  <2>1. disturbed \in 0..MaxDisturbances /\ MaxDisturbances \in Nat
    BY ConstantsAssumption DEF TypeOK
  <2>2. disturbed' = 0
    BY DEF Calm
  <2> QED BY <2>1, <2>2
<1>2. disturbed + 1 # 0
  BY <1>1
<1> QED BY <1>1, <1>2 DEF Disturb, Calm

LEMMA NoOverlap ==
  ASSUME NEW more, Overlap \cup more = {}
  PROVE  Busy = {} /\ more = {}
BY DEF Overlap, If

-----------------------------------------------------------------------------
(* The invariant of undisturbed histories.                                 *)

Writes(r, f) == r.pc \in {"open", "fill"} /\ r.file = f

\* A content of the registry that agrees with the settings of the machines.
Good(m) ==
  /\ \A u, v \in DOMAIN m : m[u] = m[v] => u = v
  /\ \A v \in DOMAIN m : m[v] = ip4[v]
  /\ \A v \in vms : ip4[v] # None => v \in DOMAIN m
  /\ cleaned = "yes" => DOMAIN m \subseteq vms

InUse(r) == cleaned = "yes" => r.vm \in vms

\* What the call in progress knows of the addresses; the registry is in its
\* hands from the moment it opens the file.
Finding(r) == r.val = ip4[r.vm] /\ (r.val # None => r.vm \in DOMAIN Registry) /\ InUse(r)

Saving(r) ==
  /\ r.copy = Set(Registry, r.vm, r.val) /\ InUse(r)
  /\ \A u \in DOMAIN Registry \ {r.vm} : Registry[u] # r.val

Failing(r) == IPs \subseteq Range(Registry) /\ ip4[r.vm] = None /\ InUse(r)

IpCall(r) ==
  /\ r.pc = "find" => Finding(r)
  /\ r.pc = "save" => Saving(r)
  /\ r.pc = "fail" => Failing(r)
  /\ Writes(r, "ips") => Good(r.copy)
  /\ ~Writes(r, "ips") => files["ips"].state # "torn" /\ Good(Registry)
  /\ r.pc # "lost"

RetroDiffer ==
  \A j, k \in Retro : \A u \in DOMAIN retro[j], v \in DOMAIN retro[k] :
    retro[j][u] = retro[k][v] => j = k /\ u = v

InRetro(p) == \E k \in Retro : \E v \in DOMAIN retro[k] : retro[k][v] = p

\* A content of reverse_ports_map without conflicts, the older files included.
PortsGood(m) ==
  /\ \A a, b \in DOMAIN m : m[a] = m[b] => a = b
  /\ \A a \in DOMAIN m : ~InRetro(m[a])

PortCall(r) ==
  /\ PortsGood(PortsMap)
  /\ r.pc = "set" => ~InRetro(r.val) /\ \A a \in DOMAIN PortsMap : PortsMap[a] # r.val
  /\ Writes(r, "ports") => PortsGood(r.copy)
  /\ files["ports"].state = "torn" => r.pc = "fill" /\ r.file = "ports"

Orderly == Serial /\ IpCall(Current) /\ RetroDiffer /\ PortCall(Current)

CalmInv == Calm => Orderly

-----------------------------------------------------------------------------
(* Who leaves a file alone keeps its part of the invariant.                *)

LEMMA RegistryKept ==
  ASSUME TypeOK, files' = Constructed
  PROVE  /\ Registry' = Registry /\ files'["ips"].state = "full"
         /\ PortsMap' = PortsMap /\ files'["ports"] = files["ports"]
BY ConstructedTypes DEF Registry, PortsMap, Content

LEMMA IpsLeftAlone ==
  ASSUME IpCall(Current), ~Writes(Current, "ips"), UNCHANGED <<vms, ip4, cleaned>>,
         Registry' = Registry, files'["ips"].state # "torn",
         Current'.pc \notin {"find", "save", "fail", "lost"}, ~Writes(Current, "ips")'
  PROVE  IpCall(Current)'
<1>1. Good(Registry) /\ Good(Registry)' = Good(Registry)
  BY DEF IpCall, Good
<1> QED BY <1>1 DEF IpCall, Writes

LEMMA PortsLeftAlone ==
  ASSUME PortCall(Current), ~Writes(Current, "ports"), UNCHANGED retro,
         files'["ports"] = files["ports"], PortsMap' = PortsMap,
         Current'.pc # "set", ~Writes(Current, "ports")'
  PROVE  PortCall(Current)'
<1>1. PortsGood(PortsMap) /\ PortsGood(PortsMap)' = PortsGood(PortsMap)
  BY DEF PortCall, PortsGood, InRetro
<1> QED BY <1>1 DEF PortCall, Writes

LEMMA RetroLeftAlone ==
  ASSUME RetroDiffer, UNCHANGED retro
  PROVE  RetroDiffer'
BY DEF RetroDiffer

\* The writes.
LEMMA OpensOrderly ==
  ASSUME Types, Orderly, NEW w \in Workers, Opens(w)
  PROVE  Orderly'
<1> DEFINE r == worker[w]
           s == [r EXCEPT !.pc = "fill"]
<1>1. r \in Calls /\ r.pc = "open" /\ r.file \in Files
  BY DEF Types, Opens, Calls, WorkerType
<1>2. s.pc = "fill" /\ s.file = r.file /\ s.copy = r.copy
  BY <1>1 DEF Calls, WorkerType
<1>3. worker' = [worker EXCEPT ![w] = s]
  BY DEF Opens
<1> HIDE DEF s
<1>4. Serial' /\ Current = r /\ Current' = s
  BY <1>1, <1>2, <1>3, CalmGoesOn DEF Orderly, Types
<1> HIDE DEF r
<1>5. UNCHANGED <<vms, ip4, retro, cleaned>> /\ files' = [files EXCEPT ![r.file] = Torn]
  BY DEF Opens, r
<1>6. RetroDiffer'
  BY <1>5, RetroLeftAlone DEF Orderly
<1>7. CASE r.file = "ips"
  <2>1. files'["ports"] = files["ports"] /\ PortsMap' = PortsMap
    BY <1>5, <1>7 DEF Types, TypeOK, Files, PortsMap
  <2>2. PortCall(Current)'
    BY <1>1, <1>2, <1>4, <1>5, <1>7, <2>1, PortsLeftAlone DEF Orderly, Writes
  <2>3. Good(Current.copy)'
    BY <1>1, <1>2, <1>4, <1>5, <1>7 DEF Orderly, IpCall, Writes, Good
  <2>4. IpCall(Current)'
    BY <1>2, <1>4, <1>7, <2>3 DEF IpCall, Writes
  <2> QED BY <1>4, <1>6, <2>2, <2>4 DEF Orderly
<1>8. CASE r.file = "ports"
  <2>1. files'["ips"] = files["ips"] /\ Registry' = Registry
    BY <1>5, <1>8 DEF Types, TypeOK, Files, Registry
  <2>2. IpCall(Current)'
    <3>1. ~Writes(Current, "ips") /\ ~Writes(Current, "ips")'
      BY <1>2, <1>4, <1>8 DEF Writes
    <3>2. files'["ips"].state # "torn"
      BY <2>1, <3>1 DEF Orderly, IpCall
    <3> QED BY <1>2, <1>4, <1>5, <2>1, <3>1, <3>2, IpsLeftAlone DEF Orderly
  <2>3. PortsMap' = Nothing
    BY <1>5, <1>8 DEF Types, TypeOK, Files, PortsMap, Torn
  <2>4. PortsGood(PortsMap)'
    BY <2>3, MapsNothing DEF PortsGood
  <2>5. PortsGood(Current.copy)'
    BY <1>1, <1>2, <1>4, <1>5, <1>8 DEF Orderly, PortCall, Writes, PortsGood, InRetro
  <2>6. PortCall(Current)'
    BY <1>2, <1>4, <1>8, <2>4, <2>5 DEF PortCall, Writes
  <2> QED BY <1>4, <1>6, <2>2, <2>6 DEF Orderly
<1> QED BY <1>1, <1>7, <1>8 DEF Files

LEMMA FillsOrderly ==
  ASSUME Types, Orderly, NEW w \in Workers, Fills(w)
  PROVE  Orderly'
<1> DEFINE r == worker[w]
<1>1. r \in Calls /\ r.pc = "fill" /\ r.file \in Files
  BY DEF Types, Fills, Calls, WorkerType
<1>2. worker' = [worker EXCEPT ![w] = Idle] /\ Idle.pc = "idle"
  BY DEF Fills, Idle
<1>3. Serial' /\ Current = r /\ Current' = Idle
  BY <1>1, <1>2, CalmGoesOn DEF Orderly, Types
<1> HIDE DEF r
<1>4. UNCHANGED <<vms, ip4, retro, cleaned>> /\ files' = [files EXCEPT ![r.file] = Content(r.copy)]
  BY DEF Fills, r
<1>5. RetroDiffer'
  BY <1>4, RetroLeftAlone DEF Orderly
<1>6. CASE r.file = "ips"
  <2>1. files'["ports"] = files["ports"] /\ PortsMap' = PortsMap
    BY <1>4, <1>6 DEF Types, TypeOK, Files, PortsMap
  <2>2. PortCall(Current)'
    BY <1>1, <1>2, <1>3, <1>4, <1>6, <2>1, PortsLeftAlone DEF Orderly, Writes
  <2>3. Registry' = r.copy /\ files'["ips"].state = "full"
    BY <1>4, <1>6 DEF Types, TypeOK, Files, Registry, Content
  <2>4. Good(Registry)'
    BY <1>1, <1>3, <1>4, <1>6, <2>3 DEF Orderly, IpCall, Writes, Good
  <2>5. IpCall(Current)'
    BY <1>2, <1>3, <2>3, <2>4 DEF IpCall, Writes
  <2> QED BY <1>3, <1>5, <2>2, <2>5 DEF Orderly
<1>7. CASE r.file = "ports"
  <2>1. files'["ips"] = files["ips"] /\ Registry' = Registry
    BY <1>4, <1>7 DEF Types, TypeOK, Files, Registry
  <2>2. IpCall(Current)'
    <3>1. ~Writes(Current, "ips") /\ ~Writes(Current, "ips")'
      BY <1>2, <1>3, <1>7 DEF Writes
    <3>2. files'["ips"].state # "torn"
      BY <2>1, <3>1 DEF Orderly, IpCall
    <3> QED BY <1>2, <1>3, <1>4, <2>1, <3>1, <3>2, IpsLeftAlone DEF Orderly
  <2>3. PortsMap' = r.copy /\ files'["ports"].state = "full"
    BY <1>4, <1>7 DEF Types, TypeOK, Files, PortsMap, Content
  <2>4. PortsGood(PortsMap)'
    BY <1>1, <1>3, <1>4, <1>7, <2>3 DEF Orderly, PortCall, Writes, PortsGood, InRetro
  <2>5. PortCall(Current)'
    BY <1>2, <1>3, <2>3, <2>4 DEF PortCall, Writes
  <2> QED BY <1>3, <1>5, <2>2, <2>5 DEF Orderly
<1> QED BY <1>1, <1>6, <1>7 DEF Files

\* Addresses.
LEMMA InRange ==
  ASSUME NEW m, NEW x \in DOMAIN m
  PROVE  m[x] \in Range(m)
BY DEF Range

\* Ports are left alone by calls about addresses.
LEMMA AddressesOrderly ==
  ASSUME Types, Orderly, files' = Constructed, UNCHANGED retro, Serial', IpCall(Current)',
         Current.pc \in {"idle", "find"},
         Current'.pc # "set" /\ ~Writes(Current, "ports")'
  PROVE  Orderly'
<1>1. RetroDiffer'
  BY RetroLeftAlone DEF Orderly
<1>2. PortsMap' = PortsMap /\ files'["ports"] = files["ports"]
  BY RegistryKept DEF Types
<1>3. PortCall(Current)'
  BY <1>2, PortsLeftAlone DEF Orderly, Writes
<1> QED BY <1>1, <1>3 DEF Orderly

LEMMA FindsItsOwnOrderly ==
  ASSUME Types, Orderly, NEW w \in Workers, FindsItsOwn(w)
  PROVE  Orderly'
<1> DEFINE r == worker[w]
<1>1. r \in Calls /\ r.pc = "find" /\ r.val # None /\ r.file = "ips" /\ r.vm \in VMs
  BY DEF Types, FindsItsOwn, Calls, Sound
<1>2. Current = r
  BY <1>1, CurrentIs DEF Orderly
<1>3. r.vm \in DOMAIN Registry /\ Registry[r.vm] = r.val
  BY <1>1, <1>2 DEF Orderly, IpCall, Finding, Writes, Good
<1>4. Continues(w, Idle, "ips") /\ Idle.pc = "idle"
  BY <1>3 DEF FindsItsOwn, Idle
<1>5. Serial' /\ Current' = Idle
  BY <1>1, <1>4, CalmContinues DEF Orderly
<1>6. files' = Constructed /\ UNCHANGED <<vms, ip4, retro, cleaned>>
  BY DEF FindsItsOwn
<1> HIDE DEF r
<1>7. Registry' = Registry /\ files'["ips"].state = "full"
  BY <1>6, RegistryKept DEF Types
<1>8. IpCall(Current)'
  BY <1>1, <1>2, <1>4, <1>5, <1>6, <1>7, IpsLeftAlone DEF Orderly, Writes
<1> QED BY <1>1, <1>2, <1>4, <1>5, <1>6, <1>8, AddressesOrderly DEF Writes

LEMMA FindsNewIpOrderly ==
  ASSUME Types, Orderly, NEW w \in Workers, FindsNewIp(w)
  PROVE  Orderly'
<1> DEFINE r  == worker[w]
           ip == FirstFree(IPs, Range(Registry))
           s  == IF ip = None THEN [r EXCEPT !.pc = "fail"]
                 ELSE [ToRegister(r, ip) EXCEPT !.pc = "save"]
<1>1. r \in Calls /\ r.pc = "find" /\ r.val = None /\ r.file = "ips" /\ r.vm \in VMs
  BY DEF Types, FindsNewIp, Calls, Sound
<1>2. /\ s.vm = r.vm /\ s.file = "ips"
      /\ ip = None => s.pc = "fail"
      /\ ip # None => s.pc = "save" /\ s.val = ip /\ s.copy = Set(Registry, r.vm, ip)
  <2> HIDE DEF ip
  <2> QED BY <1>1 DEF Calls, WorkerType, ToRegister
<1>3. Continues(w, s, "ips")
  BY DEF FindsNewIp
<1>4. /\ ip = None => IPs \subseteq Range(Registry)
      /\ ip # None => ip \notin Range(Registry)
  BY ConstantsAssumption, FirstFreeIsFree
<1> HIDE DEF ip, s
<1>5. Serial' /\ Current = r /\ Current' = s
  BY <1>1, <1>2, <1>3, CalmContinues DEF Orderly
<1> HIDE DEF r
<1>6. files' = Constructed /\ UNCHANGED <<vms, ip4, retro, cleaned>>
  BY DEF FindsNewIp
<1>7. Registry' = Registry /\ files'["ips"].state = "full"
  BY <1>6, RegistryKept DEF Types
<1>8. ip4[r.vm] = None /\ InUse(r) /\ Good(Registry)
  BY <1>1, <1>5 DEF Orderly, IpCall, Finding, Writes
<1>9. Good(Registry)' /\ InUse(Current)'
  BY <1>2, <1>5, <1>6, <1>7, <1>8 DEF Good, InUse
<1>10. IpCall(Current)'
  <2>1. CASE ip = None
    <3>1. Failing(Current)'
      BY <1>2, <1>4, <1>5, <1>6, <1>7, <1>8, <1>9, <2>1 DEF Failing
    <3> QED BY <1>2, <1>5, <1>7, <1>9, <2>1, <3>1 DEF IpCall, Writes
  <2>2. CASE ip # None
    <3>1. \A u \in DOMAIN Registry \ {r.vm} : Registry[u] # ip
      BY <1>4, <2>2, InRange
    <3>2. Saving(Current)'
      BY <1>2, <1>5, <1>7, <1>9, <2>2, <3>1 DEF Saving
    <3> QED BY <1>2, <1>5, <1>7, <1>9, <2>2, <3>2 DEF IpCall, Writes
  <2> QED BY <2>1, <2>2
<1> QED BY <1>1, <1>2, <1>5, <1>6, <1>10, AddressesOrderly DEF Writes

LEMMA SavesIpOrderly ==
  ASSUME Types, Orderly, NEW w \in Workers, SavesIp(w)
  PROVE  Orderly'
<1> DEFINE r == worker[w]
           s == [r EXCEPT !.pc = "open"]
<1>1. /\ r \in Calls /\ r.pc = "save" /\ r.file = "ips" /\ r.vm \in VMs
      /\ r.val \in IPs /\ r.val # None
  BY ConstantsAssumption DEF Types, SavesIp, Calls, Sound
<1>2. s.pc = "open" /\ s.file = "ips" /\ s.copy = r.copy
  BY <1>1 DEF Calls, WorkerType
<1>3. worker' = [worker EXCEPT ![w] = s]
  BY DEF SavesIp
<1> HIDE DEF s
<1>4. Serial' /\ Current = r /\ Current' = s
  BY <1>1, <1>2, <1>3, CalmGoesOn DEF Orderly, Types
<1>5. UNCHANGED <<vms, files, retro, cleaned>> /\ ip4' = [ip4 EXCEPT ![r.vm] = r.val]
  BY DEF SavesIp
<1> HIDE DEF r
<1>6. /\ Good(Registry) /\ InUse(r) /\ r.copy = Set(Registry, r.vm, r.val)
      /\ \A u \in DOMAIN Registry \ {r.vm} : Registry[u] # r.val
  BY <1>1, <1>4 DEF Orderly, IpCall, Saving, Writes
<1> DEFINE m == Registry
<1>7. /\ DOMAIN r.copy = DOMAIN m \cup {r.vm} /\ r.copy[r.vm] = r.val
      /\ \A z \in DOMAIN m \ {r.vm} : r.copy[z] = m[z]
  <2>1. r.copy = Set(m, r.vm, r.val)
    BY <1>6
  <2> HIDE DEF m
  <2>2. /\ DOMAIN Set(m, r.vm, r.val) = DOMAIN m \cup {r.vm}
        /\ Set(m, r.vm, r.val)[r.vm] = r.val
        /\ \A z \in DOMAIN m \ {r.vm} : Set(m, r.vm, r.val)[z] = m[z]
    BY Zenon DEF Set
  <2> QED BY <2>1, <2>2
<1>8. /\ \A v \in VMs \ {r.vm} : ip4'[v] = ip4[v]
      /\ ip4'[r.vm] = r.val
  BY <1>1, <1>5 DEF Types, TypeOK
<1>9. DOMAIN m \subseteq VMs /\ vms \subseteq VMs /\ vms' = vms /\ cleaned' = cleaned
  BY <1>5, RegistryType, MapsApply DEF Types, TypeOK
<1>10. /\ \A u, v \in DOMAIN r.copy : r.copy[u] = r.copy[v] => u = v
       /\ \A v \in DOMAIN r.copy : r.copy[v] = ip4'[v]
       /\ \A v \in vms' : ip4'[v] # None => v \in DOMAIN r.copy
       /\ cleaned' = "yes" => DOMAIN r.copy \subseteq vms'
  <2> HIDE DEF m
  <2>1. /\ \A u, v \in DOMAIN m : m[u] = m[v] => u = v
        /\ \A v \in DOMAIN m : m[v] = ip4[v]
        /\ \A v \in vms : ip4[v] # None => v \in DOMAIN m
        /\ cleaned = "yes" => DOMAIN m \subseteq vms
    BY <1>6 DEF Good, m
  <2>2. \A u \in DOMAIN m \ {r.vm} : m[u] # r.val
    BY <1>6 DEF m
  <2>3. \A u, v \in DOMAIN r.copy : r.copy[u] = r.copy[v] => u = v
    BY <1>7, <2>1, <2>2
  <2>4. \A v \in DOMAIN r.copy : r.copy[v] = ip4'[v]
    BY <1>7, <1>8, <1>9, <2>1
  <2>5. \A v \in vms' : ip4'[v] # None => v \in DOMAIN r.copy
    BY <1>7, <1>8, <1>9, <2>1
  <2>6. cleaned' = "yes" => DOMAIN r.copy \subseteq vms'
    BY <1>6, <1>7, <1>9, <2>1 DEF InUse
  <2> QED BY <2>3, <2>4, <2>5, <2>6
<1>11. Good(Current.copy)'
  BY <1>2, <1>4, <1>10 DEF Good
<1>12. IpCall(Current)'
  BY <1>2, <1>4, <1>11 DEF IpCall, Writes
<1>13. RetroDiffer'
  BY <1>5, RetroLeftAlone DEF Orderly
<1>14. PortsMap' = PortsMap /\ files'["ports"] = files["ports"]
  BY <1>5 DEF PortsMap
<1>15. PortCall(Current)'
  BY <1>1, <1>2, <1>4, <1>5, <1>14, PortsLeftAlone DEF Orderly, Writes
<1> QED BY <1>4, <1>12, <1>13, <1>15 DEF Orderly

LEMMA NoIpLeftOrderly ==
  ASSUME Types, Orderly, NEW w \in Workers, NoIpLeft(w)
  PROVE  Orderly'
<1> DEFINE r == worker[w]
<1>1. r \in Calls /\ r.pc = "fail" /\ r.file = "ips" /\ r.vm \in VMs
  BY DEF Types, NoIpLeft, Calls, Sound
<1>2. worker' = [worker EXCEPT ![w] = Idle] /\ Idle.pc = "idle"
  BY DEF NoIpLeft, Idle
<1>3. Serial' /\ Current = r /\ Current' = Idle
  BY <1>1, <1>2, CalmGoesOn DEF Orderly, Types
<1>4. UNCHANGED <<vms, files, retro, cleaned>> /\ ip4' = [ip4 EXCEPT ![r.vm] = None]
  BY DEF NoIpLeft
<1> HIDE DEF r
<1>5. ip4[r.vm] = None
  BY <1>1, <1>3 DEF Orderly, IpCall, Failing
<1>6. ip4' = ip4
  BY <1>4, <1>5 DEF Types, TypeOK
<1>7. Registry' = Registry /\ PortsMap' = PortsMap /\ files' = files
  BY <1>4 DEF Registry, PortsMap
<1>8. files'["ips"].state # "torn"
  BY <1>1, <1>3, <1>7 DEF Orderly, IpCall, Writes
<1>9. IpCall(Current)'
  BY <1>1, <1>2, <1>3, <1>4, <1>6, <1>7, <1>8, IpsLeftAlone DEF Orderly, Writes
<1>10. PortCall(Current)'
  BY <1>1, <1>2, <1>3, <1>4, <1>7, PortsLeftAlone DEF Orderly, Writes
<1>11. RetroDiffer'
  BY <1>4, RetroLeftAlone DEF Orderly
<1> QED BY <1>3, <1>9, <1>10, <1>11 DEF Orderly

\* Calls about addresses that begin when nobody else is there.
LEMMA IdleKnows ==
  ASSUME Orderly, Busy = {}
  PROVE  Current = Idle /\ Good(Registry) /\ Current.pc = "idle"
BY DEF Orderly, IpCall, Current, Idle, Writes

LEMMA FindIpOrderly ==
  ASSUME Types, Orderly, NEW w \in Workers, NEW v \in VMs, FindIp(w, v), Busy = {}
  PROVE  Orderly'
<1> DEFINE r == [Idle EXCEPT !.pc = "find", !.vm = v, !.val = ip4[v]]
           s == [r EXCEPT !.alone = "yes"]
<1>1. r \in Calls /\ Begins(w, r, "ips")
  BY FindIpTypes DEF FindIp, Types
<1>2. r.pc = "find" /\ s.pc = "find" /\ s.vm = v /\ s.val = ip4[v] /\ s.file = "ips"
  BY DEF Idle
<1> HIDE DEF r
<1>3. Serial' /\ Current = Idle /\ Current' = s
  BY <1>1, <1>2, CalmBegins DEF Types
<1> HIDE DEF s
<1>4. files' = Constructed /\ UNCHANGED <<vms, ip4, retro, cleaned>> /\ v \in vms
  BY DEF FindIp
<1>5. Registry' = Registry /\ files'["ips"].state = "full"
  BY <1>4, RegistryKept DEF Types
<1>6. Good(Registry) /\ Current.pc = "idle"
  BY IdleKnows
<1>7. Good(Registry)'
  BY <1>4, <1>5, <1>6 DEF Good
<1>8. Finding(Current)'
  BY <1>2, <1>3, <1>4, <1>5, <1>6 DEF Finding, Good, InUse
<1>9. IpCall(Current)'
  BY <1>2, <1>3, <1>5, <1>7, <1>8 DEF IpCall, Writes
<1> QED BY <1>2, <1>3, <1>4, <1>6, <1>9, AddressesOrderly DEF Writes

LEMMA SetIpOrderly ==
  ASSUME Types, Orderly, NEW w \in Workers, NEW v \in VMs, NEW ip \in IPs, SetIp(w, v, ip),
         Busy = {}, \A u \in DOMAIN Registry \ {v} : Registry[u] # ip
  PROVE  Orderly'
<1> DEFINE r == [ToRegister([Idle EXCEPT !.vm = v], ip) EXCEPT !.pc = "save"]
           s == [r EXCEPT !.alone = "yes"]
<1>1. r \in Calls /\ Begins(w, r, "ips")
  BY SetIpTypes DEF SetIp, Types
<1>2. /\ r.pc = "save" /\ s.pc = "save" /\ s.vm = v /\ s.val = ip /\ s.file = "ips"
      /\ s.copy = Set(Registry, v, ip)
  BY DEF Idle, ToRegister
<1> HIDE DEF r
<1>3. Serial' /\ Current = Idle /\ Current' = s
  BY <1>1, <1>2, CalmBegins DEF Types
<1> HIDE DEF s
<1>4. files' = Constructed /\ UNCHANGED <<vms, ip4, retro, cleaned>> /\ v \in vms
  BY DEF SetIp
<1>5. Registry' = Registry /\ files'["ips"].state = "full"
  BY <1>4, RegistryKept DEF Types
<1>6. Good(Registry) /\ Current.pc = "idle"
  BY IdleKnows
<1>7. Good(Registry)'
  BY <1>4, <1>5, <1>6 DEF Good
<1>8. Saving(Current)'
  BY <1>2, <1>3, <1>4, <1>5 DEF Saving, InUse
<1>9. IpCall(Current)'
  BY <1>2, <1>3, <1>5, <1>7, <1>8 DEF IpCall, Writes
<1> QED BY <1>2, <1>3, <1>4, <1>6, <1>9, AddressesOrderly DEF Writes

\* Machines that have left may leave the registry as well.
LEMMA GoodRestrict ==
  ASSUME NEW c, NEW S, c = Restrict(Registry, S), S \subseteq DOMAIN Registry, Good(Registry),
         DOMAIN Registry \cap vms \subseteq S, UNCHANGED <<vms, ip4>>,
         cleaned' = "yes" => S \subseteq vms
  PROVE  Good(c)'
<1>1. DOMAIN c = S /\ \A x \in S : c[x] = Registry[x]
  BY DEF Restrict
<1> QED BY <1>1 DEF Good

\* A call that begins with a new content for the registry.
LEMMA RewritesOrderly ==
  ASSUME Types, Orderly, NEW w \in Workers, NEW m \in Maps(VMs, IPs), Busy = {},
         Begins(w, [Idle EXCEPT !.pc = "open", !.copy = m], "ips"),
         files' = Constructed, UNCHANGED retro,
         \A c : c = m => Good(c)'
  PROVE  Orderly'
<1> DEFINE r == [Idle EXCEPT !.pc = "open", !.copy = m]
           s == [r EXCEPT !.alone = "yes"]
<1>1. r \in Calls
  BY OpenTypes
<1>2. r.pc = "open" /\ s.pc = "open" /\ s.file = "ips" /\ s.copy = m
  BY DEF Idle
<1> HIDE DEF r
<1>3. Serial' /\ Current = Idle /\ Current' = s
  BY <1>1, <1>2, CalmBegins DEF Types, r
<1> HIDE DEF s
<1>4. Good(Current.copy)'
  BY <1>2, <1>3
<1>5. Current.pc = "idle"
  BY IdleKnows
<1>6. IpCall(Current)'
  BY <1>2, <1>3, <1>4 DEF IpCall, Writes
<1> QED BY <1>2, <1>3, <1>5, <1>6, AddressesOrderly DEF Writes

LEMMA RemoveIpOrderly ==
  ASSUME Types, Orderly, NEW w \in Workers, NEW v, NEW ip, RemoveIp(w, v, ip), Busy = {},
         Removed(v, ip) \cap vms = {}
  PROVE  Orderly'
<1> DEFINE S == DOMAIN Registry \ Removed(v, ip)
           m == Restrict(Registry, S)
<1>1. Without(Registry, Removed(v, ip)) = m
  BY DEF Without
<1>2. /\ Begins(w, [Idle EXCEPT !.pc = "open", !.copy = m], "ips")
      /\ files' = Constructed /\ UNCHANGED <<vms, ip4, retro, cleaned>>
  BY <1>1 DEF RemoveIp
<1>3. Good(Registry)
  BY IdleKnows
<1>4. S \subseteq DOMAIN Registry /\ DOMAIN Registry \cap vms \subseteq S
  OBVIOUS
<1>5. cleaned' = "yes" => S \subseteq vms
  BY <1>2, <1>3 DEF Good
<1> HIDE DEF S
<1>6. m \in Maps(VMs, IPs)
  BY <1>4, RegistryType, MapsRestrict DEF Types
<1>7. ASSUME NEW c, c = m PROVE Good(c)'
  BY <1>2, <1>3, <1>4, <1>5, <1>7, GoodRestrict
<1> HIDE DEF m
<1> QED BY <1>2, <1>6, <1>7, RewritesOrderly

LEMMA CleanedRestricts ==
  ASSUME Good(Registry)
  PROVE  Cleaned = Restrict(Registry, DOMAIN Registry \cap vms)
<1>1. Twice = {}
  BY DEF Twice, Good
<1>2. CASE DOMAIN Registry \subseteq vms
  <2>1. DOMAIN Registry \ Twice = DOMAIN Registry \cap vms
    BY <1>1, <1>2
  <2> QED BY <1>2, <2>1 DEF Cleaned, Without
<1>3. CASE ~(DOMAIN Registry \subseteq vms)
  BY <1>3 DEF Cleaned
<1> QED BY <1>2, <1>3

LEMMA CleanupIpsOrderly ==
  ASSUME Types, Orderly, NEW w \in Workers, CleanupIps(w), Busy = {}
  PROVE  Orderly'
<1> DEFINE S == DOMAIN Registry \cap vms
           m == Restrict(Registry, S)
<1>1. Good(Registry) /\ Current.pc = "idle"
  BY IdleKnows
<1>2. Cleaned = m
  BY <1>1, CleanedRestricts
<1>3. files' = Constructed /\ UNCHANGED <<vms, ip4, retro>>
  BY DEF CleanupIps
<1>4. S \subseteq DOMAIN Registry /\ DOMAIN Registry \cap vms \subseteq S /\ S \subseteq vms
  OBVIOUS
<1> HIDE DEF S
<1>5. m \in Maps(VMs, IPs)
  BY <1>4, RegistryType, MapsRestrict DEF Types
<1>6. ASSUME NEW c, c = m PROVE Good(c)'
  BY <1>1, <1>3, <1>4, <1>6, GoodRestrict
<1> HIDE DEF m
<1>7. CASE Cleaned # Registry
  <2>1. Begins(w, [Idle EXCEPT !.pc = "open", !.copy = m], "ips")
    BY <1>2, <1>7 DEF CleanupIps
  <2> QED BY <1>3, <1>5, <1>6, <2>1, RewritesOrderly
<1>8. CASE Cleaned = Registry
  <2>1. Begins(w, Idle, "ips") /\ Idle.pc = "idle"
    BY <1>8 DEF CleanupIps, Idle
  <2>2. Serial' /\ Current' = Idle
    BY <2>1, IdleIsCall, CalmBegins DEF Types
  <2>3. Registry' = Registry /\ files'["ips"].state = "full"
    BY <1>3, RegistryKept DEF Types
  <2>4. Registry' = m
    BY <1>2, <1>8, <2>3
  <2>5. Good(Registry)'
    BY <1>6, <2>4
  <2>6. IpCall(Current)'
    BY <2>1, <2>2, <2>3, <2>5 DEF IpCall, Writes
  <2> QED BY <1>1, <1>3, <2>1, <2>2, <2>6, AddressesOrderly DEF Writes
<1> QED BY <1>7, <1>8

\* Ports.
LEMMA AllocatedMeans ==
  ASSUME NEW p, p \notin Allocated
  PROVE  ~InRetro(p) /\ \A a \in DOMAIN PortsMap : PortsMap[a] # p
BY DEF Allocated, InRetro, Range

LEMMA TakePortOrderly ==
  ASSUME Types, Orderly, NEW w \in Workers, NEW v \in VMs, NEW k \in Kinds, NEW reset,
         TakePort(w, v, k, reset), Busy = {}
  PROVE  Orderly'
<1> DEFINE p == FirstFree(Ports, Allocated)
           r == [Idle EXCEPT !.pc = "set", !.file = "ports", !.vm = v, !.kind = k, !.val = p]
           s == [r EXCEPT !.alone = "yes"]
<1>1. p \in Ports \ Allocated
  BY ConstantsAssumption, FirstFreeIsFree DEF TakePort
<1> HIDE DEF p
<1>2. r \in Calls
  BY <1>1, PortTypes
<1>3. r.pc = "set" /\ s.pc = "set" /\ s.val = p /\ s.file = "ports"
  BY DEF Idle
<1>4. Begins(w, r, "ports")
  BY DEF TakePort, p
<1> HIDE DEF r
<1>5. Serial' /\ Current = Idle /\ Current' = s
  BY <1>2, <1>3, <1>4, CalmBegins DEF Types
<1> HIDE DEF s
<1>6. UNCHANGED <<vms, ip4, files, retro, cleaned>> /\ files["ports"].state # "torn"
  BY DEF TakePort
<1>7. Registry' = Registry /\ PortsMap' = PortsMap
  BY <1>6 DEF Registry, PortsMap
<1>8. Current.pc = "idle"
  BY IdleKnows
<1>9. files'["ips"].state # "torn"
  BY <1>6, <1>8 DEF Orderly, IpCall, Writes
<1>10. IpCall(Current)'
  BY <1>3, <1>5, <1>6, <1>7, <1>8, <1>9, IpsLeftAlone DEF Orderly, Writes
<1>11. PortsGood(PortsMap)'
  BY <1>6, <1>7 DEF Orderly, PortCall, PortsGood, InRetro
<1>12. ~InRetro(p) /\ \A a \in DOMAIN PortsMap : PortsMap[a] # p
  BY <1>1, AllocatedMeans
<1>13. (~InRetro(Current.val))' /\ \A a \in DOMAIN PortsMap' : PortsMap'[a] # Current'.val
  BY <1>3, <1>5, <1>6, <1>7, <1>12 DEF InRetro
<1>14. PortCall(Current)'
  BY <1>3, <1>5, <1>6, <1>11, <1>13 DEF PortCall, Writes
<1>15. RetroDiffer'
  BY <1>6, RetroLeftAlone DEF Orderly
<1> QED BY <1>5, <1>10, <1>14, <1>15 DEF Orderly

LEMMA SetsPortOrderly ==
  ASSUME Types, Orderly, NEW w \in Workers, SetsPort(w)
  PROVE  Orderly'
<1> DEFINE r   == worker[w]
           key == <<r.vm, r.kind>>
           s   == [r EXCEPT !.pc = "open", !.copy = Set(PortsMap, key, r.val)]
<1>1. r \in Calls /\ r.pc = "set" /\ r.file = "ports" /\ Current = r
  BY CurrentIs DEF Types, SetsPort, Calls, Sound, Orderly
<1>2. UNCHANGED <<vms, ip4, files, retro, cleaned>> /\ files["ports"].state # "torn"
  BY DEF SetsPort
<1>3. Registry' = Registry /\ PortsMap' = PortsMap
  BY <1>2 DEF Registry, PortsMap
<1>4. files'["ips"].state # "torn"
  BY <1>1, <1>2 DEF Orderly, IpCall, Writes
<1>5. RetroDiffer'
  BY <1>2, RetroLeftAlone DEF Orderly
<1>6. PortsGood(PortsMap) /\ ~InRetro(r.val) /\ \A a \in DOMAIN PortsMap : PortsMap[a] # r.val
  BY <1>1 DEF Orderly, PortCall
<1>7. PortsGood(PortsMap)'
  BY <1>2, <1>3, <1>6 DEF PortsGood, InRetro
<1>8. s.pc = "open" /\ s.file = "ports" /\ s.copy = Set(PortsMap, key, r.val)
  BY <1>1 DEF Calls, WorkerType
<1>9. worker' = [worker EXCEPT ![w] = s]
  BY <1>6 DEF SetsPort
<1> HIDE DEF s
<1>10. Serial' /\ Current' = s
  BY <1>1, <1>8, <1>9, CalmGoesOn DEF Orderly, Types
<1> HIDE DEF r, key
<1>11. IpCall(Current)'
  BY <1>1, <1>2, <1>3, <1>4, <1>8, <1>10, IpsLeftAlone DEF Orderly, Writes
<1>12. PortsGood(Current.copy)'
  <2>1. /\ DOMAIN s.copy = DOMAIN PortsMap \cup {key} /\ s.copy[key] = r.val
        /\ \A a \in DOMAIN PortsMap \ {key} : s.copy[a] = PortsMap[a]
    BY <1>8, Zenon DEF Set
  <2>2. \A a, b \in DOMAIN s.copy : s.copy[a] = s.copy[b] => a = b
    BY <1>6, <2>1 DEF PortsGood
  <2>3. \A a \in DOMAIN s.copy : ~InRetro(s.copy[a])
    BY <1>6, <2>1 DEF PortsGood
  <2> QED BY <1>2, <1>10, <2>2, <2>3 DEF PortsGood, InRetro
<1>13. PortCall(Current)'
  BY <1>2, <1>7, <1>8, <1>10, <1>12 DEF PortCall, Writes
<1> QED BY <1>5, <1>10, <1>11, <1>13 DEF Orderly

\* In an undisturbed history nobody meets a truncated reverse_ports_map.
LEMMA NobodyMeetsTorn ==
  ASSUME Types, Orderly, NEW w \in Workers
  PROVE  ~PortsTornForSet(w) /\ ~FillsNothing(w)
<1>1. ASSUME PortsTornForSet(w) PROVE FALSE
  <2>1. worker[w].pc = "set" /\ Current = worker[w] /\ files["ports"].state = "torn"
    BY <1>1, CurrentIs DEF PortsTornForSet, Orderly
  <2> QED BY <2>1 DEF Orderly, PortCall
<1>2. ASSUME FillsNothing(w) PROVE FALSE
  <2>1. worker[w].pc = "lost" /\ Current = worker[w]
    BY <1>2, CurrentIs DEF FillsNothing, Orderly
  <2> QED BY <2>1 DEF Orderly, IpCall
<1> QED BY <1>1, <1>2

LEMMA NobodyMeetsTornFirst ==
  ASSUME Orderly, Busy = {}
  PROVE  files["ports"].state # "torn"
BY IdleKnows DEF Orderly, PortCall

LEMMA CleanupPortsOrderly ==
  ASSUME Types, Orderly, NEW k \in Retro, CleanupPorts(k)
  PROVE  Orderly'
<1>1. UNCHANGED <<vms, ip4, files, worker, cleaned>>
  BY DEF CleanupPorts
<1>2. Serial' /\ Current' = Current /\ Registry' = Registry /\ PortsMap' = PortsMap
  BY <1>1 DEF Orderly, Serial, Busy, Current, Registry, PortsMap
<1>3. ASSUME NEW j \in Retro
      PROVE  DOMAIN retro'[j] \subseteq DOMAIN retro[j] /\ \A v \in DOMAIN retro'[j] : retro'[j][v] = retro[j][v]
  <2>1. CASE j = k
    BY <2>1 DEF CleanupPorts, Nothing, Types, TypeOK
  <2>2. CASE j # k
    BY <2>2 DEF CleanupPorts, Types, TypeOK
  <2> QED BY <2>1, <2>2
<1>4. RetroDiffer'
  BY <1>3 DEF Orderly, RetroDiffer
<1>5. \A p : (InRetro(p))' => InRetro(p)
  BY <1>3 DEF InRetro
<1>6. IpCall(Current)'
  BY <1>1, <1>2 DEF Orderly, IpCall, Finding, Saving, Failing, InUse, Good, Writes
<1>7. PortsGood(PortsMap)'
  BY <1>2, <1>5 DEF Orderly, PortCall, PortsGood
<1>8. Writes(Current, "ports")' => PortsGood(Current.copy)'
  BY <1>2, <1>5 DEF Orderly, PortCall, PortsGood, Writes
<1>9. Current'.pc = "set" => (~InRetro(Current.val))' /\ \A a \in DOMAIN PortsMap' : PortsMap'[a] # Current'.val
  BY <1>2, <1>5 DEF Orderly, PortCall
<1>10. files'["ports"].state = "torn" => Current'.pc = "fill" /\ Current'.file = "ports"
  BY <1>1, <1>2 DEF Orderly, PortCall
<1>11. PortCall(Current)'
  BY <1>7, <1>8, <1>9, <1>10 DEF PortCall
<1> QED BY <1>2, <1>4, <1>6, <1>11 DEF Orderly

\* Machines leave and come.
LEMMA VmLeavesOrderly ==
  ASSUME Types, Orderly, NEW v \in VMs, VmLeaves(v)
  PROVE  Orderly'
<1>1. UNCHANGED <<ip4, files, retro, worker>> /\ cleaned' = "no" /\ vms' = vms \ {v}
  BY DEF VmLeaves
<1>2. Serial' /\ Current' = Current /\ Registry' = Registry /\ PortsMap' = PortsMap
  BY <1>1 DEF Orderly, Serial, Busy, Current, Registry, PortsMap
<1>3. RetroDiffer'
  BY <1>1, RetroLeftAlone DEF Orderly
<1>4. ASSUME NEW m, Good(m) PROVE Good(m)'
  BY <1>1, <1>4 DEF Good
<1>5. IpCall(Current)'
  BY <1>1, <1>2 DEF Orderly, IpCall, Finding, Saving, Failing, InUse, Good, Writes
<1>6. PortCall(Current)'
  BY <1>1, <1>2 DEF Orderly, PortCall, PortsGood, InRetro, Writes
<1> QED BY <1>2, <1>3, <1>5, <1>6 DEF Orderly

LEMMA VmComesOrderly ==
  ASSUME Types, Orderly, NEW v \in VMs, VmComes(v),
         ip4[v] = None \/ (Busy = {} /\ v \in DOMAIN Registry)
  PROVE  Orderly'
<1>1. UNCHANGED <<ip4, files, retro, worker, cleaned>> /\ vms' = vms \cup {v}
  BY DEF VmComes
<1>2. Serial' /\ Current' = Current /\ Registry' = Registry /\ PortsMap' = PortsMap
  BY <1>1 DEF Orderly, Serial, Busy, Current, Registry, PortsMap
<1>3. RetroDiffer'
  BY <1>1, RetroLeftAlone DEF Orderly
<1>4. PortCall(Current)'
  BY <1>1, <1>2 DEF Orderly, PortCall, PortsGood, InRetro, Writes
<1>5. CASE ip4[v] = None
  <2>1. IpCall(Current)'
    BY <1>1, <1>2, <1>5 DEF Orderly, IpCall, Finding, Saving, Failing, InUse, Good, Writes
  <2> QED BY <1>2, <1>3, <1>4, <2>1 DEF Orderly
<1>6. CASE Busy = {} /\ v \in DOMAIN Registry
  <2>1. Good(Registry) /\ Current.pc = "idle"
    BY <1>6, IdleKnows
  <2>2. Good(Registry)'
    BY <1>1, <1>2, <1>6, <2>1 DEF Good
  <2>3. IpCall(Current)'
    BY <1>1, <1>2, <2>1, <2>2 DEF Orderly, IpCall, Writes
  <2> QED BY <1>2, <1>3, <1>4, <2>3 DEF Orderly
<1> QED BY <1>5, <1>6

LEMMA RendersOrderly ==
  ASSUME Types, Calm => Orderly, NEW w \in Workers, Renders(w), Calm'
  PROVE  Orderly'
<1>1. CASE \E v \in VMs : FindIp(w, v)
  <2>1. PICK v \in VMs : FindIp(w, v)
    BY <1>1
  <2>2. Disturb(Overlap)
    BY <2>1 DEF FindIp
  <2>3. Calm /\ Busy = {}
    BY <2>2, DisturbCalm DEF Types, Overlap, If
  <2> QED BY <2>1, <2>3, FindIpOrderly
<1>2. CASE \E v \in VMs : PortsTornForGet(w, v)
  <2>1. PICK v \in VMs : PortsTornForGet(w, v)
    BY <1>2
  <2>2. Disturb(Overlap) /\ files["ports"].state = "torn"
    BY <2>1 DEF PortsTornForGet
  <2>3. Calm /\ Busy = {}
    BY <2>2, DisturbCalm DEF Types, Overlap, If
  <2> QED BY <2>2, <2>3, NobodyMeetsTornFirst
<1>3. CASE \E v \in VMs, k \in Kinds, reset \in BOOLEAN : TakePort(w, v, k, reset)
  <2>1. PICK v \in VMs, k \in Kinds, reset \in BOOLEAN : TakePort(w, v, k, reset)
    BY <1>3
  <2>2. Disturb(Overlap)
    BY <2>1 DEF TakePort
  <2>3. Calm /\ Busy = {}
    BY <2>2, DisturbCalm DEF Types, Overlap, If
  <2> QED BY <2>1, <2>3, TakePortOrderly
<1> QED BY <1>1, <1>2, <1>3 DEF Renders

LEMMA AdministersOrderly ==
  ASSUME Types, Calm => Orderly, NEW w \in Workers, Administers(w), Calm'
  PROVE  Orderly'
<1>1. CASE \E v \in VMs, ip \in IPs : SetIp(w, v, ip)
  <2>1. PICK v \in VMs, ip \in IPs : SetIp(w, v, ip)
    BY <1>1
  <2> DEFINE more == If(\E u \in DOMAIN Registry \ {v} : Registry[u] = ip, "given twice")
  <2>2. Disturb(Overlap \cup more)
    BY <2>1 DEF SetIp
  <2> HIDE DEF more
  <2>3. Calm /\ Busy = {} /\ more = {}
    BY <2>2, DisturbCalm, NoOverlap DEF Types
  <2>4. \A u \in DOMAIN Registry \ {v} : Registry[u] # ip
    BY <2>3 DEF more, If
  <2> QED BY <2>1, <2>3, <2>4, SetIpOrderly
<1>2. CASE \E v \in VMs \cup {NoVm}, ip \in IPs \cup {None} : RemoveIp(w, v, ip)
  <2>1. PICK v \in VMs \cup {NoVm}, ip \in IPs \cup {None} : RemoveIp(w, v, ip)
    BY <1>2
  <2> DEFINE more == If(Removed(v, ip) \cap vms # {}, "taken away")
  <2>2. Disturb(Overlap \cup more)
    BY <2>1 DEF RemoveIp
  <2> HIDE DEF more
  <2>3. Calm /\ Busy = {} /\ more = {}
    BY <2>2, DisturbCalm, NoOverlap DEF Types
  <2>4. Removed(v, ip) \cap vms = {}
    BY <2>3 DEF more, If
  <2> QED BY <2>1, <2>3, <2>4, RemoveIpOrderly
<1>3. CASE CleanupIps(w)
  <2>1. Disturb(Overlap)
    BY <1>3 DEF CleanupIps
  <2>2. Calm /\ Busy = {}
    BY <2>1, DisturbCalm DEF Types, Overlap, If
  <2> QED BY <1>3, <2>2, CleanupIpsOrderly
<1> QED BY <1>1, <1>2, <1>3 DEF Administers

LEMMA GoesOrderly ==
  ASSUME Types, Calm => Orderly, NEW w \in Workers, Goes(w), Calm'
  PROVE  Orderly'
<1>1. disturbed' = disturbed
  BY DEF Goes, Opens, Fills, FillsNothing, FindsItsOwn, FindsNewIp, SavesIp, NoIpLeft, SetsPort,
         PortsTornForSet
<1>2. Orderly
  BY <1>1 DEF Calm
<1> QED BY <1>2, OpensOrderly, FillsOrderly, FindsItsOwnOrderly, FindsNewIpOrderly, SavesIpOrderly,
           NoIpLeftOrderly, SetsPortOrderly, NobodyMeetsTorn DEF Goes

LEMMA MovesOrderly ==
  ASSUME Types, Calm => Orderly, NEW v \in VMs, VmLeaves(v) \/ VmComes(v), Calm'
  PROVE  Orderly'
<1>1. CASE VmLeaves(v)
  <2>1. Orderly
    BY <1>1 DEF VmLeaves, Calm
  <2> QED BY <1>1, <2>1, VmLeavesOrderly
<1>2. CASE VmComes(v)
  <2> DEFINE ways == If(ip4[v] # None /\ (Busy # {} \/ v \notin DOMAIN Registry), "return")
  <2>1. Disturb(ways)
    BY <1>2 DEF VmComes
  <2> HIDE DEF ways
  <2>2. Calm /\ ways = {}
    BY <2>1, DisturbCalm DEF Types
  <2>3. ip4[v] = None \/ (Busy = {} /\ v \in DOMAIN Registry)
    BY <2>2 DEF ways, If
  <2> QED BY <1>2, <2>2, <2>3, VmComesOrderly
<1> QED BY <1>1, <1>2

LEMMA CalmStep == Types /\ CalmInv /\ [Next]_vars => CalmInv'
<1> SUFFICES ASSUME Types, Calm => Orderly, [Next]_vars, Calm' PROVE Orderly'
  BY DEF CalmInv
<1>1. CASE UNCHANGED vars
  <2>1. UNCHANGED <<vms, ip4, files, retro, worker, cleaned, disturbed>>
    BY <1>1 DEF vars
  <2>2. Orderly
    BY <2>1 DEF Calm
  <2>3. Current' = Current /\ Serial' /\ Registry' = Registry /\ PortsMap' = PortsMap
    BY <2>1, <2>2 DEF Orderly, Serial, Busy, Current, Registry, PortsMap
  <2>4. RetroDiffer'
    BY <2>1, <2>2, RetroLeftAlone DEF Orderly
  <2>5. IpCall(Current)'
    BY <2>1, <2>2, <2>3 DEF Orderly, IpCall, Finding, Saving, Failing, InUse, Good, Writes
  <2>6. PortCall(Current)'
    BY <2>1, <2>2, <2>3 DEF Orderly, PortCall, PortsGood, InRetro, Writes
  <2> QED BY <2>3, <2>4, <2>5, <2>6 DEF Orderly
<1>2. ASSUME NEW w \in Workers, Goes(w) PROVE Orderly'
  BY <1>2, GoesOrderly
<1>3. ASSUME NEW w \in Workers, Renders(w) PROVE Orderly'
  BY <1>3, RendersOrderly
<1>4. ASSUME NEW w \in Workers, Administers(w) PROVE Orderly'
  BY <1>4, AdministersOrderly
<1>5. ASSUME NEW w \in Workers, WorkerDies(w) PROVE Orderly'
  <2>1. Disturb({"death"})
    BY <1>5 DEF WorkerDies
  <2> QED BY <2>1, DisturbCalm DEF Types
<1>6. ASSUME NEW k \in Retro, CleanupPorts(k) PROVE Orderly'
  BY <1>6, CleanupPortsOrderly DEF CleanupPorts, Calm
<1>7. ASSUME NEW v \in VMs, VmLeaves(v) \/ VmComes(v) PROVE Orderly'
  BY <1>7, MovesOrderly
<1> QED BY <1>1, <1>2, <1>3, <1>4, <1>5, <1>6, <1>7 DEF Next

\* A map with one entry at most.
Small == {m \in Maps(VMs, Ports) : \A x, y \in DOMAIN m : x = y}

LEMMA SmallFirst == Init => retro \in [Retro -> Small]
<1> SUFFICES ASSUME Init PROVE retro \in [Retro -> Small]
  OBVIOUS
<1>1. ASSUME NEW u \in VMs, NEW p \in Ports PROVE Entry(u, p) \in Small
  <2>1. Entry(u, p) \in [{u} -> Ports] /\ {u} \in SUBSET VMs
    BY DEF Entry
  <2>2. Entry(u, p) \in Maps(VMs, Ports)
    BY <2>1 DEF Maps
  <2> QED BY <2>1, <2>2 DEF Small
<1>2. Nothing \in Small
  BY MapsNothing DEF Small
<1>3. \A m \in Inherited : m \in Small
  BY <1>1, <1>2, InheritedAre
<1> QED BY <1>3 DEF Init

LEMMA CalmInit == Init => CalmInv
<1> SUFFICES ASSUME Init PROVE Orderly
  BY DEF CalmInv
<1>1. Busy = {} /\ Serial /\ Current = Idle
  BY DEF Init, Busy, Serial, Current, Idle
<1>2. Registry = Nothing /\ PortsMap = Nothing
  BY DEF Init, Registry, PortsMap, Missing, Files
<1>3. files["ips"].state = "missing" /\ files["ports"].state = "missing"
  BY DEF Init, Files, Missing
<1>4. DOMAIN Nothing = {} /\ \A v \in vms : ip4[v] = None
  BY MapsNothing DEF Init
<1>5. IpCall(Current)
  BY <1>1, <1>2, <1>3, <1>4 DEF IpCall, Good, Writes, Idle
<1>6. PortCall(Current)
  BY <1>1, <1>2, <1>3, <1>4 DEF PortCall, PortsGood, Writes, Idle
<1>7. RetroDiffer
  <2>2. retro \in [Retro -> Small]
    BY SmallFirst
  <2>3. SUFFICES ASSUME NEW j \in Retro, NEW k \in Retro, NEW a \in DOMAIN retro[j],
                        NEW b \in DOMAIN retro[k], retro[j][a] = retro[k][b]
                 PROVE  j = k /\ a = b
    BY DEF RetroDiffer
  <2>4. j = k
    BY <2>3 DEF Init, Range
  <2>5. retro[j] \in Small
    BY <2>2
  <2>6. \A x, y \in DOMAIN retro[j] : x = y
    BY <2>5 DEF Small
  <2> QED BY <2>4, <2>6
<1> QED BY <1>1, <1>5, <1>6, <1>7 DEF Orderly

LEMMA Invariance == Spec => [](Types /\ CalmInv)
BY TypesInit, TypesStep, CalmInit, CalmStep, PTL DEF Spec

-----------------------------------------------------------------------------

\* Undisturbed, no two machines have the same address in their settings.
THEOREM AddressesAreUnique == Spec => []UniqueIps
<1>1. CalmInv => UniqueIps
  <2>1. SUFFICES ASSUME Orderly, NEW u \in vms, NEW v \in vms, u # v, ip4[u] # None
                 PROVE  ip4[u] # ip4[v]
    BY DEF CalmInv, UniqueIps
  <2>2. PICK m : Good(m)
    BY <2>1 DEF Orderly, IpCall
  <2> QED BY <2>1, <2>2 DEF Good
<1> QED BY <1>1, Invariance, PTL

\* Undisturbed, no port is redirected to two services.
THEOREM PortsAreUnique == Spec => []UniquePorts
<1>1. Types /\ CalmInv => UniquePorts
  <2>1. SUFFICES ASSUME Orderly, NEW a \in Keys, NEW b \in Keys, a # b, PortOf(a[1], a[2]) # None
                 PROVE  PortOf(a[1], a[2]) # PortOf(b[1], b[2])
    BY DEF CalmInv, UniquePorts
  <2>2. a = <<a[1], a[2]>> /\ b = <<b[1], b[2]>>
    BY DEF Keys
  <2>3. PortsGood(PortsMap) /\ RetroDiffer
    BY <2>1 DEF Orderly, PortCall
  <2>4. ASSUME NEW c \in Keys, c = <<c[1], c[2]>>, PortOf(c[1], c[2]) # None
        PROVE  \/ c \in DOMAIN PortsMap /\ PortOf(c[1], c[2]) = PortsMap[c]
               \/ /\ c[2] \in Retro /\ c[1] \in DOMAIN retro[c[2]]
                  /\ PortOf(c[1], c[2]) = retro[c[2]][c[1]]
    BY <2>4 DEF PortOf, Fallback
  <2>5. SUFFICES ASSUME PortOf(a[1], a[2]) = PortOf(b[1], b[2]) PROVE FALSE
    OBVIOUS
  <2> DEFINE p == PortOf(a[1], a[2])
  <2>6. \/ a \in DOMAIN PortsMap /\ p = PortsMap[a]
        \/ a[2] \in Retro /\ a[1] \in DOMAIN retro[a[2]] /\ p = retro[a[2]][a[1]]
    BY <2>1, <2>2, <2>4
  <2>7. \/ b \in DOMAIN PortsMap /\ p = PortsMap[b]
        \/ b[2] \in Retro /\ b[1] \in DOMAIN retro[b[2]] /\ p = retro[b[2]][b[1]]
    BY <2>1, <2>2, <2>4, <2>5
  <2> HIDE DEF p
  <2>8. CASE a \in DOMAIN PortsMap /\ p = PortsMap[a]
    BY <2>1, <2>3, <2>7, <2>8 DEF PortsGood, InRetro
  <2>9. CASE a[2] \in Retro /\ a[1] \in DOMAIN retro[a[2]] /\ p = retro[a[2]][a[1]]
    <3>1. b \notin DOMAIN PortsMap \/ p # PortsMap[b]
      BY <2>3, <2>9 DEF PortsGood, InRetro
    <3>2. a[2] = b[2] /\ a[1] = b[1]
      BY <2>3, <2>7, <2>9, <3>1 DEF RetroDiffer
    <3> QED BY <2>1, <2>2, <3>2
  <2> QED BY <2>6, <2>8, <2>9
<1> QED BY <1>1, Invariance, PTL

\* Undisturbed and after a cleanup, the call that finds no address fails
\* because as many other machines of the node have one.
THEOREM ExhaustionTellsTheTruth ==
  ASSUME IsFiniteSet(VMs)
  PROVE  Spec => []ExhaustionIsReal
<1>1. Types /\ CalmInv => ExhaustionIsReal
  <2>1. SUFFICES ASSUME Types, Orderly, NEW w \in Workers, cleaned = "yes", worker[w].pc = "fail"
                 PROVE  Cardinality(vms \ {worker[w].vm}) >= Cardinality(IPs)
    BY DEF CalmInv, ExhaustionIsReal
  <2> DEFINE v == worker[w].vm
             D == DOMAIN Registry
             others == vms \ {v}
             holder == [ip \in IPs |-> CHOOSE u \in D : Registry[u] = ip]
  <2>2. Current = worker[w]
    BY <2>1, CurrentIs DEF Orderly
  <2>3. IPs \subseteq Range(Registry) /\ ip4[v] = None
    BY <2>1, <2>2 DEF Orderly, IpCall, Failing
  <2>4. Good(Registry)
    BY <2>1, <2>2 DEF Orderly, IpCall, Writes
  <2>5. v \notin D
    <3>1. \A u \in D : Registry[u] \in IPs
      BY <2>1, RegistryType, MapsApply DEF Types
    <3>2. None \notin IPs
      BY ConstantsAssumption
    <3> QED BY <2>3, <2>4, <3>1, <3>2 DEF Good
  <2>6. D \subseteq others
    BY <2>1, <2>4, <2>5 DEF Good
  <2>7. \A ip \in IPs : holder[ip] \in D /\ Registry[holder[ip]] = ip
    BY <2>3 DEF Range
  <2>8. IsFiniteSet(others)
    <3>1. others \in SUBSET VMs
      BY <2>1 DEF Types, TypeOK
    <3> QED BY <3>1, FS_Subset
  <2>9. holder \in [IPs -> others]
    BY <2>6, <2>7
  <2>10. \A x, y \in IPs : holder[x] = holder[y] => x = y
    <3> HIDE DEF holder
    <3>1. ASSUME NEW x \in IPs, NEW y \in IPs, holder[x] = holder[y] PROVE x = y
      <4>1. Registry[holder[x]] = x /\ Registry[holder[y]] = y
        BY <2>7
      <4> QED BY <3>1, <4>1
    <3> QED BY <3>1
  <2> HIDE DEF holder, others, D, v
  <2>11. holder \in Injection(IPs, others)
    BY <2>9, <2>10 DEF Injection, IsInjective
  <2>12. /\ IsFiniteSet(IPs)
         /\ Cardinality(IPs) <= Cardinality(others)
    BY <2>8, <2>11, FS_Injection
  <2>13. Cardinality(IPs) \in Nat /\ Cardinality(others) \in Nat
    BY <2>8, <2>12, FS_CardinalityType
  <2>14. Cardinality(others) >= Cardinality(IPs)
    BY <2>12, <2>13
  <2> QED BY <2>14 DEF others, v
<1> QED BY <1>1, Invariance, PTL

-----------------------------------------------------------------------------
(* Whatever happens, a call that has been alone since it began knows what  *)
(* it is doing.                                                            *)

Knows(r) ==
  /\ r.pc = "find" => r.val = ip4[r.vm]
  /\ r.pc = "save" => r.vm \in DOMAIN r.copy /\ r.copy[r.vm] = r.val
  /\ Writes(r, "ips") /\ r.vm # NoVm => r.vm \in DOMAIN r.copy /\ r.copy[r.vm] = ip4[r.vm]

AloneInv ==
  \A w \in Busy : worker[w].alone = "yes" => Busy = {w} /\ Knows(worker[w])

LEMMA SetHas ==
  ASSUME NEW f, NEW x, NEW y
  PROVE  x \in DOMAIN Set(f, x, y) /\ Set(f, x, y)[x] = y
BY DEF Set

LEMMA DeletedKeeps ==
  ASSUME NEW r \in Calls, NEW f
  PROVE  Deleted(r, f).alone = r.alone /\ (Deleted(r, f).pc = "idle" <=> r.pc = "idle")
BY DEF Deleted, Calls, WorkerType

\* Calls that go on.
LEMMA GoesOnAlone ==
  ASSUME AloneInv, NEW w \in Workers, worker[w].pc # "idle", NEW r,
         worker'[w] = r, r.pc # "idle" => r.alone = worker[w].alone,
         \A q \in Workers \ {w} : /\ worker'[q].alone = worker[q].alone
                                  /\ worker'[q].pc = "idle" <=> worker[q].pc = "idle",
         r.pc # "idle" /\ r.alone = "yes" => Knows(worker[w])'
  PROVE  AloneInv'
<1> SUFFICES ASSUME NEW q \in Busy', worker'[q].alone = "yes"
             PROVE  Busy' = {q} /\ Knows(worker[q])'
  BY DEF AloneInv
<1>1. w \in Busy /\ q \in Workers /\ worker'[q].pc # "idle"
  BY DEF Busy
<1>2. q = w
  <2>1. SUFFICES ASSUME q # w PROVE FALSE
    OBVIOUS
  <2>2. q \in Busy /\ worker[q].alone = "yes"
    BY <1>1, <2>1 DEF Busy
  <2> QED BY <1>1, <2>1, <2>2 DEF AloneInv
<1>3. Busy = {w}
  BY <1>1, <1>2 DEF AloneInv
<1>4. Busy' = {w}
  BY <1>1, <1>2, <1>3 DEF Busy
<1> QED BY <1>1, <1>2, <1>4

LEMMA ContinuesAlone ==
  ASSUME Types, AloneInv, NEW w \in Workers, worker[w].pc # "idle", NEW r, NEW f,
         Continues(w, r, f), r.pc # "idle" => r.alone = worker[w].alone,
         r.pc # "idle" /\ r.alone = "yes" => Knows(worker[w])'
  PROVE  AloneInv'
<1>1. worker'[w] = r
  BY DEF Continues
<1>2. ASSUME NEW q \in Workers \ {w}
      PROVE  /\ worker'[q].alone = worker[q].alone
             /\ worker'[q].pc = "idle" <=> worker[q].pc = "idle"
  <2>1. worker'[q] = Deleted(worker[q], f) /\ worker[q] \in Calls
    BY DEF Continues, Types
  <2> QED BY <2>1, DeletedKeeps
<1> QED BY <1>1, <1>2, GoesOnAlone

LEMMA OneAlone ==
  ASSUME Types, AloneInv, NEW w \in Workers, worker[w].pc # "idle", NEW r,
         r.pc # "idle" => r.alone = worker[w].alone,
         r.pc # "idle" /\ r.alone = "yes" => Knows(worker[w])'
  PROVE  worker' = [worker EXCEPT ![w] = r] => AloneInv'
<1>1. ASSUME worker' = [worker EXCEPT ![w] = r]
      PROVE  worker'[w] = r /\ \A q \in Workers \ {w} : worker'[q] = worker[q]
  BY <1>1 DEF Types
<1>2. ASSUME worker'[w] = r, \A q \in Workers \ {w} : worker'[q] = worker[q]
      PROVE  AloneInv'
  BY <1>2, GoesOnAlone
<1> QED BY <1>1, <1>2

\* Calls that begin.
LEMMA BeginsAlone ==
  ASSUME Types, AloneInv, NEW w \in Workers, NEW r \in Calls, NEW f, Begins(w, r, f),
         Busy = {} /\ r.pc # "idle" => Knows(worker[w])'
  PROVE  AloneInv'
<1> SUFFICES ASSUME NEW q \in Busy', worker'[q].alone = "yes"
             PROVE  Busy' = {q} /\ Knows(worker[q])'
  BY DEF AloneInv
<1>1. q \in Workers /\ worker'[q].pc # "idle"
  BY DEF Busy
<1>2. worker'[w] = [r EXCEPT !.alone = IF Busy = {} THEN "yes" ELSE "no"]
  BY DEF Begins, Busy
<1>3. worker'[w].pc = r.pc /\ worker'[w].alone = IF Busy = {} THEN "yes" ELSE "no"
  BY <1>2 DEF Calls, WorkerType
<1>4. w \notin Busy
  BY DEF Begins, Busy
<1>5. q \notin Busy
  <2>1. SUFFICES ASSUME q \in Busy PROVE FALSE
    OBVIOUS
  <2>2. worker'[q] = [Deleted(worker[q], f) EXCEPT !.alone = "no"]
    BY <1>1, <1>4, <2>1 DEF Begins
  <2>3. Deleted(worker[q], f) \in Calls
    BY <1>1, DeletedIsCall DEF Types
  <2>4. worker'[q].alone = "no"
    BY <2>2, <2>3 DEF Calls, WorkerType
  <2> QED BY <2>4
<1>6. q = w
  <2>1. SUFFICES ASSUME q # w PROVE FALSE
    OBVIOUS
  <2>2. worker'[q] = worker[q]
    BY <1>1, <1>5, <2>1 DEF Begins
  <2> QED BY <1>1, <1>5, <2>2 DEF Busy
<1>7. Busy = {}
  BY <1>3, <1>6
<1>8. \A p \in Workers \ {w} : worker'[p] = worker[p] /\ worker[p].pc = "idle"
  BY <1>7 DEF Begins, Busy
<1>9. Busy' = {w}
  BY <1>1, <1>6, <1>8 DEF Busy
<1> QED BY <1>1, <1>3, <1>6, <1>7, <1>9

LEMMA BeginsWith ==
  ASSUME NEW w \in Workers, NEW r \in Calls, NEW f, Begins(w, r, f)
  PROVE  /\ worker'[w].pc = r.pc /\ worker'[w].vm = r.vm
         /\ worker'[w].val = r.val /\ worker'[w].copy = r.copy
<1>1. worker'[w] = [r EXCEPT !.alone = IF Busy = {} THEN "yes" ELSE "no"]
  BY DEF Begins, Busy
<1> QED BY <1>1 DEF Calls, WorkerType

LEMMA NothingAlone ==
  ASSUME AloneInv, UNCHANGED <<worker, ip4>>
  PROVE  AloneInv'
BY DEF AloneInv, Busy, Knows, Writes

LEMMA GoesAlone ==
  ASSUME Types, AloneInv, NEW w \in Workers, Goes(w)
  PROVE  AloneInv'
<1> DEFINE r == worker[w]
<1>1. r \in Calls /\ r.pc # "idle"
  BY DEF Types, Goes, Opens, Fills, FillsNothing, FindsItsOwn, FindsNewIp, SavesIp, NoIpLeft,
         SetsPort, PortsTornForSet
<1>2. Idle.pc = "idle"
  BY DEF Idle
<1>3. r.alone = "yes" => Knows(r)
  BY <1>1 DEF AloneInv, Busy
<1>4. CASE Opens(w)
  <2> DEFINE s == [r EXCEPT !.pc = "fill"]
  <2>1. /\ s.pc = "fill" /\ s.file = r.file /\ s.copy = r.copy /\ s.vm = r.vm
        /\ s.alone = r.alone /\ r.pc = "open"
    BY <1>1, <1>4 DEF Calls, WorkerType, Opens
  <2>2. worker' = [worker EXCEPT ![w] = s] /\ UNCHANGED ip4
    BY <1>4 DEF Opens
  <2> HIDE DEF s
  <2>3. worker'[w] = s
    BY <2>2 DEF Types
  <2>4. r.alone = "yes" => Knows(worker[w])'
    BY <1>3, <2>1, <2>2, <2>3 DEF Knows, Writes
  <2> QED BY <1>1, <2>1, <2>2, <2>4, OneAlone
<1>5. CASE Fills(w) \/ FillsNothing(w) \/ NoIpLeft(w)
  <2>1. worker' = [worker EXCEPT ![w] = Idle]
    BY <1>5 DEF Fills, FillsNothing, NoIpLeft
  <2> QED BY <1>1, <1>2, <2>1, OneAlone
<1>6. CASE FindsItsOwn(w)
  <2> DEFINE s == [ToRegister(r, r.val) EXCEPT !.pc = "open"]
  <2>1. r.pc = "find" /\ UNCHANGED ip4
    BY <1>6 DEF FindsItsOwn
  <2>2. /\ s.pc = "open" /\ s.file = r.file /\ s.copy = Set(Registry, r.vm, r.val)
        /\ s.vm = r.vm /\ s.alone = r.alone
    BY <1>1 DEF Calls, WorkerType, ToRegister
  <2>3. Continues(w, Idle, "ips") \/ Continues(w, s, "ips")
    BY <1>6 DEF FindsItsOwn
  <2> HIDE DEF s
  <2>4. CASE Continues(w, Idle, "ips")
    BY <1>1, <1>2, <2>4, ContinuesAlone
  <2>5. CASE Continues(w, s, "ips")
    <3>1. worker'[w] = s
      BY <2>5 DEF Continues
    <3>2. r.vm \in DOMAIN s.copy /\ s.copy[r.vm] = r.val
      BY <2>2, SetHas
    <3>3. r.alone = "yes" => Knows(worker[w])'
      BY <1>3, <2>1, <2>2, <3>1, <3>2 DEF Knows, Writes
    <3> QED BY <1>1, <2>2, <2>5, <3>3, ContinuesAlone
  <2> QED BY <2>3, <2>4, <2>5
<1>7. CASE FindsNewIp(w)
  <2> DEFINE ip == FirstFree(IPs, Range(Registry))
             s  == IF ip = None THEN [r EXCEPT !.pc = "fail"]
                   ELSE [ToRegister(r, ip) EXCEPT !.pc = "save"]
  <2>1. Continues(w, s, "ips")
    BY <1>7 DEF FindsNewIp
  <2>2. /\ s.alone = r.alone
        /\ \/ s.pc = "fail"
           \/ s.pc = "save" /\ s.vm = r.vm /\ s.val = ip /\ s.copy = Set(Registry, r.vm, ip)
    <3> HIDE DEF ip
    <3> QED BY <1>1 DEF Calls, WorkerType, ToRegister
  <2> HIDE DEF s, ip
  <2>3. worker'[w] = s
    BY <2>1 DEF Continues
  <2>4. Knows(worker[w])'
    BY <2>2, <2>3, SetHas DEF Knows, Writes
  <2> QED BY <1>1, <2>1, <2>2, <2>4, ContinuesAlone
<1>8. CASE SavesIp(w)
  <2> DEFINE s == [r EXCEPT !.pc = "open"]
  <2>1. r.pc = "save" /\ r.vm \in VMs /\ ip4 \in [VMs -> IPs \cup {None}]
    BY <1>1, <1>8 DEF SavesIp, Calls, Sound, Types, TypeOK
  <2>2. /\ s.pc = "open" /\ s.copy = r.copy /\ s.vm = r.vm /\ s.alone = r.alone
    BY <1>1 DEF Calls, WorkerType
  <2>3. worker' = [worker EXCEPT ![w] = s] /\ ip4' = [ip4 EXCEPT ![r.vm] = r.val]
    BY <1>8 DEF SavesIp
  <2>4. ip4'[r.vm] = r.val
    BY <2>1, <2>3
  <2> HIDE DEF s
  <2>5. worker'[w] = s
    BY <2>3 DEF Types
  <2>6. r.alone = "yes" => Knows(worker[w])'
    BY <1>3, <2>1, <2>2, <2>4, <2>5 DEF Knows, Writes
  <2> QED BY <1>1, <2>2, <2>3, <2>6, OneAlone
<1>9. CASE SetsPort(w)
  <2> DEFINE s == [r EXCEPT !.pc = "open", !.copy = Set(PortsMap, <<r.vm, r.kind>>, r.val)]
  <2>1. r.pc = "set" /\ r.file = "ports"
    BY <1>1, <1>9 DEF SetsPort, Calls, Sound
  <2>2. s.pc = "open" /\ s.file = "ports" /\ s.alone = r.alone
    BY <1>1, <2>1 DEF Calls, WorkerType
  <2>3. worker' = [worker EXCEPT ![w] = Idle] \/ worker' = [worker EXCEPT ![w] = s]
    BY <1>9 DEF SetsPort
  <2> HIDE DEF s
  <2>4. CASE worker' = [worker EXCEPT ![w] = Idle]
    BY <1>1, <1>2, <2>4, OneAlone
  <2>5. CASE worker' = [worker EXCEPT ![w] = s]
    <3>1. worker'[w] = s
      BY <2>5 DEF Types
    <3>2. Knows(worker[w])'
      BY <2>2, <3>1 DEF Knows, Writes
    <3> QED BY <1>1, <2>2, <2>5, <3>2, OneAlone
  <2> QED BY <2>3, <2>4, <2>5
<1>10. CASE PortsTornForSet(w)
  BY <1>1, <1>2, <1>10, ContinuesAlone DEF PortsTornForSet
<1> QED BY <1>4, <1>5, <1>6, <1>7, <1>8, <1>9, <1>10 DEF Goes

LEMMA CallsAlone ==
  ASSUME Types, AloneInv, NEW w \in Workers, Renders(w) \/ Administers(w)
  PROVE  AloneInv'
<1>1. CASE \E v \in VMs : FindIp(w, v)
  <2>1. PICK v \in VMs : FindIp(w, v)
    BY <1>1
  <2> DEFINE r == [Idle EXCEPT !.pc = "find", !.vm = v, !.val = ip4[v]]
  <2>2. r \in Calls /\ Begins(w, r, "ips") /\ UNCHANGED ip4
    BY <2>1, FindIpTypes DEF FindIp, Types
  <2>3. r.pc = "find" /\ r.vm = v /\ r.val = ip4[v]
    BY DEF Idle
  <2> HIDE DEF r
  <2>4. worker'[w].pc = "find" /\ worker'[w].vm = v /\ worker'[w].val = ip4[v]
    BY <2>2, <2>3, BeginsWith
  <2>5. Knows(worker[w])'
    BY <2>2, <2>4 DEF Knows, Writes
  <2> QED BY <2>2, <2>5, BeginsAlone
<1>2. CASE \E v \in VMs : PortsTornForGet(w, v)
  BY <1>2, IdleIsCall, BeginsAlone DEF PortsTornForGet, Idle
<1>3. CASE \E v \in VMs, k \in Kinds, reset \in BOOLEAN : TakePort(w, v, k, reset)
  <2>1. PICK v \in VMs, k \in Kinds, reset \in BOOLEAN : TakePort(w, v, k, reset)
    BY <1>3
  <2> DEFINE port == FirstFree(Ports, Allocated)
             r == [Idle EXCEPT !.pc = "set", !.file = "ports", !.vm = v, !.kind = k, !.val = port]
  <2>2. Begins(w, r, "ports") /\ port # None
    BY <2>1 DEF TakePort
  <2>3. port \in Ports
    BY <2>2, ConstantsAssumption, FirstFreeIsFree
  <2> HIDE DEF port
  <2>4. r \in Calls
    BY <2>3, PortTypes
  <2>5. r.pc = "set"
    BY DEF Idle
  <2> HIDE DEF r
  <2>6. worker'[w].pc = "set"
    BY <2>2, <2>4, <2>5, BeginsWith
  <2>7. Knows(worker[w])'
    BY <2>6 DEF Knows, Writes
  <2> QED BY <2>2, <2>4, <2>7, BeginsAlone
<1>4. CASE \E v \in VMs, ip \in IPs : SetIp(w, v, ip)
  <2>1. PICK v \in VMs, ip \in IPs : SetIp(w, v, ip)
    BY <1>4
  <2> DEFINE r == [ToRegister([Idle EXCEPT !.vm = v], ip) EXCEPT !.pc = "save"]
  <2>2. r \in Calls /\ Begins(w, r, "ips")
    BY <2>1, SetIpTypes DEF SetIp, Types
  <2>3. r.pc = "save" /\ r.vm = v /\ r.val = ip /\ r.copy = Set(Registry, v, ip)
    BY DEF Idle, ToRegister
  <2> HIDE DEF r
  <2>4. /\ worker'[w].pc = "save" /\ worker'[w].vm = v /\ worker'[w].val = ip
        /\ worker'[w].copy = Set(Registry, v, ip)
    BY <2>2, <2>3, BeginsWith
  <2>5. Knows(worker[w])'
    BY <2>4, SetHas DEF Knows, Writes
  <2> QED BY <2>2, <2>5, BeginsAlone
<1>5. ASSUME NEW m \in Maps(VMs, IPs), NEW r, r = [Idle EXCEPT !.pc = "open", !.copy = m],
             Begins(w, r, "ips")
      PROVE  AloneInv'
  <2>1. r \in Calls /\ r.pc = "open" /\ r.vm = NoVm
    BY <1>5, OpenTypes DEF Idle
  <2>2. worker'[w].pc = "open" /\ worker'[w].vm = NoVm
    BY <1>5, <2>1, BeginsWith
  <2>3. Knows(worker[w])'
    BY <2>2 DEF Knows, Writes
  <2> QED BY <1>5, <2>1, <2>3, BeginsAlone
<1>6. CASE \E v \in VMs \cup {NoVm}, ip \in IPs \cup {None} : RemoveIp(w, v, ip)
  <2>1. PICK v \in VMs \cup {NoVm}, ip \in IPs \cup {None} : RemoveIp(w, v, ip)
    BY <1>6
  <2>2. Without(Registry, Removed(v, ip)) \in Maps(VMs, IPs)
    BY RegistryType, MapsWithout DEF Types
  <2> QED BY <1>5, <2>1, <2>2 DEF RemoveIp
<1>7. CASE CleanupIps(w)
  <2>1. Cleaned \in Maps(VMs, IPs)
    BY CleanedTypes DEF Types
  <2>2. CASE Cleaned = Registry
    BY <1>7, <2>2, IdleIsCall, BeginsAlone DEF CleanupIps, Idle
  <2>3. CASE Cleaned # Registry
    BY <1>5, <1>7, <2>1, <2>3 DEF CleanupIps
  <2> QED BY <2>2, <2>3
<1> QED BY <1>1, <1>2, <1>3, <1>4, <1>6, <1>7 DEF Renders, Administers

LEMMA RendersBegins ==
  ASSUME NEW q \in Workers, Renders(q)
  PROVE  \E r, f : Begins(q, r, f)
<1>1. ASSUME NEW v, FindIp(q, v) \/ PortsTornForGet(q, v) PROVE \E r, f : Begins(q, r, f)
  BY <1>1 DEF FindIp, PortsTornForGet
<1>2. ASSUME NEW v, NEW k, NEW reset, TakePort(q, v, k, reset) PROVE \E r, f : Begins(q, r, f)
  BY <1>2 DEF TakePort
<1> QED BY <1>1, <1>2 DEF Renders

LEMMA AdministersBegins ==
  ASSUME NEW q \in Workers, Administers(q)
  PROVE  \E r, f : Begins(q, r, f)
<1>1. ASSUME NEW v, NEW ip, SetIp(q, v, ip) \/ RemoveIp(q, v, ip) PROVE \E r, f : Begins(q, r, f)
  BY <1>1 DEF SetIp, RemoveIp
<1>2. CASE CleanupIps(q)
  BY <1>2 DEF CleanupIps
<1> QED BY <1>1, <1>2 DEF Administers

LEMMA AloneStep == Types /\ AloneInv /\ [Next]_vars => AloneInv'
<1> SUFFICES ASSUME Types, AloneInv, [Next]_vars PROVE AloneInv'
  OBVIOUS
<1>1. CASE UNCHANGED vars
  BY <1>1, NothingAlone DEF vars
<1>2. ASSUME NEW w \in Workers, Goes(w) \/ Renders(w) \/ Administers(w) PROVE AloneInv'
  BY <1>2, GoesAlone, CallsAlone
<1>3. ASSUME NEW w \in Workers, WorkerDies(w) PROVE AloneInv'
  <2>1. worker[w].pc # "idle" /\ worker' = [worker EXCEPT ![w] = Idle]
    BY <1>3 DEF WorkerDies, Busy
  <2>2. Idle.pc = "idle"
    BY DEF Idle
  <2> QED BY <2>1, <2>2, OneAlone
<1>4. ASSUME NEW k \in Retro, CleanupPorts(k) PROVE AloneInv'
  BY <1>4, NothingAlone DEF CleanupPorts
<1>5. ASSUME NEW v \in VMs, VmLeaves(v) \/ VmComes(v) PROVE AloneInv'
  BY <1>5, NothingAlone DEF VmLeaves, VmComes
<1> QED BY <1>1, <1>2, <1>3, <1>4, <1>5 DEF Next

LEMMA AloneInit == Init => AloneInv
BY DEF Init, Idle, AloneInv, Busy

\* The last step of a call of w that was alone.
Ends(w, v) ==
  /\ worker[w].vm = v /\ worker[w].file = "ips"
  /\ worker[w].pc \in {"find", "fill"} /\ worker[w].alone = "yes"
  /\ worker'[w].pc = "idle" /\ disturbed' = disturbed

LEMMA EndsInAgreement ==
  ASSUME Types, AloneInv, NEW w \in Workers, NEW v \in VMs, Ends(w, v), Goes(w)
  PROVE  Agree(v)'
<1>1. worker[w].pc # "idle" /\ Knows(worker[w]) /\ worker[w].vm = v /\ worker[w].file = "ips"
  BY DEF Ends, AloneInv, Busy
<1>2. worker[w] \in WorkerType /\ worker[w].pc \in {"find", "fill"} /\ worker'[w].pc = "idle"
  BY DEF Ends, Types, Calls
<1>3. v # NoVm
  BY ConstantsAssumption
<1>4. CASE Fills(w)
  <2>1. worker[w].pc = "fill" /\ UNCHANGED ip4
    BY <1>4 DEF Fills
  <2>2. Registry' = worker[w].copy
    BY <1>1, <1>4 DEF Fills, Types, TypeOK, Files, Registry, Content
  <2>3. v \in DOMAIN worker[w].copy /\ worker[w].copy[v] = ip4[v]
    BY <1>1, <1>3, <2>1 DEF Knows, Writes
  <2> QED BY <2>1, <2>2, <2>3 DEF Agree
<1>5. CASE FindsItsOwn(w)
  <2>1. files' = Constructed /\ UNCHANGED ip4
    BY <1>5 DEF FindsItsOwn
  <2>2. Registry' = Registry
    BY <2>1, RegistryKept DEF Types
  <2>3. v \in DOMAIN Registry /\ Registry[v] = worker[w].val
    <3> DEFINE s == [ToRegister(worker[w], worker[w].val) EXCEPT !.pc = "open"]
    <3>1. s.pc = "open"
      BY <1>2 DEF WorkerType, ToRegister
    <3> HIDE DEF s
    <3>2. SUFFICES ASSUME ~ (v \in DOMAIN Registry /\ Registry[v] = worker[w].val) PROVE FALSE
      OBVIOUS
    <3>3. Continues(w, s, "ips")
      BY <1>1, <1>5, <3>2 DEF FindsItsOwn, s
    <3>4. worker'[w] = s
      BY <3>3 DEF Continues
    <3> QED BY <1>2, <3>1, <3>4
  <2>4. worker[w].val = ip4[v]
    BY <1>1, <1>5 DEF FindsItsOwn, Knows
  <2> QED BY <2>1, <2>2, <2>3, <2>4 DEF Agree
<1>6. ~ FindsNewIp(w)
  <2> DEFINE ip == FirstFree(IPs, Range(Registry))
             s  == IF ip = None THEN [worker[w] EXCEPT !.pc = "fail"]
                   ELSE [ToRegister(worker[w], ip) EXCEPT !.pc = "save"]
  <2>1. s.pc # "idle"
    <3> HIDE DEF ip
    <3> QED BY <1>2 DEF WorkerType, ToRegister
  <2>2. FindsNewIp(w) => worker'[w] = s
    BY DEF FindsNewIp, Continues
  <2> HIDE DEF s
  <2> QED BY <1>2, <2>1, <2>2
<1> QED BY <1>2, <1>4, <1>5, <1>6
        DEF Goes, Opens, FillsNothing, SavesIp, NoIpLeft, SetsPort, PortsTornForSet

LEMMA OnlyItselfEnds ==
  ASSUME Types, AloneInv, NEW w \in Workers, NEW v \in VMs, Ends(w, v), Next
  PROVE  Goes(w)
<1>1. w \in Busy /\ Busy = {w} /\ worker'[w].pc = "idle" /\ worker[w].pc # "idle"
  BY DEF Ends, AloneInv, Busy
<1>2. ASSUME NEW q \in Workers, Goes(q) PROVE Goes(w)
  <2>1. q \in Busy
    BY <1>2 DEF Busy, Goes, Opens, Fills, FillsNothing, FindsItsOwn, FindsNewIp, SavesIp,
                NoIpLeft, SetsPort, PortsTornForSet
  <2> QED BY <1>1, <1>2, <2>1
<1>3. ASSUME NEW q \in Workers, NEW r, NEW f, Begins(q, r, f) PROVE FALSE
  <2>1. q # w
    BY <1>1, <1>3 DEF Begins
  <2>2. worker'[w] = [Deleted(worker[w], f) EXCEPT !.alone = "no"]
    BY <1>1, <1>3, <2>1 DEF Begins
  <2>3. Deleted(worker[w], f) \in Calls /\ Deleted(worker[w], f).pc # "idle"
    BY <1>1, DeletedIsCall, DeletedKeeps DEF Types
  <2>4. worker'[w].pc # "idle"
    BY <2>2, <2>3 DEF Calls, WorkerType
  <2> QED BY <1>1, <2>4
<1>4. ASSUME NEW q \in Workers, Renders(q) \/ Administers(q) PROVE FALSE
  <2>1. \E r, f : Begins(q, r, f)
    BY <1>4, RendersBegins, AdministersBegins
  <2> QED BY <1>3, <2>1
<1>5. ASSUME NEW q \in Workers, WorkerDies(q) PROVE FALSE
  <2>1. disturbed' = disturbed + 1 /\ disturbed' = disturbed
    BY <1>5 DEF WorkerDies, Disturb, Ends
  <2>2. disturbed \in Nat
    <3>1. disturbed \in 0..MaxDisturbances /\ MaxDisturbances \in Nat
      BY ConstantsAssumption DEF Types, TypeOK
    <3> QED BY <3>1
  <2> QED BY <2>1, <2>2
<1>6. ~ UNCHANGED worker
  BY <1>1
<1> QED BY <1>2, <1>4, <1>5, <1>6 DEF Next, CleanupPorts, VmLeaves, VmComes

\* Whatever has happened before, a call that nobody disturbs leaves the
\* registry and the settings of its machine in agreement.
THEOREM RegistryHeals == Spec => UndisturbedCallHeals
<1>1. Types /\ AloneInv /\ [Next]_vars =>
        [\A w \in Workers, v \in VMs :
           /\ worker[w].vm = v /\ worker[w].file = "ips"
           /\ worker[w].pc \in {"find", "fill"} /\ worker[w].alone = "yes"
           /\ worker'[w].pc = "idle" /\ disturbed' = disturbed
           => Agree(v)']_vars
  <2>1. SUFFICES ASSUME Types, AloneInv, Next, NEW w \in Workers, NEW v \in VMs, Ends(w, v)
                 PROVE  Agree(v)'
    BY DEF Ends
  <2> QED BY <2>1, OnlyItselfEnds, EndsInAgreement
<1> QED BY <1>1, TypesInit, TypesStep, AloneInit, AloneStep, PTL DEF Spec, UndisturbedCallHeals
-----------------------------------------------------------------------------
(* Pillars rendered again and again.                                       *)

\* An address once given to a machine stays the machine's: without an administrator, and as long
\* as renderings come one by one, find_ip_for_vm never moves a machine, not even when no address
\* is left and None is saved.
AddressesAreKept ==
  [][Calm' => \A v \in VMs : ip4[v] # None => ip4'[v] = ip4[v]]_vars

\* An address is saved for a machine that has none.
SavesForTheNew ==
  Calm => \A w \in Workers : worker[w].pc = "save" => ip4[worker[w].vm] = None

LEMMA RendersBegin ==
  ASSUME Types, NEW w \in Workers, Renders(w), Calm'
  PROVE  /\ Calm /\ Busy = {} /\ UNCHANGED ip4
         /\ \E r, f : Begins(w, r, f) /\ r.pc # "save"
<1> DEFINE Begun == Disturb(Overlap) /\ UNCHANGED ip4 /\ \E r, f : Begins(w, r, f) /\ r.pc # "save"
<1>1. ASSUME NEW v \in VMs, FindIp(w, v) PROVE Begun
  <2> DEFINE r == [Idle EXCEPT !.pc = "find", !.vm = v, !.val = ip4[v]]
  <2>1. Disturb(Overlap) /\ UNCHANGED ip4 /\ Begins(w, r, "ips")
    BY <1>1 DEF FindIp
  <2>2. r.pc = "find"
    BY DEF Idle
  <2> HIDE DEF r
  <2> QED BY <2>1, <2>2
<1>2. ASSUME NEW v \in VMs, PortsTornForGet(w, v) PROVE Begun
  BY <1>2 DEF PortsTornForGet, Idle
<1>3. ASSUME NEW v \in VMs, NEW k \in Kinds, NEW reset \in BOOLEAN, TakePort(w, v, k, reset)
      PROVE  Begun
  <2> DEFINE r == [Idle EXCEPT !.pc = "set", !.file = "ports", !.vm = v, !.kind = k,
                               !.val = FirstFree(Ports, Allocated)]
  <2>1. Disturb(Overlap) /\ UNCHANGED ip4 /\ Begins(w, r, "ports")
    BY <1>3 DEF TakePort
  <2>2. r.pc = "set"
    BY DEF Idle
  <2> HIDE DEF r
  <2> QED BY <2>1, <2>2
<1>4. Begun
  BY <1>1, <1>2, <1>3 DEF Renders
<1>5. Calm /\ Busy = {}
  BY <1>4, DisturbCalm DEF Types, Overlap, If
<1> QED BY <1>4, <1>5

LEMMA RendersForTheNew ==
  ASSUME Types, NEW w \in Workers, Renders(w), Calm'
  PROVE  SavesForTheNew' /\ UNCHANGED ip4
<1>1. Busy = {} /\ UNCHANGED ip4
  BY RendersBegin
<1>2. PICK r, f : Begins(w, r, f) /\ r.pc # "save"
  BY RendersBegin
<1>3. worker'[w].pc # "save" /\ \A q \in Workers \ {w} : worker'[q] = worker[q]
  BY <1>1, <1>2 DEF Begins, Busy
<1>4. \A q \in Workers : worker'[q].pc # "save"
  BY <1>1, <1>3 DEF Busy
<1> QED BY <1>1, <1>4 DEF SavesForTheNew

\* The call in progress, which is alone.
LEMMA GoesForTheNew ==
  ASSUME Types, CalmInv, SavesForTheNew, NEW w \in Workers, Goes(w), Calm'
  PROVE  /\ SavesForTheNew'
         /\ \A v \in VMs : ip4[v] # None => ip4'[v] = ip4[v]
<1> DEFINE Kept == \A v \in VMs : ip4[v] # None => ip4'[v] = ip4[v]
           OthersIdle == \A q \in Workers \ {w} : worker'[q].pc = "idle"
<1>1. Calm /\ worker[w].pc # "idle"
  BY DEF Calm, Goes, Opens, Fills, FillsNothing, FindsItsOwn, FindsNewIp, SavesIp, NoIpLeft,
         SetsPort, PortsTornForSet
<1>2. IpCall(worker[w]) /\ \A q \in Workers \ {w} : worker[q].pc = "idle"
  BY <1>1, CurrentIs DEF CalmInv, Orderly
<1>3. ip4 \in [VMs -> IPs \cup {None}] /\ worker \in [Workers -> Calls]
  BY DEF Types, TypeOK
<1>4. CASE Opens(w) \/ Fills(w) \/ FillsNothing(w) \/ SetsPort(w)
  <2>1. CASE Opens(w) \/ Fills(w) \/ FillsNothing(w)
    BY <1>2, <1>3, <2>1 DEF Opens, Fills, FillsNothing, Idle, Calls, WorkerType, SavesForTheNew
  <2>2. CASE SetsPort(w)
    <3>1. worker[w].pc = "set" /\ UNCHANGED ip4
      BY <2>2 DEF SetsPort
    <3>2. \/ worker' = [worker EXCEPT ![w] = Idle]
          \/ \E c : worker' = [worker EXCEPT ![w].pc = "open", ![w].copy = c]
      BY <2>2 DEF SetsPort
    <3>3. worker'[w].pc # "save"
      BY <1>3, <3>2 DEF Idle, Calls, WorkerType
    <3>4. \A q \in Workers \ {w} : worker'[q] = worker[q]
      BY <1>3, <3>2
    <3> QED BY <1>2, <3>1, <3>3, <3>4 DEF SavesForTheNew
  <2> QED BY <1>4, <2>1, <2>2
<1>5. CASE FindsItsOwn(w) \/ PortsTornForSet(w)
  <2>1. UNCHANGED ip4 /\ worker'[w].pc # "save"
    <3>1. CASE FindsItsOwn(w)
      <4>1. worker'[w] \in {Idle, [ToRegister(worker[w], worker[w].val) EXCEPT !.pc = "open"]}
        BY <1>3, <3>1 DEF FindsItsOwn, Continues
      <4>2. worker[w] \in WorkerType /\ Idle.pc = "idle"
        BY <1>3 DEF Calls, Idle
      <4>3. [ToRegister(worker[w], worker[w].val) EXCEPT !.pc = "open"].pc = "open"
        BY <4>2 DEF ToRegister, WorkerType
      <4>4. worker'[w].pc # "save"
        BY <4>1, <4>2, <4>3
      <4> QED BY <3>1, <4>4 DEF FindsItsOwn
    <3>2. CASE PortsTornForSet(w)
      BY <1>3, <3>2 DEF PortsTornForSet, Continues, Idle
    <3> QED BY <1>5, <3>1, <3>2
  <2>2. OthersIdle
    BY <1>2, <1>3, <1>5, DeletedKeeps DEF FindsItsOwn, PortsTornForSet, Continues
  <2> QED BY <2>1, <2>2 DEF SavesForTheNew
<1>6. CASE FindsNewIp(w)
  <2>1. UNCHANGED ip4 /\ ip4[worker[w].vm] = None
    BY <1>2, <1>6 DEF FindsNewIp, IpCall, Finding
  <2>2. worker'[w].vm = worker[w].vm
    BY <1>3, <1>6 DEF FindsNewIp, Continues, ToRegister, Calls, WorkerType
  <2>3. OthersIdle
    BY <1>2, <1>3, <1>6, DeletedKeeps DEF FindsNewIp, Continues
  <2> QED BY <2>1, <2>2, <2>3 DEF SavesForTheNew
<1>7. CASE SavesIp(w)
  <2>1. ip4[worker[w].vm] = None
    BY <1>1, <1>7 DEF SavesIp, SavesForTheNew
  <2>2. Kept
    BY <1>3, <1>7, <2>1 DEF SavesIp
  <2>3. worker'[w].pc = "open" /\ \A q \in Workers \ {w} : worker'[q] = worker[q]
    BY <1>3, <1>7 DEF SavesIp, Calls, WorkerType
  <2> QED BY <1>2, <2>2, <2>3 DEF SavesForTheNew
<1>8. CASE NoIpLeft(w)
  <2>1. ip4[worker[w].vm] = None
    BY <1>2, <1>8 DEF NoIpLeft, IpCall, Failing
  <2>2. Kept
    BY <1>3, <1>8, <2>1 DEF NoIpLeft
  <2>3. worker'[w].pc = "idle" /\ \A q \in Workers \ {w} : worker'[q] = worker[q]
    BY <1>3, <1>8 DEF NoIpLeft, Idle, Calls, WorkerType
  <2> QED BY <1>2, <2>2, <2>3 DEF SavesForTheNew
<1> QED BY <1>4, <1>5, <1>6, <1>7, <1>8 DEF Goes

\* A rendering is a step of the whole system, of the kind that keeps every address.
LEMMA RenderingStep ==
  ASSUME Types, CalmInv, SavesForTheNew, [\E w \in Workers : Goes(w) \/ Renders(w)]_vars
  PROVE  /\ [Next]_vars /\ SavesForTheNew'
         /\ [Calm' => \A v \in VMs : ip4[v] # None => ip4'[v] = ip4[v]]_vars
<1>1. CASE UNCHANGED vars
  BY <1>1 DEF vars, SavesForTheNew, Calm
<1>2. ASSUME NEW w \in Workers, Goes(w) \/ Renders(w)
      PROVE  /\ Next /\ SavesForTheNew'
             /\ Calm' => \A v \in VMs : ip4[v] # None => ip4'[v] = ip4[v]
  <2>1. Next
    BY <1>2 DEF Next
  <2>2. ASSUME Calm' PROVE SavesForTheNew' /\ \A v \in VMs : ip4[v] # None => ip4'[v] = ip4[v]
    BY <1>2, <2>2, GoesForTheNew, RendersForTheNew
  <2> QED BY <2>1, <2>2 DEF SavesForTheNew
<1> QED BY <1>1, <1>2

\* Rendering pillars one after the other never changes the address of a machine that has one.
THEOREM RenderingKeepsAddresses == PillarSpec => AddressesAreKept
<1>1. Init => SavesForTheNew
  BY DEF Init, Idle, SavesForTheNew
<1> QED BY <1>1, TypesInit, TypesStep, CalmInit, CalmStep, RenderingStep, PTL
        DEF PillarSpec, AddressesAreKept
-----------------------------------------------------------------------------
(* Ports that are redirected, while reverse_ports_map is written and       *)
(* between the writes.                                                     *)

NoPortWrite == \A q \in Workers : ~Writes(worker[q], "ports")

\* Whoever is about to write reverse_ports_map writes what is in it, with its own port.
Handed ==
  \A w \in Workers : worker[w].file = "ports" =>
    /\ worker[w].pc = "open" =>
         worker[w].copy = Set(PortsMap, <<worker[w].vm, worker[w].kind>>, worker[w].val)
    /\ worker[w].pc = "fill" => files["ports"].state = "torn"

Allocates(v, k) ==
  \E w \in Workers : /\ worker[w].pc = "open" /\ worker[w].file = "ports"
                     /\ worker[w].vm = v /\ worker[w].kind = k

PortsStay ==
  \A v \in vms, k \in Kinds, p \in Ports :
    Redirects(p, v, k) => \/ Redirects(p, v, k)' \/ Allocates(v, k)
                          \/ OnlyOlder(p, v, k) /\ retro'[k] = Nothing

LEMMA NotTorn ==
  ASSUME Orderly, NoPortWrite
  PROVE  files["ports"].state # "torn" /\ CurrentPorts = {PortsMap}
<1>1. ASSUME files["ports"].state = "torn" PROVE FALSE
  <2>1. Current.pc = "fill" /\ Current.file = "ports"
    BY <1>1 DEF Orderly, PortCall
  <2>2. Busy # {}
    BY <2>1 DEF Current, Idle
  <2>3. PICK w \in Workers : Current = worker[w]
    BY <2>2 DEF Current, Busy
  <2> QED BY <2>1, <2>3 DEF NoPortWrite, Writes
<1> QED BY <1>1 DEF CurrentPorts

LEMMA Untouched ==
  ASSUME Orderly, NoPortWrite, NoPortWrite', files'["ports"] = files["ports"], UNCHANGED retro
  PROVE  Handed' /\ PortsStay
<1>1. PortsMap' = PortsMap /\ CurrentPorts' = {PortsMap} /\ CurrentPorts = {PortsMap}
  BY NotTorn DEF PortsMap, CurrentPorts
<1>2. \A p, v, k : Redirects(p, v, k)' <=> Redirects(p, v, k)
  BY <1>1 DEF Redirects, Fallback
<1>3. Handed'
  BY DEF Handed, NoPortWrite, Writes
<1> QED BY <1>2, <1>3 DEF PortsStay

\* A call that begins, when no other is in progress.
LEMMA BeginsUntouched ==
  ASSUME Types, Orderly, NEW w \in Workers, NEW r, NEW f, Begins(w, r, f), Busy = {},
         ~Writes([r EXCEPT !.alone = "yes"], "ports"),
         files' = Constructed \/ UNCHANGED files, UNCHANGED retro
  PROVE  Handed' /\ PortsStay
<1>1. \A q \in Workers : worker[q].pc = "idle"
  BY DEF Busy
<1>2. NoPortWrite
  BY <1>1 DEF NoPortWrite, Writes
<1>3. worker'[w] = [r EXCEPT !.alone = "yes"] /\ \A q \in Workers \ {w} : worker'[q] = worker[q]
  BY DEF Begins
<1>4. NoPortWrite'
  BY <1>1, <1>3 DEF NoPortWrite, Writes
<1>5. files'["ports"] = files["ports"]
  BY RegistryKept DEF Types
<1> QED BY <1>2, <1>4, <1>5, Untouched

\* A call that goes on with something else than reverse_ports_map.
LEMMA GoesOnUntouched ==
  ASSUME Types, Orderly, NEW w \in Workers, worker[w].pc # "idle", ~Writes(worker[w], "ports"),
         ~Writes(worker'[w], "ports"),
         \A q \in Workers \ {w} : worker'[q] = worker[q] \/ \E f : worker'[q] = Deleted(worker[q], f),
         files'["ports"] = files["ports"], UNCHANGED retro
  PROVE  Handed' /\ PortsStay
<1>1. \A q \in Workers \ {w} : worker[q].pc = "idle"
  BY CurrentIs DEF Orderly
<1>2. \A q \in Workers \ {w} : worker'[q] = worker[q]
  BY <1>1 DEF Deleted
<1>3. NoPortWrite /\ NoPortWrite'
  BY <1>1, <1>2 DEF NoPortWrite, Writes
<1> QED BY <1>3, Untouched

\* Nothing that concerns the ports changes, but perhaps the machines of the node.
LEMMA NothingOfPorts ==
  ASSUME Handed, UNCHANGED <<files, retro, worker>>
  PROVE  Handed' /\ PortsStay
<1>1. PortsMap' = PortsMap /\ CurrentPorts' = CurrentPorts
  BY DEF PortsMap, CurrentPorts
<1>2. \A p, v, k : Redirects(p, v, k)' <=> Redirects(p, v, k)
  BY <1>1 DEF Redirects, Fallback
<1> QED BY <1>1, <1>2 DEF Handed, PortsStay

\* A call that has a port and reads the map again.
LEMMA SetsPortStays ==
  ASSUME Types, Orderly, NEW w \in Workers, SetsPort(w)
  PROVE  Handed' /\ PortsStay
<1> DEFINE r == worker[w]
           s == [r EXCEPT !.pc = "open", !.copy = Set(PortsMap, <<r.vm, r.kind>>, r.val)]
<1>1. r \in WorkerType /\ r.pc = "set" /\ \A q \in Workers \ {w} : worker[q].pc = "idle"
  BY CurrentIs DEF Types, SetsPort, Calls, Orderly
<1>2. UNCHANGED <<files, retro>> /\ files["ports"].state # "torn"
  BY DEF SetsPort
<1>3. PortsMap' = PortsMap /\ CurrentPorts' = CurrentPorts
  BY <1>2 DEF PortsMap, CurrentPorts
<1>4. \A p, v, k : Redirects(p, v, k)' <=> Redirects(p, v, k)
  BY <1>2, <1>3 DEF Redirects, Fallback
<1>5. worker' = [worker EXCEPT ![w] = Idle] \/ worker' = [worker EXCEPT ![w] = s]
  BY DEF SetsPort
<1>6. s.pc = "open" /\ s.copy = Set(PortsMap, <<s.vm, s.kind>>, s.val)
  BY <1>1 DEF WorkerType
<1> HIDE DEF s, r
<1>7. worker'[w] \in {Idle, s} /\ \A q \in Workers \ {w} : worker'[q].pc = "idle"
  BY <1>1, <1>5 DEF Types
<1>8. Idle.pc = "idle"
  BY DEF Idle
<1>9. Handed'
  BY <1>3, <1>6, <1>7, <1>8 DEF Handed
<1> QED BY <1>4, <1>9 DEF PortsStay

\* The map is truncated by who will fill it with what it had, and one more port.
LEMMA OpensStays ==
  ASSUME Types, Orderly, Handed, NEW w \in Workers, Opens(w), worker[w].file = "ports"
  PROVE  Handed' /\ PortsStay
<1> DEFINE r   == worker[w]
           key == <<r.vm, r.kind>>
<1>1. /\ r \in WorkerType /\ r.pc = "open" /\ r.file = "ports" /\ Current = r
      /\ \A q \in Workers \ {w} : worker[q].pc = "idle"
  BY CurrentIs DEF Types, Opens, Calls, Orderly
<1>2. r.copy = Set(PortsMap, key, r.val)
  BY <1>1 DEF Handed
<1>3. files["ports"].state # "torn"
  BY <1>1 DEF Orderly, PortCall
<1>4. /\ files'["ports"].state = "torn" /\ UNCHANGED retro
      /\ worker'[w].pc = "fill" /\ worker'[w].file = "ports" /\ worker'[w].copy = r.copy
      /\ \A q \in Workers \ {w} : worker'[q].pc = "idle"
  BY <1>1 DEF Opens, Types, TypeOK, Torn, Files, WorkerType
<1>5. CurrentPorts = {PortsMap}
  BY <1>3 DEF CurrentPorts
<1>6. CurrentPorts' = {r.copy}
  <2>1. {q \in Workers : worker'[q].pc = "fill" /\ worker'[q].file = "ports"} = {w}
    BY <1>4
  <2> QED BY <1>4, <2>1 DEF CurrentPorts
<1>7. Handed'
  BY <1>4 DEF Handed
<1>8. ASSUME NEW v \in vms, NEW k \in Kinds, NEW p \in Ports, Redirects(p, v, k)
      PROVE  Redirects(p, v, k)' \/ Allocates(v, k)
  <2>1. CASE v = r.vm /\ k = r.kind
    BY <1>1, <2>1 DEF Allocates
  <2>2. CASE <<v, k>> # key
    <3> DEFINE a == <<v, k>>
               m == PortsMap
    <3>1. p = IF a \in DOMAIN m THEN m[a] ELSE Fallback(v, k)
      BY <1>5, <1>8 DEF Redirects
    <3>2. Fallback(v, k)' = Fallback(v, k)
      BY <1>4 DEF Fallback
    <3>3. /\ a \in DOMAIN r.copy <=> a \in DOMAIN m
          /\ a \in DOMAIN m => r.copy[a] = m[a]
      <4>1. a # key /\ r.copy = Set(m, key, r.val)
        BY <1>2, <2>2
      <4> HIDE DEF a, m, key, r
      <4> QED BY <4>1 DEF Set
    <3>4. p = IF a \in DOMAIN r.copy THEN r.copy[a] ELSE Fallback(v, k)'
      BY <3>1, <3>2, <3>3
    <3> QED BY <1>6, <3>4 DEF Redirects
  <2> QED BY <2>1, <2>2
<1> QED BY <1>7, <1>8 DEF PortsStay

LEMMA FillsStays ==
  ASSUME Types, Orderly, Handed, NEW w \in Workers, Fills(w), worker[w].file = "ports"
  PROVE  Handed' /\ PortsStay
<1> DEFINE m == worker[w].copy
<1>1. worker[w].pc = "fill" /\ \A q \in Workers \ {w} : worker[q].pc = "idle"
  BY CurrentIs DEF Fills, Orderly
<1>2. files["ports"].state = "torn"
  BY <1>1 DEF Handed
<1>3. CurrentPorts = {m}
  <2>1. {q \in Workers : worker[q].pc = "fill" /\ worker[q].file = "ports"} = {w}
    BY <1>1
  <2> QED BY <1>2, <2>1 DEF CurrentPorts
<1>4. files'["ports"] = Content(m) /\ UNCHANGED retro
  BY DEF Fills, Types, TypeOK, Files
<1>5. CurrentPorts' = {m}
  BY <1>4 DEF CurrentPorts, PortsMap, Content
<1>6. \A p, v, k : Redirects(p, v, k)' <=> Redirects(p, v, k)
  BY <1>3, <1>4, <1>5 DEF Redirects, Fallback
<1>7. \A q \in Workers : worker'[q].pc = "idle"
  BY <1>1 DEF Fills, Types, Idle
<1>8. Handed'
  BY <1>7 DEF Handed
<1> QED BY <1>6, <1>8 DEF PortsStay

LEMMA OneCurrent ==
  ASSUME Types, Orderly, NEW m \in CurrentPorts
  PROVE  CurrentPorts = {m}
<1>1. CASE files["ports"].state # "torn"
  BY <1>1 DEF CurrentPorts
<1>2. CASE files["ports"].state = "torn"
  <2>1. PICK w \in Workers : worker[w].pc = "fill" /\ worker[w].file = "ports" /\ m = worker[w].copy
    BY <1>2 DEF CurrentPorts
  <2>2. \A q \in Workers \ {w} : worker[q].pc = "idle"
    BY <2>1, CurrentIs DEF Orderly
  <2>3. {q \in Workers : worker[q].pc = "fill" /\ worker[q].file = "ports"} = {w}
    BY <2>1, <2>2
  <2> QED BY <1>2, <2>1, <2>3 DEF CurrentPorts
<1> QED BY <1>1, <1>2

\* The older map of a kind forgets everybody, and the other maps nobody.
LEMMA CleanupPortsStays ==
  ASSUME Types, Orderly, Handed, NEW k \in Retro, CleanupPorts(k)
  PROVE  Handed' /\ PortsStay
<1>1. UNCHANGED <<vms, files, worker>>
  BY DEF CleanupPorts
<1>2. PortsMap' = PortsMap /\ CurrentPorts' = CurrentPorts
  BY <1>1 DEF PortsMap, CurrentPorts
<1>3. retro'[k] = Nothing /\ \A j \in Retro \ {k} : retro'[j] = retro[j]
  BY DEF CleanupPorts, Types, TypeOK
<1>4. ASSUME NEW v \in vms, NEW j \in Kinds, NEW p \in Ports, Redirects(p, v, j)
      PROVE  Redirects(p, v, j)' \/ (OnlyOlder(p, v, j) /\ retro'[j] = Nothing)
  <2>1. PICK m \in CurrentPorts : p = IF <<v, j>> \in DOMAIN m THEN m[<<v, j>>] ELSE Fallback(v, j)
    BY <1>4 DEF Redirects
  <2>2. CASE <<v, j>> \in DOMAIN m \/ j # k
    <3>1. <<v, j>> \notin DOMAIN m => Fallback(v, j)' = Fallback(v, j)
      BY <1>3, <2>2 DEF Fallback
    <3>2. p = IF <<v, j>> \in DOMAIN m THEN m[<<v, j>>] ELSE Fallback(v, j)'
      BY <2>1, <3>1
    <3> QED BY <1>2, <3>2 DEF Redirects
  <2>3. CASE <<v, j>> \notin DOMAIN m /\ j = k
    <3>1. CurrentPorts = {m}
      BY <2>1, OneCurrent
    <3> QED BY <1>3, <2>1, <2>3, <3>1 DEF OnlyOlder
  <2> QED BY <2>2, <2>3
<1>5. Handed'
  BY <1>1, <1>2 DEF Handed
<1> QED BY <1>4, <1>5 DEF PortsStay

\* The calls about addresses, in progress.
LEMMA AddressGoesOn ==
  ASSUME Types, Orderly, NEW w \in Workers,
         FindsItsOwn(w) \/ FindsNewIp(w) \/ SavesIp(w) \/ NoIpLeft(w)
         \/ ((Opens(w) \/ Fills(w)) /\ worker[w].file # "ports")
  PROVE  Handed' /\ PortsStay
<1> DEFINE r == worker[w]
<1>1. r \in WorkerType /\ r.pc # "idle" /\ r.file = "ips"
  BY DEF Types, Calls, Sound, FindsItsOwn, FindsNewIp, SavesIp, NoIpLeft, Opens, Fills, WorkerType,
         Files
<1>2. worker'[w].file = "ips"
  <2>1. CASE Opens(w) \/ Fills(w) \/ SavesIp(w) \/ NoIpLeft(w)
    BY <1>1, <2>1 DEF Opens, Fills, SavesIp, NoIpLeft, Types, Idle, WorkerType
  <2>2. CASE FindsItsOwn(w)
    <3>1. worker'[w] \in {Idle, [ToRegister(r, r.val) EXCEPT !.pc = "open"]}
      BY <2>2 DEF FindsItsOwn, Continues
    <3>2. [ToRegister(r, r.val) EXCEPT !.pc = "open"].file = "ips"
      BY <1>1 DEF ToRegister, WorkerType
    <3>3. Idle.file = "ips"
      BY DEF Idle
    <3> QED BY <3>1, <3>2, <3>3
  <2>3. CASE FindsNewIp(w)
    <3> DEFINE ip == FirstFree(IPs, Range(Registry))
    <3>1. worker'[w] \in {[r EXCEPT !.pc = "fail"], [ToRegister(r, ip) EXCEPT !.pc = "save"]}
      BY <2>3 DEF FindsNewIp, Continues
    <3> HIDE DEF ip
    <3> QED BY <1>1, <3>1 DEF ToRegister, WorkerType
  <2>4. CASE FindsItsOwn(w) \/ FindsNewIp(w) \/ SavesIp(w) \/ NoIpLeft(w) \/ Opens(w) \/ Fills(w)
    BY <2>1, <2>2, <2>3, <2>4
  <2> QED BY <2>4
<1>3. \A q \in Workers \ {w} : worker'[q] = worker[q] \/ \E f : worker'[q] = Deleted(worker[q], f)
  BY DEF Types, FindsItsOwn, FindsNewIp, SavesIp, NoIpLeft, Opens, Fills, Continues
<1>4. files'["ports"] = files["ports"] /\ UNCHANGED retro
  <2>1. CASE files' = Constructed
    BY <2>1, RegistryKept DEF Types, FindsItsOwn, FindsNewIp, SavesIp, NoIpLeft, Opens, Fills
  <2>2. CASE UNCHANGED files
    BY <2>2 DEF FindsItsOwn, FindsNewIp, SavesIp, NoIpLeft, Opens, Fills
  <2>3. CASE Opens(w) \/ Fills(w)
    BY <1>1, <2>3 DEF Opens, Fills, Types, TypeOK, Files
  <2> QED BY <2>1, <2>2, <2>3 DEF FindsItsOwn, FindsNewIp, SavesIp, NoIpLeft
<1>5. ~Writes(worker[w], "ports") /\ ~Writes(worker'[w], "ports")
  BY <1>1, <1>2 DEF Writes
<1> QED BY <1>1, <1>3, <1>4, <1>5, GoesOnUntouched

LEMMA GoesStays ==
  ASSUME Types, CalmInv, Calm => Handed, NEW w \in Workers, Goes(w), Calm'
  PROVE  Handed' /\ PortsStay
<1>1. disturbed' = disturbed
  BY DEF Goes, Opens, Fills, FillsNothing, FindsItsOwn, FindsNewIp, SavesIp, NoIpLeft, SetsPort,
         PortsTornForSet
<1>2. Orderly /\ Handed
  BY <1>1 DEF Calm, CalmInv
<1> QED BY <1>2, AddressGoesOn, OpensStays, FillsStays, SetsPortStays, NobodyMeetsTorn DEF Goes

\* Calls that begin.
LEMMA RendersStays ==
  ASSUME Types, CalmInv, NEW w \in Workers, Renders(w), Calm'
  PROVE  Handed' /\ PortsStay
<1>1. Orderly /\ Busy = {}
  BY RendersBegin DEF CalmInv
<1>2. ASSUME NEW v \in VMs, FindIp(w, v) PROVE Handed' /\ PortsStay
  <2> DEFINE r == [Idle EXCEPT !.pc = "find", !.vm = v, !.val = ip4[v]]
  <2>1. Begins(w, r, "ips") /\ files' = Constructed /\ UNCHANGED retro
    BY <1>2 DEF FindIp
  <2>2. ~Writes([r EXCEPT !.alone = "yes"], "ports")
    BY DEF Writes, Idle
  <2> HIDE DEF r
  <2> QED BY <1>1, <2>1, <2>2, BeginsUntouched
<1>3. ASSUME NEW v \in VMs, PortsTornForGet(w, v) PROVE FALSE
  BY <1>1, <1>3, NobodyMeetsTornFirst DEF PortsTornForGet
<1>4. ASSUME NEW v \in VMs, NEW k \in Kinds, NEW reset \in BOOLEAN, TakePort(w, v, k, reset)
      PROVE  Handed' /\ PortsStay
  <2> DEFINE r == [Idle EXCEPT !.pc = "set", !.file = "ports", !.vm = v, !.kind = k,
                               !.val = FirstFree(Ports, Allocated)]
  <2>1. Begins(w, r, "ports") /\ UNCHANGED <<files, retro>>
    BY <1>4 DEF TakePort
  <2>2. ~Writes([r EXCEPT !.alone = "yes"], "ports")
    BY DEF Writes, Idle
  <2> HIDE DEF r
  <2> QED BY <1>1, <2>1, <2>2, BeginsUntouched
<1> QED BY <1>2, <1>3, <1>4 DEF Renders

BeginsElsewhere(w, r) ==
  Begins(w, r, "ips") /\ ~Writes([r EXCEPT !.alone = "yes"], "ports")

LEMMA SetIpBegins ==
  ASSUME NEW w \in Workers, NEW v, NEW ip, SetIp(w, v, ip)
  PROVE  \E r, more : BeginsElsewhere(w, r) /\ Disturb(Overlap \cup more)
<1> DEFINE r    == [ToRegister([Idle EXCEPT !.vm = v], ip) EXCEPT !.pc = "save"]
           more == If(\E u \in DOMAIN Registry \ {v} : Registry[u] = ip, "given twice")
<1>1. Begins(w, r, "ips") /\ Disturb(Overlap \cup more)
  BY Zenon DEF SetIp
<1>2. ~Writes([r EXCEPT !.alone = "yes"], "ports")
  BY DEF Writes, Idle, ToRegister
<1> HIDE DEF r, more
<1> QED BY <1>1, <1>2 DEF BeginsElsewhere

LEMMA RemoveIpBegins ==
  ASSUME NEW w \in Workers, NEW v, NEW ip, RemoveIp(w, v, ip)
  PROVE  \E r, more : BeginsElsewhere(w, r) /\ Disturb(Overlap \cup more)
<1> DEFINE r    == [Idle EXCEPT !.pc = "open", !.copy = Without(Registry, Removed(v, ip))]
           more == If(Removed(v, ip) \cap vms # {}, "taken away")
<1>1. Begins(w, r, "ips") /\ Disturb(Overlap \cup more)
  BY Zenon DEF RemoveIp
<1>2. ~Writes([r EXCEPT !.alone = "yes"], "ports")
  BY DEF Writes, Idle
<1> HIDE DEF r, more
<1> QED BY <1>1, <1>2 DEF BeginsElsewhere

LEMMA CleanupIpsBegins ==
  ASSUME NEW w \in Workers, CleanupIps(w)
  PROVE  \E r, more : BeginsElsewhere(w, r) /\ Disturb(Overlap \cup more)
<1> DEFINE r == IF Cleaned = Registry THEN Idle ELSE [Idle EXCEPT !.pc = "open", !.copy = Cleaned]
<1>1. Begins(w, r, "ips") /\ Disturb(Overlap)
  BY DEF CleanupIps
<1>2. ~Writes([r EXCEPT !.alone = "yes"], "ports")
  BY DEF Writes, Idle
<1> HIDE DEF r
<1>3. Overlap \cup {} = Overlap
  OBVIOUS
<1>4. Disturb(Overlap \cup {})
  BY <1>1, <1>3
<1> QED BY <1>1, <1>2, <1>4 DEF BeginsElsewhere

LEMMA AdministersStays ==
  ASSUME Types, CalmInv, NEW w \in Workers, Administers(w), Calm'
  PROVE  Handed' /\ PortsStay
<1>1. PICK r, more : BeginsElsewhere(w, r) /\ Disturb(Overlap \cup more)
  BY SetIpBegins, RemoveIpBegins, CleanupIpsBegins DEF Administers
<1>2. files' = Constructed /\ UNCHANGED retro
  BY Zenon DEF Administers, SetIp, RemoveIp, CleanupIps
<1>3. Calm /\ Busy = {}
  BY <1>1, DisturbCalm, NoOverlap DEF Types
<1> QED BY <1>1, <1>2, <1>3, BeginsUntouched DEF CalmInv, BeginsElsewhere

LEMMA PortsStep ==
  ASSUME Types, CalmInv, Calm => Handed, [Next]_vars, Calm'
  PROVE  Handed' /\ PortsStay
<1>1. CASE UNCHANGED vars
  BY <1>1, NothingOfPorts DEF vars, Calm
<1>2. ASSUME NEW w \in Workers, Goes(w) \/ Renders(w) \/ Administers(w) PROVE Handed' /\ PortsStay
  BY <1>2, GoesStays, RendersStays, AdministersStays
<1>3. ASSUME NEW w \in Workers, WorkerDies(w) PROVE FALSE
  <2>1. Disturb({"death"})
    BY <1>3 DEF WorkerDies
  <2> QED BY <2>1, DisturbCalm DEF Types
<1>4. ASSUME NEW k \in Retro, CleanupPorts(k) PROVE Handed' /\ PortsStay
  BY <1>4, CleanupPortsStays DEF CleanupPorts, Calm, CalmInv
<1>5. ASSUME NEW v \in VMs, VmLeaves(v) \/ VmComes(v) PROVE Handed' /\ PortsStay
  <2>1. \/ disturbed' = disturbed
        \/ Disturb(If(ip4[v] # None /\ (Busy # {} \/ v \notin DOMAIN Registry), "return"))
    BY <1>5 DEF VmLeaves, VmComes
  <2>2. Calm
    BY <2>1, DisturbCalm DEF Calm, Types
  <2> QED BY <1>5, <2>2, NothingOfPorts DEF VmLeaves, VmComes
<1> QED BY <1>1, <1>2, <1>3, <1>4, <1>5 DEF Next

\* No machine of the node loses a port to anything but an allocation of its own or, when an older
\* map alone has it, a cleanup of that map, whatever comes and goes, as long as nothing unusual
\* happens.
THEOREM EveryPortIsKept == Spec => PortsAreKept
<1> DEFINE Hand == Calm => Handed
<1>1. Init => Hand
  BY DEF Init, Idle, Handed
<1>2. Types /\ CalmInv /\ Hand /\ [Next]_vars => Hand'
  BY PortsStep
<1>3. Types /\ CalmInv /\ Hand /\ [Next]_vars =>
        [Calm' =>
           \A v \in vms, k \in Kinds, p \in Ports : Redirects(p, v, k) =>
             \/ Redirects(p, v, k)'
             \/ \E w \in Workers : /\ worker[w].pc = "open" /\ worker[w].file = "ports"
                                  /\ worker[w].vm = v /\ worker[w].kind = k
             \/ OnlyOlder(p, v, k) /\ retro'[k] = Nothing]_vars
  BY PortsStep DEF PortsStay, Allocates
<1> HIDE DEF Hand
<1> QED BY <1>1, <1>2, <1>3, TypesInit, TypesStep, CalmInit, CalmStep, PTL DEF Spec, PortsAreKept

=============================================================================
