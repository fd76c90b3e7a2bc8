---------------------------- MODULE ComputeNode ----------------------------
(***************************************************************************)
(* The allocator of the cloud controller for one compute node              *)
(* (mc_states/modules/mc_cloud_compute_node.py): the address that every    *)
(* virtual machine gets behind the node, and the ports of the node that    *)
(* are redirected to it.                                                   *)
(*                                                                         *)
(* The registries are msgpack files under the node's directory, read,      *)
(* modified and written back by whichever salt worker renders a pillar.    *)
(* No lock protects them.  A write truncates the file before it fills it;  *)
(* who reads a truncated file deletes it.                                  *)
(*                                                                         *)
(* The allocator serves callers that come one by one.  Everything else     *)
(* that may happen to it is counted in "disturbed": calls that overlap, a  *)
(* worker that dies, an administrator who gives an address twice or takes  *)
(* one away from a machine that exists, a machine that comes back after    *)
(* its address was recycled.                                               *)
(***************************************************************************)
EXTENDS Naturals, FiniteSets, Functions

CONSTANTS
    VMs,             \* the names of virtual machines
    NoVm,            \* Python's None in the place of one
    Workers,         \* the processes that call the module
    IPs,             \* the addresses of the node's network, as numbers
    Ports,           \* the range port_range_start .. port_range_end
    Kinds,           \* the names of the redirected services
    Unusual,         \* the kinds of disturbances that happen
    MaxDisturbances  \* bound: how often they do

\* Python's None in the place of an address or a port.
None == 0

ASSUME ConstantsAssumption ==
    /\ NoVm \notin VMs
    /\ IPs \subseteq Nat \ {None}
    /\ Ports \subseteq Nat \ {None}
    /\ Unusual \subseteq {"overlap", "given twice", "taken away", "return", "death"}
    /\ MaxDisturbances \in Nat

\* The kinds that once had a file of their own (l.623).
Retro == {"ssh", "snmp"} \cap Kinds

Keys == VMs \X Kinds

VARIABLES
    vms,       \* the virtual machines that the configuration describes
    ip4,       \* ip4[v]: settings/ip4.pack of v
    files,     \* the shared files: allocated_ips and reverse_ports_map
    retro,     \* retro[k]: settings/<k>_map.pack, from vm to port
    worker,    \* what each process is doing
    cleaned,   \* history: no machine has left since the last cleanup
    disturbed  \* history: the number of disturbances

vars == <<vms, ip4, files, retro, worker, cleaned, disturbed>>

Files == {"ips", "ports"}

Nothing == [x \in {} |-> None]

Content(m) == [state |-> "full", map |-> m]
Torn       == [state |-> "torn", map |-> Nothing]
Missing    == [state |-> "missing", map |-> Nothing]

Idle == [pc |-> "idle", file |-> "ips", vm |-> NoVm, kind |-> "ip", val |-> None,
         copy |-> Nothing, alone |-> "yes"]

Set(f, x, y) == [z \in DOMAIN f \cup {x} |-> IF z = x THEN y ELSE f[z]]

Without(f, S) == Restrict(f, DOMAIN f \ S)

FirstFree(range, taken) ==
    IF range \subseteq taken
      THEN None
      ELSE CHOOSE n \in range \ taken : \A m \in range \ taken : n <= m

\* What a file of a kind may hold when the story begins.
Entry(u, p) == [v \in {u} |-> p]
Inherited   == {Nothing} \cup {Entry(u, p) : u \in VMs, p \in Ports}

Init ==
    /\ vms \in SUBSET VMs
    /\ ip4 = [v \in VMs |-> None]
    /\ files = [f \in Files |-> Missing]
    /\ retro \in [Retro -> Inherited]
    /\ \A j, k \in Retro : j # k => Range(retro[j]) \cap Range(retro[k]) = {}
    /\ worker = [w \in Workers |-> Idle]
    /\ cleaned = "yes"
    /\ disturbed = 0

-----------------------------------------------------------------------------
(* Calls, files and disturbances.                                          *)

Busy == {w \in Workers : worker[w].pc # "idle"}

\* A step that is unusual in those ways, or in none.
Disturb(ways) ==
    /\ ways \subseteq Unusual
    /\ IF ways = {}
         THEN disturbed' = disturbed
         ELSE disturbed < MaxDisturbances /\ disturbed' = disturbed + 1

If(condition, way) == IF condition THEN {way} ELSE {}

Overlap == If(Busy # {}, "overlap")

\* Whoever fills a file that has been deleted under its feet fills nothing.
Deleted(r, f) ==
    IF files[f].state = "torn" /\ r.pc = "fill" /\ r.file = f
      THEN [r EXCEPT !.pc = "lost"] ELSE r

\* w goes on with r, after it has read f.
Continues(w, r, f) ==
    worker' = [q \in Workers |-> IF q = w THEN r ELSE Deleted(worker[q], f)]

\* The idle w begins a call with a look at f, and goes on with r.
Begins(w, r, f) ==
    /\ worker[w].pc = "idle"
    /\ worker' = [q \in Workers |->
         CASE q = w -> [r EXCEPT !.alone = IF Busy = {} THEN "yes" ELSE "no"]
           [] q \in Busy -> [Deleted(worker[q], f) EXCEPT !.alone = "no"]
           [] OTHER -> worker[q]]

\* get_conf_for_target, and _construct_ips_dict for the addresses: what the
\* next reader of the file finds.
Registry ==
    IF files["ips"].state = "full" THEN files["ips"].map ELSE Nothing

PortsMap ==
    IF files["ports"].state = "full" THEN files["ports"].map ELSE Nothing

Constructed == [files EXCEPT !["ips"] = Content(Registry)]

\* set_conf_for_target: open(filep, 'w') truncates, and write comes later.
Opens(w) ==
    /\ worker[w].pc = "open"
    /\ files' = [files EXCEPT ![worker[w].file] = Torn]
    /\ worker' = [worker EXCEPT ![w].pc = "fill"]
    /\ UNCHANGED <<vms, ip4, retro, cleaned, disturbed>>

Fills(w) ==
    /\ worker[w].pc = "fill"
    /\ files' = [files EXCEPT ![worker[w].file] = Content(worker[w].copy)]
    /\ worker' = [worker EXCEPT ![w] = Idle]
    /\ UNCHANGED <<vms, ip4, retro, cleaned, disturbed>>

FillsNothing(w) ==
    /\ worker[w].pc = "lost"
    /\ worker' = [worker EXCEPT ![w] = Idle]
    /\ UNCHANGED <<vms, ip4, files, retro, cleaned, disturbed>>

-----------------------------------------------------------------------------
(* Addresses.                                                              *)

\* find_ip_for_vm: get_ip_for_vm looks into the file of the machine.
FindIp(w, v) ==
    /\ v \in vms
    /\ Begins(w, [Idle EXCEPT !.pc = "find", !.vm = v, !.val = ip4[v]], "ips")
    /\ files' = Constructed
    /\ Disturb(Overlap)
    /\ UNCHANGED <<vms, ip4, retro, cleaned>>

ToRegister(r, ip) ==
    [r EXCEPT !.val = ip, !.copy = Set(Registry, r.vm, ip)]

\* mutant of FindsItsOwn: an entry of the machine is taken for the right one
FindsAnyEntry(w) ==
    LET r == worker[w] IN
    /\ r.pc = "find" /\ r.val # None
    /\ files' = Constructed
    /\ IF r.vm \in DOMAIN Registry
         THEN Continues(w, Idle, "ips")
         ELSE Continues(w, [ToRegister(r, r.val) EXCEPT !.pc = "open"], "ips")
    /\ UNCHANGED <<vms, ip4, retro, cleaned, disturbed>>

\* Then it copies the registry, keeps the address the machine has or takes
\* the first that the copy does not give to anyone.
FindsItsOwn(w) ==
    LET r == worker[w] IN
    /\ r.pc = "find" /\ r.val # None
    /\ files' = Constructed
    /\ IF r.vm \in DOMAIN Registry /\ Registry[r.vm] = r.val
         THEN Continues(w, Idle, "ips")
         ELSE Continues(w, [ToRegister(r, r.val) EXCEPT !.pc = "open"], "ips")
    /\ UNCHANGED <<vms, ip4, retro, cleaned, disturbed>>

FindsNewIp(w) ==
    LET r  == worker[w]
        ip == FirstFree(IPs, Range(Registry))
    IN
    /\ r.pc = "find" /\ r.val = None
    /\ files' = Constructed
    /\ Continues(w, IF ip = None THEN [r EXCEPT !.pc = "fail"]
                    ELSE [ToRegister(r, ip) EXCEPT !.pc = "save"], "ips")
    /\ UNCHANGED <<vms, ip4, retro, cleaned, disturbed>>

\* mutant of SavesIp: the registry is not written
SavesIpOnly(w) ==
    /\ worker[w].pc = "save"
    /\ ip4' = [ip4 EXCEPT ![worker[w].vm] = worker[w].val]
    /\ worker' = [worker EXCEPT ![w] = Idle]
    /\ UNCHANGED <<vms, files, retro, cleaned, disturbed>>

SavesIp(w) ==
    /\ worker[w].pc = "save"
    /\ ip4' = [ip4 EXCEPT ![worker[w].vm] = worker[w].val]
    /\ worker' = [worker EXCEPT ![w].pc = "open"]
    /\ UNCHANGED <<vms, files, retro, cleaned, disturbed>>

\* Exhaustion: None is saved for the machine and an exception raised.
NoIpLeft(w) ==
    /\ worker[w].pc = "fail"
    /\ ip4' = [ip4 EXCEPT ![worker[w].vm] = None]
    /\ worker' = [worker EXCEPT ![w] = Idle]
    /\ UNCHANGED <<vms, files, retro, cleaned, disturbed>>

\* set_allocated_ip, which the administrator calls.
SetIp(w, v, ip) ==
    /\ v \in vms
    /\ Begins(w, [ToRegister([Idle EXCEPT !.vm = v], ip) EXCEPT !.pc = "save"], "ips")
    /\ files' = Constructed
    /\ Disturb(Overlap \cup If(\E u \in DOMAIN Registry \ {v} : Registry[u] = ip, "given twice"))
    /\ UNCHANGED <<vms, ip4, retro, cleaned>>

\* remove_allocated_ip(target, ip, vm): whoever has ip, but for v, and v.
Removed(v, ip) ==
    {u \in DOMAIN Registry : (ip # None /\ Registry[u] = ip) \/ u = v}

RemoveIp(w, v, ip) ==
    /\ Removed(v, ip) # {}
    /\ Begins(w, [Idle EXCEPT !.pc = "open", !.copy = Without(Registry, Removed(v, ip))],
              "ips")
    /\ files' = Constructed
    /\ Disturb(Overlap \cup If(Removed(v, ip) \cap vms # {}, "taken away"))
    /\ UNCHANGED <<vms, ip4, retro, cleaned>>

\* cleanup_allocated_ips: machines that left are dropped from the copy.  An
\* address that the copy has twice is removed from the file for everybody,
\* and comes back with the copy if that one is written.
Twice == {u \in DOMAIN Registry : \E x \in DOMAIN Registry \ {u} : Registry[x] = Registry[u]}

CleanedTwiceOnly == Without(Registry, Twice)   \* mutant of Cleaned
Cleaned ==
    IF DOMAIN Registry \subseteq vms
      THEN Without(Registry, Twice)
      ELSE Restrict(Registry, DOMAIN Registry \cap vms)

CleanupIps(w) ==
    /\ Begins(w, IF Cleaned = Registry THEN Idle
                 ELSE [Idle EXCEPT !.pc = "open", !.copy = Cleaned], "ips")
    /\ files' = Constructed
    /\ cleaned' = "yes"
    /\ Disturb(Overlap)
    /\ UNCHANGED <<vms, ip4, retro>>

-----------------------------------------------------------------------------
(* Ports.                                                                  *)

Fallback(v, k) ==
    IF k \in Retro /\ v \in DOMAIN retro[k] THEN retro[k][v] ELSE None

PortOf(v, k) ==
    IF <<v, k>> \in DOMAIN PortsMap THEN PortsMap[<<v, k>>] ELSE Fallback(v, k)

AllocatedNow == Range(PortsMap)               \* mutant of Allocated: no retrocompat
Allocated == Range(PortsMap) \cup UNION {Range(retro[k]) : k \in Retro}

\* get_kind_port: whoever finds a port returns it and changes nothing; when
\* there is none, or the caller wants another (reset), the first free one.
TakePort(w, v, k, reset) ==
    LET port == FirstFree(Ports, Allocated) IN
    /\ v \in vms
    /\ files["ports"].state # "torn"
    /\ reset \/ PortOf(v, k) = None
    /\ port # None
    /\ Begins(w, [Idle EXCEPT !.pc = "set", !.file = "ports", !.vm = v, !.kind = k,
                              !.val = port], "ports")
    /\ Disturb(Overlap)
    /\ UNCHANGED <<vms, ip4, files, retro, cleaned>>

\* mutant of SetsPort: the map is written with the port alone
SetsPortAlone(w) ==
    LET r   == worker[w]
        key == <<r.vm, r.kind>>
    IN
    /\ r.pc = "set" /\ files["ports"].state # "torn"
    /\ worker' = [worker EXCEPT ![w].pc = "open", ![w].copy = Set(Nothing, key, r.val)]
    /\ UNCHANGED <<vms, ip4, files, retro, cleaned, disturbed>>

\* set_kind_port reads the map again, and writes it with the port.
SetsPort(w) ==
    LET r   == worker[w]
        key == <<r.vm, r.kind>>
    IN
    /\ r.pc = "set" /\ files["ports"].state # "torn"
    /\ IF key \in DOMAIN PortsMap /\ PortsMap[key] = r.val
         THEN worker' = [worker EXCEPT ![w] = Idle]
         ELSE worker' = [worker EXCEPT ![w].pc = "open", ![w].copy = Set(PortsMap, key, r.val)]
    /\ UNCHANGED <<vms, ip4, files, retro, cleaned, disturbed>>

\* A truncated map: _decode deletes it and returns None, which get_kind_port
\* cannot iterate over and set_kind_port cannot look into.
PortsTornForGet(w, v) ==
    /\ v \in vms
    /\ files["ports"].state = "torn"
    /\ Begins(w, Idle, "ports")
    /\ files' = [files EXCEPT !["ports"] = Missing]
    /\ Disturb(Overlap)
    /\ UNCHANGED <<vms, ip4, retro, cleaned>>

PortsTornForSet(w) ==
    /\ worker[w].pc = "set" /\ files["ports"].state = "torn"
    /\ Continues(w, Idle, "ports")
    /\ files' = [files EXCEPT !["ports"] = Missing]
    /\ UNCHANGED <<vms, ip4, retro, cleaned, disturbed>>

\* cleanup_ports_mapping: the file of the kind forgets whoever is not in the 'vms' of the node's
\* pillar.  They are under a prefix there (ext_pillar), so it forgets everybody, the machines of the
\* node as well; reverse_ports_map keeps its ports.
CleanupPorts(k) ==
    /\ retro' = [retro EXCEPT ![k] = Nothing]
    /\ UNCHANGED <<vms, ip4, files, worker, cleaned, disturbed>>

-----------------------------------------------------------------------------
(* What happens around.                                                    *)

VmLeaves(v) ==
    /\ v \in vms
    /\ vms' = vms \ {v}
    /\ cleaned' = "no"
    /\ UNCHANGED <<ip4, files, retro, worker, disturbed>>

\* A machine that comes back still has its ip4 file.
VmComes(v) ==
    /\ v \in VMs \ vms
    /\ vms' = vms \cup {v}
    /\ Disturb(If(ip4[v] # None /\ (Busy # {} \/ v \notin DOMAIN Registry), "return"))
    /\ UNCHANGED <<ip4, files, retro, worker, cleaned>>

WorkerDies(w) ==
    /\ w \in Busy
    /\ worker' = [worker EXCEPT ![w] = Idle]
    /\ Disturb({"death"})
    /\ UNCHANGED <<vms, ip4, files, retro, cleaned>>

Goes(w) ==
    \/ Opens(w) \/ Fills(w) \/ FillsNothing(w)
    \/ FindsItsOwn(w) \/ FindsNewIp(w) \/ SavesIp(w) \/ NoIpLeft(w)
    \/ SetsPort(w) \/ PortsTornForSet(w)

\* What the rendering of a pillar calls.
Renders(w) ==
    \/ \E v \in VMs : FindIp(w, v) \/ PortsTornForGet(w, v)
    \/ \E v \in VMs, k \in Kinds, reset \in BOOLEAN : TakePort(w, v, k, reset)

\* What an administrator calls.
Administers(w) ==
    \/ \E v \in VMs, ip \in IPs : SetIp(w, v, ip)
    \/ \E v \in VMs \cup {NoVm}, ip \in IPs \cup {None} : RemoveIp(w, v, ip)
    \/ CleanupIps(w)

Next ==
    \/ \E w \in Workers : Goes(w) \/ Renders(w) \/ Administers(w) \/ WorkerDies(w)
    \/ \E k \in Retro : CleanupPorts(k)
    \/ \E v \in VMs : VmLeaves(v) \/ VmComes(v)

Spec == Init /\ [][Next]_vars

\* The pillars of the machines are rendered, and nobody administers anything.
PillarSpec == Init /\ [][\E w \in Workers : Goes(w) \/ Renders(w)]_vars

-----------------------------------------------------------------------------

\* The partial functions from D to R.
Maps(D, R) == UNION {[S -> R] : S \in SUBSET D}

WorkerType ==
    [pc : {"idle", "find", "save", "fail", "set", "open", "fill", "lost"},
     file : Files, vm : VMs \cup {NoVm}, kind : Kinds \cup {"ip"},
     val : IPs \cup Ports \cup {None}, copy : Maps(VMs, IPs) \cup Maps(Keys, Ports),
     alone : {"yes", "no"}]

Contents(D, R) == [state : {"missing", "torn", "full"}, map : Maps(D, R)]

\* Types: an address is an address and a port a port, in every file.
TypeOK ==
    /\ vms \in SUBSET VMs
    /\ ip4 \in [VMs -> IPs \cup {None}]
    /\ DOMAIN files = Files
    /\ files["ips"] \in Contents(VMs, IPs)
    /\ files["ports"] \in Contents(Keys, Ports)
    /\ retro \in [Retro -> Maps(VMs, Ports)]
    /\ worker \in [Workers -> WorkerType]
    /\ cleaned \in {"yes", "no"}
    /\ disturbed \in 0..MaxDisturbances

Calm == disturbed = 0

\* No two machines of the node have the same address, neither in their
\* settings nor in the registry, whatever comes, goes, is cleaned up or set,
\* as long as nothing unusual happens.
UniqueIps ==
    Calm => \A u, v \in vms : u # v /\ ip4[u] # None => ip4[u] # ip4[v]

\* Nor is a port of the node ever redirected to two services.
UniquePorts ==
    Calm /\ files["ports"].state # "torn" =>
        \A a, b \in Keys : a # b /\ PortOf(a[1], a[2]) # None
                           => PortOf(a[1], a[2]) # PortOf(b[1], b[2])

\* The maps of ports that get_kind_port finds, or will find when the write in progress is over.
CurrentPorts ==
    IF files["ports"].state # "torn"
      THEN {PortsMap}
      ELSE {worker[w].copy : w \in {q \in Workers : /\ worker[q].pc = "fill"
                                                    /\ worker[q].file = "ports"}}

Redirects(p, v, k) ==
    \E m \in CurrentPorts : p = IF <<v, k>> \in DOMAIN m THEN m[<<v, k>>] ELSE Fallback(v, k)

\* The port is known from an older map and from nowhere else.
OnlyOlder(p, v, k) == Fallback(v, k) = p /\ \A m \in CurrentPorts : <<v, k>> \notin DOMAIN m

\* No machine of the node loses a port to the allocation of another one, whose call reads, changes
\* and writes the map that all share.  It does to a call that allocates its own (get_kind_port with
\* reset), and to cleanup_ports_mapping if the older map is the only one to have the port.
PortsAreKept ==
    [][Calm' =>
         \A v \in vms, k \in Kinds, p \in Ports : Redirects(p, v, k) =>
             \/ Redirects(p, v, k)'
             \/ \E w \in Workers : /\ worker[w].pc = "open" /\ worker[w].file = "ports"
                                  /\ worker[w].vm = v /\ worker[w].kind = k
             \/ OnlyOlder(p, v, k) /\ retro'[k] = Nothing]_vars

\* "Did not get an available ip" means, after a cleanup, that there are at
\* least as many other machines as addresses.
ExhaustionIsReal ==
    \A w \in Workers :
        Calm /\ cleaned = "yes" /\ worker[w].pc = "fail" =>
            Cardinality(vms \ {worker[w].vm}) >= Cardinality(IPs)

\* Whatever has happened before, a call that nobody disturbs leaves the
\* registry and the settings of the machine in agreement.
Agree(v) == v \in DOMAIN Registry /\ Registry[v] = ip4[v]

UndisturbedCallHeals ==
    [][\A w \in Workers, v \in VMs :
         /\ worker[w].vm = v /\ worker[w].file = "ips"
         /\ worker[w].pc \in {"find", "fill"} /\ worker[w].alone = "yes"
         /\ worker'[w].pc = "idle" /\ disturbed' = disturbed
         => Agree(v)']_vars
=============================================================================
