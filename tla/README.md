# Verification of makina-states

makina-states is a set of salt formulas, salt modules, ansible glue and scripts
that install servers, and a small platform on top of them: projects that are
deployed by a `git push`, and a cloud controller that gives addresses and ports
to virtual machines.  Most of the repository is declarative (states, templates,
images) or sequential glue.  The parts that have an own core logic, with several
processes, files that outlive them, failures and ordering, are the ones
specified here, in TLA+: checked with TLC on small instances, and proved with
TLAPS for all of them where that is possible.

File paths below are relative to the repository; line numbers refer to the
commit this directory was written for.  `PROJECT.json` has the lines of code that
each definition stands for, the mutations of the code that each property
catches, and the list of the hazards that the properties are for.

## 1. Inventory

### 1.1 Components that are modelled

**Deploy hook**, `files/projects/2/hooks/deploy_hook.py`.  Run by `post-receive`
in the bare repository of a project: "allow only one execution at a time system
wide", optionally with a timeout, and let a user detach with Ctrl-C.

- State: one lock file; for each invocation the main program, a pool process that
  runs `deploy()` (the worker), a pool process that runs `timer_terminator()`, the
  salt-call that the worker launches, the server of the queues (`Manager()`); the protocol
  queue, the timer's queue and the pool's result queue; the exit code.
- Operations: `test_deploy` (two `ps`, the decision, removal of a stale lock),
  `enter_mainloop` (reads the queues, terminates and joins the pools, waits for the
  lock), `communicator(deploy)`, the timer, the signal handlers of the worker.
- Hard: everything is concurrent with everything, across invocations; the lock
  file does not say whose it is; processes outlive each other (a main that is
  detached, a salt-call whose worker is killed after a timeout).
- Correct when: at most one invocation is at work at any time whatever is killed;
  the lock covers the deployment and only a stale lock is removed; every
  invocation and every deployment ends and releases, or the cases in which it does not
  are known; the exit code is true.

**Project deployment**, `mc_states/modules/mc_project_2.py`: `deploy()`,
`guarded_step()` and the steps archive, sync_modules, release_sync, install,
rotate_archives, rollback, fixperms and notify.

- State: the working copy (`project_root`), the archives, the result, the rollback
  flag and the skip flags of the configuration (which lives in one salt-call).
- Hard: any step may fail, or the process die in it; whether a failure leads to a
  rollback depends on a flag that three pieces of code set; the result is saved,
  overwritten and restored; archives are rotated.
- Correct when: what was there can be recovered at any point; a failed deployment in
  production restores it; the result and the notification are true; rotations
  respect `keep_archives`.

**Git repositories and hooks**, `files/projects/2/hooks/{pre-receive,post-receive,
pre-push}` with the parts of `mc_project_2.py` that pull and push.

- State: `refs/heads/master`, the files `hooks/curcom` and `hooks/force_marker`,
  the working copy's commit.
- Interaction: a user's push runs the hooks; `post-receive` runs the deploy hook;
  the deployment pulls master, and pushes back from within the user's push, so
  hooks run inside hooks; a failure reverts master to `curcom`.
- Hard: two files are shared by all pushes; a push runs inside a push; the deploy hook may exit
  before its salt-call has ended, and master is then accepted or reverted under it.
- Correct when: master is what is deployed whenever nothing is going on; a deployment
  deploys the commit that launched it; no push waits for ever.

**Compute node allocator**, `mc_states/modules/mc_cloud_compute_node.py` (called
from `mc_cloud_vm.py` while a pillar is rendered).

- State: `allocated_ips.pack`, `reverse_ports_map.pack` and the older `ssh_map` and
  `snmp_map` of a node, and `ip4.pack` of each virtual machine.
- Operations: `find_ip_for_vm`, `set_allocated_ip`, `remove_allocated_ip`,
  `cleanup_allocated_ips`, `get_kind_port`, `set_kind_port`, `cleanup_ports_mapping`.
- Hard: several salt workers render pillars and nothing locks the files; a write
  truncates first, and a reader that cannot decode a file deletes it; the same fact
  is in two files that are written one after the other.
- Correct when: no two machines share an address, no two services a port, and an
  exhaustion is real; the files agree again after an interruption.

**File locks**, `wait_lock` of `mc_states/api.py`: a context manager over `flock`.

- State: a file that is created for the lock and removed after it; who has it open;
  who has locked which inode.
- Hard: the file is removed before it is unlocked, and nobody looks at the name again;
  an exception in the body leaves it; processes die; a wait has a limit.
- Correct when: one process at a time is in the body; nobody waits for ever.

**Local registries**, `mc_states/modules/mc_macros.py`, with `get_password` of
`mc_pillar.py`: files of entries that are read through a cache in each process
(`memoize_cache`) and updated by a read under one lock and a write under another.

- State: the file, the dictionary in the cache of each process and its map of the database (both
  of which callers change in place), the copies that are about to be written.
- Hard: an update is not one critical section; the cache is not refreshed by an update; a
  file that does not decode is removed, whoever is writing it.
- Correct when: a password that has been returned is not lost; no reader finds half a file.

**Pillar generation pool**, `mc_remote_pillar.py` with `saltcaller.py`: one salt-call for
each host, in processes, in threads or one after the other, whose results come through
a queue.

- State: the jobs to start, the workers of the batch, the queue, the results; of each job
  its worker and its salt-call, which is killed when its time is up.
- Hard: a worker may be seen dead before its result is read, or die without one, or in the
  middle of it; the time may be up when the answer is there; an interrupt.
- Correct when: the pool returns the answers that were given, all of them and nothing else; it
  ends; it leaves no salt-call at work.

**Ansible inventory**, `ansible/inventories/makinastates.py`: reads a cache of pillars, asks
salt for those it does not find in it, and rewrites it whole.

- State: the cache file; of each run what it has read, asked for and got.
- Hard: the cache is rewritten without a lock by runs that meet; a chunk that fails loses those
  before it; what is missing from a refresh comes from the first load.
- Correct when: nothing that it prints has expired; a target is missing only if its
  salt-call gave nothing; a run that is alone loses no valid entry.

**DNS serials**, `serial_for` of `mc_pillar.py`: the serial of a zone, each time that the pillar of
the DNS master is rendered.

- State: the registry `dns_serials` and its cache in each process, the failures of name servers; outside,
  the zone that the master has and the copies of the name servers.
- Hard: the registry may be lost, late, or ahead of what was returned; servers fail, and may have the zone
  of another master; a day passes in the middle of a call.
- Correct when: a zone never gets an older serial, nor the same one; a name server that can be asked takes
  the zone.

### 1.2 How they interact

    user's git push --> pre-receive, post-receive      GitPush
                            |  runs                       | builds on Singleton
                        deploy_hook.py                  DeployHook  (implements Singleton)
                            |  salt-call, one at a time
                        mc_project.deploy               ProjectDeploy
                            |  pulls and pushes
                        project.git, working copy       GitPush

    pillar rendering, administrator --> mc_cloud_compute_node     ComputeNode
            |  get_password
        mc_macros registries            LocalRegistry  (extends WaitLock)
            |  with wait_lock(...)
        api.wait_lock                   WaitLock

    pillar of the DNS master --> mc_pillar.serial_for      DnsSerial
            |  registry dns_serials         (in one step: LocalRegistry has the details)
        name servers

    ansible --> makinastates.py         Inventory      (extends PillarPool)
                    |  salt-call mc_remote_pillar.generate_ansible_roster
                generate_masterless_pillars    PillarPool     (implements Generation)
                    |  a process or a thread per host
                saltcaller.call         SaltCaller
                    |  salt-call, which renders a pillar

`GitPush` uses the abstract specification `Singleton` (its actions `Begin` and
`End` are conjuncts of GitPush's) for the salt-calls that deploy hooks launch, and
`DeployHook` is shown to implement `Singleton`, whose executions are the salt-calls and not the
hooks: a hook may be over before its salt-call is.  `ProjectDeploy` takes deployments one
after the other, which is what `Singleton` grants, each of which may die at any
point: by a kill -9 of the salt-call, a hangup of the terminal, a reboot.  DeployHook's timeout is none of
those: `handle_sigusr2` kills the worker, and the salt-call goes on.

`LocalRegistry` is composed with `WaitLock`: each of its steps is a step of the lock (entering,
waiting, leaving, dying in it) or one that has the lock and leaves it alone, and this is a
theorem.  `Inventory` has the generation of pillars in two forms: the pool itself, for a run that
is alone, and the outcomes that the abstract `Generation` allows, for runs that meet; that the pool
implements `Generation` is checked and proved.

### 1.3 Components that are not modelled

| component | sources | why |
|---|---|---|
| memoize cache | `memoize_cache` of `mc_states/api.py` | the keys, the expiry and the eviction of memcached or of a local dictionary; what a cached dictionary does to those who change it is in LocalRegistry (`memo`) |
| pillar database | `mc_pillar.py` but `get_password` and `serial_for` | pure functions on large data; its only state is the caches |
| cloud modules and states | `mc_cloud*.py` (others) | settings and calls of ssh, lxc, docker: the state is outside |
| remote calls | `mc_remote.py`, `saltapi.py` | command formatting and output parsing |
| burp cron executor | `files/etc/burp/cron.py` | the program of the deploy hook for another command: its scan kills what is old, and reads `ps` otherwise, and it launches again what was refused; DeployHook is not written for those |
| git state | `mc_git.py` | a wrapper of salt's; what matters of git is in GitPush |
| former project layouts | `mc_project_1.py`, `mc_project.py` | kept for old projects, and a dispatcher |
| firewalls, certificates, settings | `mc_firewalld.py`, `mc_ssl.py`, `mc_utils.py`, ... | merge dictionaries; no concurrency, no lasting state |
| ansible, scripts, formulas, images, docs | `ansible/` but the inventory, `_scripts/`, `salt/`, `docker/`, `doc/sphinx/` | I/O glue, declarative content, and in `doc/sphinx/` copies of the modules for the documentation |

By lines, most of the repository is in that table: a hundred modules that merge defaults,
grains and pillar into dictionaries, the formulas that consume them, and copies of the
modules under `doc/sphinx/`.  A module of TLA+ about such a function would repeat it: it has no
state, no failure that somebody else sees, and no order.  The models cover the parts whose correctness
depends on those.

## 2. Modules

| module | what it is |
|---|---|
| `Singleton` | abstract: one execution at a time, one per invocation at most |
| `DeployHook` | the processes of deploy_hook.py, their signals and queues |
| `MCDeployHook` | instances of it for TLC |
| `DeployHookProofs` | its theorems, with the refinement of Singleton |
| `ProjectDeploy` | the steps of deploy() and the life of the working copy |
| `MCProjectDeploy` | the requests that users make in the runs |
| `ProjectDeployProofs` | its theorems |
| `GitPush` | the bare repository, its hooks, the pushes within pushes |
| `GitPushProofs` | its theorems |
| `ComputeNode` | addresses and ports of a compute node |
| `MCComputeNode` | an instance of it for TLC |
| `ComputeNodeProofs` | its theorems |
| `WaitLock` | wait_lock, whatever it is used for |
| `LocalRegistry` | the registries and get_password, over WaitLock |
| `MCLocalRegistry` | an instance of it for TLC |
| `LocalRegistryProofs` | the theorems of WaitLock and of LocalRegistry |
| `Generation` | abstract: what is returned is what was answered |
| `SaltCaller` | one salt-call with its timeout and its result on a queue |
| `PillarPool` | generate_masterless_pillars and generate_ansible_roster |
| `Inventory` | the runs of makinastates.py and their cache, over PillarPool |
| `MCInventory` | an instance of it for TLC |
| `InventoryProofs` | its theorems, with the refinement of Generation |
| `DnsSerial` | serial_for, the registry and the name servers |
| `MCDnsSerial` | an instance of it for TLC |
| `DnsSerialProofs` | its theorems |

### 2.1 DeployHook

`main[h]`, `worker[h]`, `timer[h]` and `salt[h]` are the program counters of four
processes of invocation h, named after what each does next; a fifth, the server of the queues
(`Manager()`, l.624), runs or not (`manager`).  Each `ps` is a step
of its own, as are the creation and the removal of the lock file, every message
and every signal.  `HookSees` and `SaltSees` say whose processes `ps aux | grep`
shows to whom: the hook greps for its own `argv[0]` and for the salt function, so
invocations by another path do not see each other.  Python's processes of one
program show the same command line, so `Alive(h)` is one predicate for main, worker, timer and
manager.

- *The lock* is one file without an owner.  At the start it may exist already: an
  earlier execution was killed.  Nothing removes it between open() (`TakeLock`, l.317) and
  the try of `deploy()` (l.336): a write that fails (`LockWriteFails`), or a SIGUSR2 before its handler is installed
  (`TimerKill` on `taken`), leaves the lock with its worker failed or dead, and main waits for it for ever
  (l.858-861).  The history variable `abandoned` has the invocations to which this has happened, and the
  properties that speak of waiting name them.
- *The manager* ends with main, or when main shuts it down, or with a Ctrl-C, which is a SIGINT to all the
  processes of the terminal and which the server of python 2 does not ignore; a kill -9 of main leaves it, and with it the end of the pool's task queue that
  keeps the idle worker.  From then on test_deploy takes them for a deployment in progress and refuses every push,
  until somebody kills them: EveryDeploymentReleases names this case.
- *The timer* has no clock.  `TimerOverdue` may happen whenever the timer finds the
  lock, which covers all delays; a timer that finds no lock ends.  Its SIGUSR2 and its report to main
  are two steps (`TimerKill`, `TimerReports`), and it may die in between.
- *Signals*: SIGTERM of `pool.terminate()` is obeyed only while no lock exists, or
  once the worker has reported; SIGUSR2 removes the lock and kills the
  worker, not its salt-call; Ctrl-C detaches in `enter_mainloop` only; SIGHUP keeps its
  default disposition; `Kill9` says which kinds of processes are killed with SIGKILL (a
  `reporter` is a timer that has killed the worker and has not told main yet).
- *The result* of `deploy()` travels over the pool's result queue (`Result`), and END
  over the protocol queue (`ReportEnd`): two steps, between which main may read END.

Left out: the synchronous mode (`--async`, which deploys in main itself), log files, the maintenance
thread of `multiprocessing.Pool`, which replaces a dead worker by one that is idle and terminated like it, the
python 3 defect of l.388 (bytes are joined with text), and a kill of a worker in the instant between the two
`ps` of somebody's scan, which `KillMidScan` switches on (it breaks OneExecutor: the
salt-call is launched after the first `ps` and its worker is gone before the second).

### 2.2 ProjectDeploy

`pc` is the next step of deployment `d`.  The working copy `wc` is the revision it
holds and what has been done to it since (`partial`, `synced`, `broken`, `installed`);
`archives[a]` holds the content that archive.sls has copied, and after a rollback a
copy of what failed.  Each step has an action for its success and one for its
failure, with the states in which it may leave the working copy; `Crash` is the death of the
salt-call (kill -9, a hangup, a reboot; not the timeout of the hook, which spares it) before or in the middle of any step, half way in a rotation too (`RotateUpTo`: the oldest
archives go first).  Two history variables remember, across deployments, what the last successful
installation has left (`good`) and that every request so far leaves the safety net up (`whole`): it does not change
the working copy without an archive, nor rotate without an installation.  A request (`Requests`) is what a
user asks for: `only=` and the skip flags.  `Fail` and `FailLightly` are `guarded_step`.

What the code does where a comment suggests otherwise, as modelled:
a failure of release_sync raises the rollback flag in dev too (l.2303-2308 against the
comments of l.2145 and 2157); a failed rotation makes the deployment a failure
without a rollback; install goes on with the slses after its nested
sync_modules has failed; `only=install` skips rollback; `keep_archives = 0` keeps
every archive; failed deployments rotate nothing; archive names sort by local time
(here: by the number of the deployment).  The configuration's content is left out, with
it the fact that `deploy()` goes on with the old one after release_sync has reloaded it.

### 2.3 GitPush

Push p (1, 2, ...) brings commit p; push -p is the one that the deployment of p does
from the working copy.  `ReceivePack(q)` is the server's side with the three hooks,
`Deployment(p)` what `deploy()` does to the repository.  The two are processes of their own: `pc[q]` says
where push q is, `wait` while deploy_hook.py waits for its salt-call, and `dep[p]` where the salt-call of push p
is.  As a rule the hook reports how the salt-call has ended (`HookEnds`).  `Mishap` has what DeployHook
shows besides: it exits with an error while the salt-call goes on, after a timeout, an exception or a kill -9 of main
(`HookFails`), and post-receive reverts master under it; it exits 0 while the salt-call goes on, after a
Ctrl-C, or after one that has failed, when END was read before the result (`HookDetaches`); or it launches none
(`HookLaunchesNothing`).  A kill -9 of main leaves its manager (`orphan`), and no push is deployed any more.  A
salt-call that has outlived its hook is seen by the scan of the next one (`Found`).  `astray` has the pushes that were
accepted, or reverted, without regard to what became of their deployment, since the last that was accepted for a
deployment which has succeeded: until then nothing makes master and what is deployed agree again.
pre-receive is two steps, since the shell empties curcom (`NoCommit`) before git log fills it; git refuses to move
a master that a revert has emptied.  `old[q]` is the master that
the server has advertised to q and that git compares before it moves master;
`history` has the ancestors of each commit, for fast-forwards.  `overlaps` counts the pushes
that begin while another is in progress, so that properties can speak of pushes that come one by
one, and the same run still has the others.  `interrupted` counts the deployments
that end between pre-push and the end of init_project, with `force_marker` in place.
`Found` lets a hook be refused by another that looks around at the same time, and `DeployBegins` does not ask for
more than Singleton and no `orphan`: both are at least as permissive as DeployHook.

Left out: pushes that delete branches or force; the pillar repository, which has
no deploying hook; the death of a deployment while its own push is in progress
(the push then goes on alone); several references in one push.  Users push on top of the master they are
told of.  The commit that pre-receive saves is the one that git log reads after the file was emptied, in one step
with the write.

### 2.4 ComputeNode

Four groups of files: `files["ips"]` (allocated_ips), `files["ports"]`
(reverse_ports_map), `retro` (ssh_map and snmp_map) and `ip4` (one file per machine).
A worker's call is one `Begins` action, with the first read, and then one action per
read or write; writes of the two shared maps are two steps (`Opens` truncates, `Fills`
writes) and a reader of a truncated file deletes it (`Deleted`, after which the
writer fills a file without a name).  A record of `worker` holds what the python
frame holds: the machine, the value chosen, and the copy of the map that is about to
be written.

The allocator is written for calls that come one by one.  Everything else is
modelled too, and counted in `disturbed`: calls that overlap, a worker that dies, an
administrator who gives an address to a second machine or takes one away from a
machine that is still there, a machine that comes back with an `ip4` that has been
recycled.  Uniqueness is promised of histories without a disturbance; that an undisturbed
call repairs the registry is promised after any.

Abstractions: writes of `ip4.pack`, of the older maps and of the empty map in
`_construct_ips_dict` are atomic; the files that get_kind_port reads are read in one
step; the intermediate writes of remove_allocated_ip inside cleanup_allocated_ips are
merged into the final one; the side effects of the rendering that cleanup_ports_mapping does first
(other calls of get_kind_port, which are in the model by themselves) and the moment at which it has truncated the
older map; python 2 semantics.  The `default` argument of find_ip_for_vm is
never read by it; the `raise` of l.535 cannot be reached.  `cleanup_ports_mapping` looks for `vms` in
`ext_pillar(target)`, whose default is a prefixed pillar (l.892-895) that has no such key: so it deletes the older
port of every machine, existing ones included, and `CleanupPorts` empties the map.  Two calls that overlap may
find the same address for two machines (l.517 to 544: nothing is locked).  Not modelled: set_ssh_port and
set_snmp_port, mac addresses, passwords, the assembly of the reverse proxies (with
its ten retries, of which get_port_info l.723 drops the answers).

### 2.5 SaltCaller, PillarPool and Inventory

`caller[j]` is what `saltcaller.call()` does next for host j, `salt[j]` its salt-call, `printed[j]`
whether the whole pillar is in its output yet, `answer[j]` what call() has made of it.  `TimesUp` may
happen at any poll if a timeout was given: the code looks at the clock before it
looks at the process, so a salt-call that has just ended is too late all the same, and what it has printed
is decoded.  By default there is no timeout.  A result is on `queue` when the feeder has
written it; its process lives on for a while (`Leave`), so that main may see either first.
A worker that is killed in the middle of `put` leaves half a result (`torn`).

PillarPool is the main process: it starts jobs while there is room, then waits for the whole batch
(`Receive`, `Reap`), and empties the queue once more when no worker is left (`Drain`).  As coded, a
generation with threads fails at its first result (`item[0]` of a dictionary, l.273); with
`Blocks` main reads half a result and waits for the rest for ever.  The hosts that a
generation is asked for go through get_hosts (`GetHosts`), which drops, without a word, those that no module lists; its
argument `skip` is never passed by the inventory.  An answer is a pillar; or
`unusable`, and generate_ansible_roster fails: an output that does not decode, errors in the pillar, or a
dictionary without the settings of ssh (what complex_json_output finds at the end of a pillar that was cut
short, or the result of a rendering that raised), where the formatting of `control_path` raises (l.466-471), or the
look at `ssh_gateway` (l.476).

Inventory's runs go from `first` (load_inventory of everything) to `load` (of the targets), `ask` and
`generate` for each chunk, `save` and `write`.  An entry of the cache is the time of its TTL_KEY;
`Torn` is a file that does not decode, which is how a file looks between truncation and
writing, or when a shorter text has been written over a longer one.  `followed`, chosen at the start, says
whether the generation is the pool, with one run, or what Generation allows, with runs that meet.

Left out: the cache of the list of hosts, the groups, the restart of memcached, the profiling
option, the contents of pillars, the order in which a set of hosts is iterated.

### 2.6 WaitLock and LocalRegistry

`at[p]` is where p is in wait_lock, `fd[p]` the file that it has open, `name` the one that the path names.
The code creates and opens the file ten times (its loop has no break), polls flock, runs the body,
unlinks the path and unlocks.  A process that has opened the file before the unlink gets the lock of a
file without a name: `stranded` says that this has happened.  From then on, two processes may be in the body,
and what the lock is for is not promised any more.

LocalRegistry's `pc[p]` is where p is in get_password: `load` the registry into the cache, `choose` a password,
`read` the file again, `write` (`Truncate`), `fill`, `chmod`, `end`.  The dictionary in the cache is the
object that callers change, so `Make` changes `memo[p]`; `Updated` puts it over what was read.  `db[p]` has the
passwords in the process's map of the database (`db_reg`): get_password looks there first (`Known`), and puts
whatever it returns into both (`Caches`).  query() keeps that map for a year, so it may have an older password
than the cached registry, which `Found` then replaces without storing it: the condition of l.2814 compares what
l.2810 has made equal.  The next update of this process writes the older password; `recent`, which such a process
leaves, makes that update an `outdated` one.
`mishaps` names what is known to lose passwords: an update made of copies that are no longer the file, or one that
has failed after the cached dictionary was changed (`outdated`); a death, or a write that raises (`WriteRaises`: a
full disk), with the file open for writing (`cut`).  `given`, `current` and `recent` are history variables, kept while all is well only.

Abstractions: one user (and one password) per host; the hosts are those for which the database itself names no
password, since one that it does name is never made here; a registry's format is pack, without
the yaml and json ones it may be read from at first; get_password's own memoization is not
modelled, and would only call it less often; get_passwords, which makes the defaults of two users in the same way, and
delete_password are not modelled; the cache of a process is its own dictionary, not a memcached
that processes share.

### 2.7 DnsSerial

`pc[p]` is where p is in serial_for: `ask` the name servers, `decide`, `write` the registry.  The serial
is that of the day, of the database or of the registry, whichever is the largest (`Local`), then the
largest answer of the servers (`Answers`), and then one more.  `zone[d]` is the serial that was last returned, and the
master has it at once; `published[s][d]` is what server s has, which `Transfer` replaces by a greater one
only.  `mishap` names what is known to lose serials: a registry that is updated with an outdated
dictionary, and a death while it is written.  `informed` has the calls in progress that were alone, whose servers
were up to date, and that all of them have answered so far.

What the code does where a comment suggests otherwise, as modelled: a server that fails ends the inquiry
(`Fails`), with the answers of the others; the failures are read from the registry dns_serials_failures and
written to dns_failures, so that they live as long as the cache, a minute, and "ignore it for 10 minutes" is
never reached; they are filed by address and taken off by name, so an answer does not remove them; the
fourth failure is the one that counts (`MaxFailures`), not the third; the serial grows at every call, though
"we can only update the serial after a TTL".  The correction "if serial is way behind the current day"
has nothing to do, since the serial of the day is a lower bound already.

Abstractions: a serial is `day * PerDay + n`; the arguments serial, force_serial, autoinc and ttl have
their defaults, as in the only call (l.3616); the steps of the registry are not taken apart, which is what LocalRegistry
does; all the servers serve all the domains.

## 3. Runs

Runs that pass:

| run | question | instance |
|---|---|---|
| `hook_safety` | Is there ever more than one executor, an uncovered deployment, a live lock taken for a stale one, a process left behind? Does DeployHook implement Singleton? | two invocations with timeout; stale lock or none; Ctrl-C, SIGHUP, kill -9 of any process |
| `hook_liveness` | Does main ever wait for a message or a lock that nobody will send or release? Does every invocation end, and every deployment release the lock with nothing left? | two invocations with timeout; Ctrl-C; kill -9 of main, timer or salt-call, not of what owes main a report (the worker, and the timer once it has killed the worker); a worker may leave its lock behind |
| `project_deploy` | Can what was there, and the last good installation, be recovered, is it restored, are results true, rotations right, dev left alone? | three deployments, seven requests, one crash, one archive kept |
| `git_push` | Is master what is deployed, is each stray push accounted for, does a deployment deploy its push, is a push ever stuck, does each push end? | three pushes, one of them to another branch, one overlap; the hooks of the two others may exit before their salt-calls, or launch none |
| `node` | Are addresses and ports unique, exhaustions real, does a machine keep its port through allocations and cleanups, and does a call repair what a disturbance has broken? | three machines, two addresses, two ports (one after a disturbance), two services (an old kind and a new one), two workers, one disturbance of any kind |
| `inventory` | Does the pool implement Generation, keep to its width, end, and leave no salt-call behind? Is what a run prints fresh, complete, and the cache kept? | two hosts, of which get_hosts may know any; one run with the pool (one or two workers, one or two hosts per chunk, the three modes, with a timeout or not, a kill -9 of any worker, an interrupt) or two runs that meet; caches with one entry, or full, valid or expired, and torn |
| `registry` | Does the lock exclude, are files read whole, are passwords kept, does every call end? | two processes, two hosts, three passwords; cached maps of the database; deaths at any point, timeouts of the lock, writes and chmod that raise |
| `dns` | Do serials only increase, does the registry have them, do the servers take them? | one domain, two name servers that may have a zone from elsewhere; two processes, two days; failures, timeouts, deaths, expiring caches |

The type invariant of GitPush, which says more than types (at most one deployment in progress), is checked by its
run; those of the other modules are theorems and no run repeats them.

Runs that find a disagreement between the code and what its documentation says:

| run | property | what TLC shows |
|---|---|---|
| `hook_success` | SuccessIsReal | main reads END and terminates the pool before the exit code has arrived: a failed deployment exits with 0 |
| `hook_timeout` | TimeoutIsEnforced | the timer looks before the lock is taken, finds none and ends; a salt-call that hangs is never killed |
| `project_notify` | NotificationIsTrue | notify.sls looks at the rollback flag: failures that raise none are announced as deployed |
| `git_concurrent` | RevertedIsGone | a second push, which git refuses, has replaced `curcom`; the revert restores the failed commit |

### Bounds, and why they are enough

- Two invocations: every property of DeployHook is about one invocation, or about one
  and whoever else is there; the theorems remove the bound.  All of the timeout,
  detaching and kills occur in both.
- Three deployments: one to install, one to fail (or die) on top of it, one to meet what
  the second has left; with `KeepArchives = 1` a rotation removes something in the
  second and third.  The theorems remove the bound.
- Three pushes: with `curcom` written by one, read by another and a third that meets
  the result.  One overlap (`MaxOverlaps`), since what overlaps do to the liveness of pushes takes two in progress at
  once, and the safety properties but NoPushIsStuck speak of pushes that come one by one.  `Unlucky` has the two pushes to
  master: the third meets what the mishap of the first has left, a salt-call at work or a manager, or deploys and
  makes up for it.  `git_concurrent` needs two pushes and no mishap.  The theorems remove the bounds.
- Three machines for two addresses: the smallest instance with exhaustion and with a
  machine that keeps its address while the two others compete.  Two ports for
  three machines and two services: allocations compete, `reset` moves a port, and one port is kept while another is given;
  `OnePortAfterDisturbance`, a constraint of MCComputeNode, keeps one port of one machine after a disturbance, which is enough
  for the torn files that it may leave, since what is promised of ports is promised of histories without one.
  One disturbance is enough for each kind, and its repair; all are in one
  run, since a disturbance adds behaviours and removes none.
- Two hosts and two jobs: a batch that is full and one that is not (`Widths`), one chunk and two; results that
  arrive in either order, before and after their workers are gone.  A clock of two with `MaxAge = 1`: an entry
  is valid, at the limit, or expired.  Two runs: each may begin, truncate or write between any two steps of the other.
- Two processes at a registry, each of which holds the lock, has opened the file, or comes anew; three inodes
  are one more than they can use.  `Tries = 1` instead of ten (with two the run is three times as long, and finds
  nothing else); three passwords: one of a process whose map of the database keeps it, a newer one that another
  process makes, and one whose update writes the old one again.  `ThreePasswords`, a constraint of MCLocalRegistry, gives
  the first to h1 (the hosts are interchangeable), has the second made while all is well, and lets one process be in a call
  once all are made.  A call that needs a fourth stops there, which EveryCallEnds excuses by name.
- Two processes for one domain: one whose dictionary is outdated by the other.  `PerDay = 1` and `MaxFailures = 0`
  make the day and the list of failures bite at once; serials up to 4 pass that of the second day and
  that of a server which is ahead (3).  What domains do to each other goes through the registry, as a dictionary of the other
  process does; two domains in one run are too many states for TLC, and the theorems have any number.
- The states are symmetric in invocations, machines and workers, which only appear as
  indices; runs that check liveness use no symmetry.

`CHECK_DEADLOCK FALSE` is set where the system may stop: all invocations have exited,
all deployments or pushes are done, all runs of the inventory are over, the registry has made its passwords, serials have come to their bound.  The allocator never stops, and deadlock is checked in `node`.

### Fairness

- DeployHook: each process that can take a step takes one (`WF` of `MainStep`,
  `WorkerStep`, `TimerStep`), as the kernel schedules them and their loops poll.  Only
  `FairSpec`, used for liveness, adds that a salt-call returns; `HangingSpec`, used for the timeout, does
  not.  Nothing is assumed of users (Ctrl-C, new pushes) nor of kills.
- GitPush: the server's side of a push and a deployment go on (`WF` of `ReceivePack(q)`, of
  `Deployment(p)`): they are processes that wait for nobody but each other, and
  that a deployment ends, and the hook that waits for it, is what hook_liveness shows, unless its worker has left the
  lock behind: such a hook never ends, and EveryPushEnds rests on there being none.  No mishap has to happen.  Users need
  not push.
- Inventory: the script, the main process of the pool, each worker and each salt-call that does not hang go on.  A
  salt-call that hangs is not forced to end: EveryRunEnds names it, without a timeout, and what a worker leaves that is
  killed in the middle of its put (half a result, or the queue's lock: `torn` stands for both) as
  the two things that may hold a run.  No run has to begin.
- LocalRegistry: a process goes on as long as it lives (`WF` of `Step(p)`); a wait for the lock then
  ends, since its loop has a limit (`TimesOut`).  Nobody has to call get_password, and nobody has to die.
- No strong fairness is used.  ProjectDeploy, ComputeNode and DnsSerial are checked for safety only.

## 4. Proofs

**DeployHookProofs** (for any set of invocations and kills).  `TypeCorrect` needs no
hypothesis.  The others assume `SameProgram` (all invocations see each other) and `~KillMidScan`;
without the first the code does not exclude anybody, without the second it has
a window (2.1).  OneExecutor is not inductive: the exclusion is decided before it shows.
`IInv` adds

- `OneCommitted`: at most one invocation is at work *or has decided to be* (its scan is over
  and has found nobody);
- `MissedSaltHasWorker`: a salt-call that the first `ps` has missed still has a waiting worker
  for the second `ps` to find.  This is why two `ps` one after the other are as
  good as one, and why a kill in between matters;
- `Fresh` and `NotSpawned`: what does not exist before the fork and before the spawn;
- `LockCoversDeployment` and `StaleLockStays`: the lock is there for as long as it has to be.

From it: `MutualExclusion`, `LockIsKept`, `StaleLockRemoval` and `Refinement` (every step is a
step of Singleton or stutters, under the mapping running = the invocations whose salt-call runs, ran =
the invocations that have launched one).  `NothingIsLeft` needs neither hypothesis: `EndInv` says of each
invocation alone that a report on the queue, and a main that has gone past its loop without a
timeout, mean that the worker is past its salt-call (`Over`).

`WaitingEnds` is the safety half of EveryHookEnds, for any number of invocations: main polls its queue without a
limit, so whatever it waits for has to be there or on its way.  What it says of the lock leaves out the invocations whose own
worker has left it behind (`abandoned`), which do wait for ever.  It assumes, besides the two hypotheses above, that a worker
and a timer which owes its report are not killed with -9: with such a kill the property is false, and so is
EveryHookEnds.  `WaitInv` adds three facts about each invocation: a pid is the first thing on the queue and is read
once, before there is a timer (`PidOnce`: otherwise a second timer would be started, or a report be hidden behind it);
main loops only with a report on a queue or somebody who will send one, and a main that joins after a timeout has a worker
that is dead or is about to be (`Awaited`); and the lock, from the fork to the exit, is held by nobody but the
worker of that invocation (`OwnLock`), which needs the exclusion of `IInv`: the lock is one file for all.

**ProjectDeployProofs** (for any number of deployments, crashes and archives to keep, and for any
requests).  The invariant says that until a failure a deployment has a clean record (`Clean`) and,
once past the archive step, an archive equal to what was there (`SafetyNet`); the
flag that asks for a rollback is raised after the archive exists, so a rollback restores just that
(`Restores`); that a rotation never takes the archive of the deployment in progress because no archive is
younger (`ArchivesAreReal`, which needs the cardinality of sets of archives); that what it keeps is few
(`Rotates`, with `FewAreKept`: the kept archives have an oldest one, since inclusion of finite sets is
well-founded, and with it the younger ones are as many as may be); and what the result and
the saved outcome say of the failures (`Results`).  From it: `PriorIsRecoverable`,
`FailureRestores`, `ResultIsTrue`, `SuccessInstalls`, `DevIsLeftAlone`, `RotationIsRight`.
`LastGoodIsRecoverable` speaks of any number of deployments in a row: several failures and crashes, each of which
archives what the one before has left, never cost the last good installation.  `Recoverable` is why: outside of
an installation that has succeeded, what was good is in place or in an archive, and it is in an archive wherever a
step may change the working copy or a rollback is due; a rotation only runs with the good installation in place; and
no archive is overwritten, since a deployment has none of its own before its archive step (`OwnArchive`).

**GitPushProofs** (for any number of pushes, topics and overlaps).  `Runs` says, of every history, that a push of the
working copy lives only while its deployment waits for it and never deploys, and `Counted` that each failure
that is counted is that of another push: `TypeCorrect` follows.  The others
speak of pushes that come one by one, those whose hook has left before its salt-call included: `Course` says that a deployment then finds in the
working copy what the repository has, and sends nothing (`Level`), unless its own post-receive has reverted master without
it, when both have its commit or the one before it (`Behind`); `Keeps` what curcom has at each point of a push, so
that a revert takes master back to what is deployed, as long as no push is `astray`; `Debts` that a marker which nobody is about to remove was
left by an interruption that has not led a push astray yet.  From them `MasterFollowsDeployments`,
`StraysAreCounted` and `DeploymentsAreOfTheirPush`.  `PushesMoveOn` speaks of every history again, with pushes that
overlap: `Slot` says that the execution Singleton has in progress is that of a push which is deploying, so that
what a deployment leaves behind never refuses the next one, and that a push which has had its execution does
not come back for another; a hook can then always take one of its two ways out, and the push that a deployment waits for
is on its way or over.

**ComputeNodeProofs** (for any machines, workers, addresses, ports and services, and any number of
disturbances; ExhaustionTellsTheTruth assumes that the machines are finitely many).  `Types` says what
a worker's record holds at each point of its call; TypeCorrect follows, with the existence of the
first free number, which takes the well-foundedness of `<`.  UniqueIps speaks of the settings only
and is not inductive; `CalmInv` says that, without a disturbance, calls come one by one
(`Serial`), and that the registry, *or the copy that the call in progress is about to write to
it*, agrees with the settings of the machines (`Good`): from the moment that a call opens the file its
content is in that call's hands.  `IpCall` and `PortCall` add what the call must still know when it comes
to its next step, for instance that nobody has the address it is about to save.  From it:
`AddressesAreUnique`, `PortsAreUnique` (where a port may be in reverse_ports_map or in an older file, never
in both) and `ExhaustionTellsTheTruth` (a function from addresses to their holders is an injection into
the other machines).  `RenderingKeepsAddresses` is about `PillarSpec`, the steps of Spec without its administrator: while
renderings come one by one, a machine that has an address keeps it, because a call that is about to save an
address (or None, when none is left) is one for a machine that has none (`SavesForTheNew`).  Its property,
AddressesAreKept, is proved only.  `EveryPortIsKept` follows what is redirected through the write of reverse_ports_map:
while the file is truncated, it is in the copy that the call in progress is about to write (`CurrentPorts`), and that
copy is what was in the file with the call's own port (`Handed`); so nobody else's port changes; `CleanupPorts` takes
only what the older map alone has.  `AloneInv` speaks of every history: a call that has met nobody since it began is the
only one in progress and knows the settings of its machine; `RegistryHeals`, an action
property, follows.

**LocalRegistryProofs** (for any processes, hosts, tries and passwords; it is assumed that there is always one more
inode, and a host).  BodiesExclude is not inductive: `LockInv` says that who has the lock has a file in
hand, that no two have the same one, and that until something is stranded the file in hand is the one that the path
names until its holder unlinks it.  `LockExcludes` proves it of WaitLock alone, `RegistryLocks` that
LocalRegistry implements WaitLock's specification, and `RegistryExcludes` follows.  `CallInv` has the types and says that who
writes is in the body; `FileInv` that, until something is stranded or cut, the file is undecodable only while
somebody fills it and nobody's file was removed under it, whence `ReadersFindWholeFiles`; `KeepInv`
that there is one content (that of the file, or what is about to fill it) which has every password that was
returned, and which the current copies and the recent dictionaries agree with, whence
`ReturnedPasswordsAreKept`.

**InventoryProofs** (for any hosts, runs, widths, chunks and ages).  `PoolInv` says what the states of the workers
mean: who has a worker (`JobsInv`), what each mode allows (`ModeInv`), that an answer is in the results or on the queue
(`QueueInv`).  From it, `GenerationIsImplemented` (every step of the inventory is one of Generation or stutters) and
`NoneAreOrphans`.  `WidthInv` counts: the workers that main waits for are as many as the width allows, and those
alive are among them until the generation fails, after which none is added; a salt-call at work has a worker
alive, but for those whose worker was killed, whence `WidthsAreRespected`.  `RunInv` says that a run asks for a host once; `FreshInv`, that what it holds is valid at its
`now`; `AccountedInv`, that a host that was asked for and has not been got has lost its worker or has none, being one
that get_hosts does not know; `AloneInv`, that
the cache is what it was when a run that meets nobody began.  From them `OutputsAreFresh`,
`TargetsAreAccounted` and `AloneCacheIsKept`.

**DnsSerialProofs** (for any processes, servers and bounds, and at least one domain).  RegistryRemembers and
SerialsIncrease need the dictionaries: `WellInv` says that, until a mishap, the processes whose dictionaries
are as recent as the file (`recent`) know at least what was returned (`Knows`), and that a call of theirs is above it
from its first step to its last (`Above`).  `ServersWillFollow` needs none of this, and speaks of every history:
`FollowInv` follows a call that is alone from its beginning (`Alone`), whose servers have what was returned and so
take nothing in the meantime (`Caught`), through what it has heard so far (`Informed`) to what it returns.

Only model-checked: liveness (EveryHookEnds, EveryDeploymentReleases, EveryPushEnds, EveryRunEnds, EveryCallEnds),
which is out of the prover's reach, and the runs that find a violation.  Every safety property and
every action property of a passing run, and both refinements, are theorems.

## 5. Plan

In this order, the most important behaviour first; the numbered items are done.

1. Singleton, DeployHook, its proofs: who deploys, and when.
2. ProjectDeploy, its proofs: what a deployment does to the working copy.
3. GitPush: what master means; composition with Singleton.
4. ComputeNode: addresses and ports and their proofs.
5. WaitLock and its proof: when `wait_lock` is a mutex.
6. LocalRegistry over WaitLock and its proofs: which updates survive.  What a cached dictionary does to
   its users is part of it; the rest of `memoize_cache` is not modelled (1.3).
7. Generation, SaltCaller, PillarPool, Inventory and their proofs: what a generation of pillars returns, and
   what becomes of it.
8. DnsSerial and its proofs.
9. The proofs of GitPush, of NothingLeftBehind and of RotationKeepsTheLast.
10. What several deployments, or several waits, do to each other, with proofs: GoodIsRecoverable over
    sequences of deployments, NobodyWaitsInVain and NoPushIsStuck as the safety halves of the liveness
    properties, WidthIsRespected, AddressesAreKept, PortsAreKept.

Open: the refinement of Singleton by GitPush as a theorem of its own (its steps are conjuncts of GitPush's, so it holds by
their shape), and the same safety half for EveryRunEnds and EveryCallEnds.
