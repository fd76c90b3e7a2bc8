------------------------------ MODULE WaitLock ------------------------------
(***************************************************************************)
(* api.wait_lock: a context manager over flock on a file that comes and    *)
(* goes.  The file is created if it is not there, opened, locked, and      *)
(* removed before it is unlocked; a process that has opened it before that *)
(* gets the lock of a file without a name, while others create a new one.  *)
(***************************************************************************)
EXTENDS Naturals, FiniteSets

CONSTANTS
    Procs,       \* processes
    Inodes,      \* files on disk; one is used again once nobody has it open
    NoInode,
    Tries        \* times the file is opened (the code: 10)

ASSUME LockAssumption ==
    /\ NoInode \notin Inodes
    /\ \A f \in [Procs -> Inodes \cup {NoInode}]:      \* there is always one more
           \E i \in Inodes: \A p \in Procs: f[p] # i
    /\ Tries \in Nat \ {0}

VARIABLES
    name,        \* the file that the path names, or NoInode
    fd,          \* fd[p]: locko, the file that p has open, or NoInode
    tries,       \* tries[p]: times that p has opened it, while it is at that
    at,          \* at[p]: where p is in wait_lock
    stranded     \* somebody has locked a file that had no name any more

lockVars == <<name, fd, tries, at, stranded>>

LockTypeOK ==
    /\ name \in Inodes \cup {NoInode}
    /\ fd \in [Procs -> Inodes \cup {NoInode}]
    /\ tries \in [Procs -> 0 .. Tries - 1]
    /\ at \in [Procs -> {"out", "create", "open", "poll", "body", "unlink", "unlock", "error"}]
    /\ stranded \in BOOLEAN

\* A process may have died and left the file.
LockInit ==
    /\ name \in {NoInode, CHOOSE i \in Inodes: TRUE}
    /\ fd = [p \in Procs |-> NoInode]
    /\ tries = [p \in Procs |-> 0]
    /\ at = [p \in Procs |-> "out"]
    /\ stranded = FALSE

\* Who has the flock of the file that it has open.
Holders == {p \in Procs: at[p] \in {"body", "unlink", "unlock"}}

InBody == {p \in Procs: at[p] = "body"}

Enter(p) ==
    /\ at[p] = "out"
    /\ at' = [at EXCEPT ![p] = "create"]
    /\ UNCHANGED <<name, fd, tries, stranded>>

Unused == Inodes \ ({name} \cup {fd[p]: p \in Procs})

\* open(lockp, 'w'), unless the file exists
Create(p) ==
    /\ at[p] = "create"
    /\ at' = [at EXCEPT ![p] = "open"]
    /\ name' = IF name = NoInode THEN CHOOSE i \in Unused: TRUE ELSE name
    /\ UNCHANGED <<fd, tries, stranded>>

\* The loop has no break: the file is opened Tries times, and the last success counts.
Open(p) ==
    /\ at[p] = "open"
    /\ tries' = [tries EXCEPT ![p] = (@ + 1) % Tries]
    /\ fd' = [fd EXCEPT ![p] = IF name = NoInode THEN @ ELSE name]
    /\ at' = [at EXCEPT ![p] = IF tries'[p] # 0 THEN "create"
                               ELSE IF fd'[p] = NoInode THEN "error" ELSE "poll"]
    /\ UNCHANGED <<name, stranded>>

\* Mutant of Acquire: a shared lock
AcquireShared(p) ==
    /\ at[p] = "poll"
    /\ at' = [at EXCEPT ![p] = "body"]
    /\ stranded' = (stranded \/ fd[p] # name)
    /\ UNCHANGED <<name, fd, tries>>

Acquire(p) ==
    /\ at[p] = "poll"
    /\ \A q \in Holders: fd[q] # fd[p]
    /\ at' = [at EXCEPT ![p] = "body"]
    /\ stranded' = (stranded \/ fd[p] # name)
    /\ UNCHANGED <<name, fd, tries>>

\* Mutant of TimesOut: the body is entered all the same
TimesOutAndGoesOn(p) ==
    /\ at[p] = "poll"
    /\ at' = [at EXCEPT ![p] = "body"]
    /\ UNCHANGED <<name, fd, tries, stranded>>

\* Mutant of TimesOut: it waits again
TimesOutAndRetries(p) ==
    /\ at[p] = "poll"
    /\ at' = [at EXCEPT ![p] = "create"]
    /\ UNCHANGED <<name, fd, tries, stranded>>

TimesOut(p) ==
    /\ at[p] = "poll"
    /\ at' = [at EXCEPT ![p] = "error"]
    /\ UNCHANGED <<name, fd, tries, stranded>>

\* The body of the with statement ends, and raises nothing.
Leave(p) ==
    /\ at[p] = "body"
    /\ at' = [at EXCEPT ![p] = "unlink"]
    /\ UNCHANGED <<name, fd, tries, stranded>>

\* Whatever file has the name now.
Unlink(p) ==
    /\ at[p] = "unlink"
    /\ at' = [at EXCEPT ![p] = "unlock"]
    /\ name' = NoInode
    /\ UNCHANGED <<fd, tries, stranded>>

\* The flock goes with the open file, however that is closed: an unlock, an exception in the body
\* (which then leaves the file where it is), the end of the process.
Released(p) ==
    /\ at' = [at EXCEPT ![p] = "out"]
    /\ fd' = [fd EXCEPT ![p] = NoInode]
    /\ tries' = [tries EXCEPT ![p] = 0]
    /\ UNCHANGED <<name, stranded>>

Unlock(p) == at[p] = "unlock" /\ Released(p)

LockStep(p) == Create(p) \/ Open(p) \/ Acquire(p) \/ TimesOut(p) \/ Unlink(p)

\* What a process may do to the lock, whatever it has it for.
LockNext == \E p \in Procs: Enter(p) \/ LockStep(p) \/ Leave(p) \/ Released(p)

LockSpec == LockInit /\ [][LockNext]_lockVars

\* As long as nobody has locked a file whose name was already removed (wait_lock unlinks before it
\* unlocks, and never looks at the name again), two processes are never both in the body of the
\* same lock, whatever times out, raises or dies.
BodiesExclude == ~stranded => \A p, q \in InBody: p = q
=============================================================================
