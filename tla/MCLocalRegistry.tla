--------------------------- MODULE MCLocalRegistry ---------------------------
(* Two processes and the passwords of two hosts, over a lock file that may be  *)
(* any of three files on disk: two that processes have open, and a newer one.  *)
EXTENDS LocalRegistry

CONSTANTS p1, p2, h1, h2, i1, i2, i3

\* Of three passwords, the first is for h1 (the hosts are interchangeable), the second is made while
\* all is well, and where the last has been made only one process is in a call.
ThreePasswords ==
    /\ \A p \in Procs: memo[p] # Nothing => memo[p][h2] # 1
    /\ made <= 1 \/ Well
    /\ made = MaxPasswords => \A p, q \in Procs: p = q \/ "idle" \in {pc[p], pc[q]}
=============================================================================
