----------------------------- MODULE MCDnsSerial -----------------------------
(* One domain, without a serial of its own in the database, whose servers may have one of the day. *)
EXTENDS DnsSerial, TLC

CONSTANTS d1, p1, p2, s1, s2

MCPinned == [d \in Domains |-> 0]

\* Neither processes nor servers are told apart.
Symmetric == Permutations(Procs) \cup Permutations(Servers)
=============================================================================
