----------------------------- MODULE MCInventory -----------------------------
(* Two hosts, two runs of the inventory, playbooks limited to one host or to both. *)
EXTENDS Inventory

CONSTANTS h1, h2, r1, r2

MCTargets == {{h1}, {h1, h2}}

\* One with another host than the first target, and a full one, which may expire.  Torn files come
\* with killed runs and with runs that meet.
MCCaches == {[j \in Jobs |-> IF j = h2 THEN 1 ELSE 0], [j \in Jobs |-> 1]}
=============================================================================
