----------------------------- MODULE Generation -----------------------------
(***************************************************************************)
(* What a caller may expect of one generation of pillars after another     *)
(* (mc_remote_pillar.generate_masterless_pillars and what is built on it): *)
(* it is asked for some hosts, some of their salt-calls answer, and when   *)
(* it returns it returns exactly the answers there are, or it fails.       *)
(***************************************************************************)
CONSTANTS Jobs           \* the hosts

VARIABLES
    phase,       \* "idle", "running", "returned" or "failed"
    asked,       \* the hosts of the generation in progress
    answered,    \* those whose salt-call has given a pillar
    spoiled,     \* those whose salt-call has given something else
    returned     \* what the caller gets

GInit ==
    /\ phase = "idle"
    /\ asked = {}
    /\ answered = {}
    /\ spoiled = {}
    /\ returned = {}

Call ==
    /\ phase \in {"idle", "returned"}
    /\ phase' = "running"
    /\ \E hosts \in SUBSET Jobs: asked' = hosts
    /\ answered' = {}
    /\ spoiled' = {}
    /\ returned' = {}

Answer ==
    /\ phase # "returned"
    /\ \E j \in asked \ (answered \cup spoiled):
         \/ answered' = answered \cup {j} /\ UNCHANGED spoiled
         \/ spoiled' = spoiled \cup {j} /\ UNCHANGED answered
    /\ UNCHANGED <<phase, asked, returned>>

\* No answer is lost and none is invented: a host that is missing has not answered.
Return ==
    /\ phase = "running"
    /\ spoiled = {}
    /\ phase' = "returned"
    /\ returned' = answered
    /\ UNCHANGED <<asked, answered, spoiled>>

Fail ==
    /\ phase = "running"
    /\ phase' = "failed"
    /\ UNCHANGED <<asked, answered, spoiled, returned>>

GNext == Call \/ Answer \/ Return \/ Fail

gvars == <<phase, asked, answered, spoiled, returned>>

GSpec == GInit /\ [][GNext]_gvars
=============================================================================
