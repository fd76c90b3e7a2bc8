--------------------------- MODULE MCComputeNode ---------------------------
(***************************************************************************)
(* ComputeNode on a small node: model values for the machines and the      *)
(* workers, which are symmetric as nothing orders them.                    *)
(***************************************************************************)
EXTENDS ComputeNode, TLC

Symmetry == Permutations(VMs) \cup Permutations(Workers)

\* A bound: what is promised about ports is promised of calm histories, so after a disturbance one
\* port of one machine is enough for the torn files that it may leave.
OnePortAfterDisturbance ==
    \/ Calm
    \/ /\ \A k \in Retro : retro[k] = Nothing
       /\ Cardinality(DOMAIN files["ports"].map) <= 1
       /\ Range(files["ports"].map) \subseteq {1}
       /\ \A w \in Workers : worker[w].file = "ports" => worker[w].val # 2
=============================================================================
