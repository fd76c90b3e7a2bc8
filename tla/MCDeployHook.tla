-------------------------- MODULE MCDeployHook --------------------------
(* Instances of DeployHook for TLC. *)
EXTENDS DeployHook, TLC, FiniteSets

CONSTANTS h1, h2

TwoHooks == {h1, h2}
OneHook  == {h1}
None     == {}

\* the same program started by the same path: everybody sees everybody
AllPairs == Hooks \X Hooks

AnyProcess == {"main", "worker", "timer", "reporter", "salt"}

\* all but those that owe main a report, without which it waits for ever
AnyButReporters == AnyProcess \ {"worker", "reporter"}

Symmetry == Permutations(Hooks)
=============================================================================
