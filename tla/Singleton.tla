---------------------------- MODULE Singleton ----------------------------
(***************************************************************************)
(* What deploy_hook.py promises about the commands it launches ("allow     *)
(* only one execution at a time system wide"): an execution begins only    *)
(* when none is running, and each invocation of the hook executes at most  *)
(* once.  DeployHook.tla implements it; GitPush.tla builds on it.          *)
(***************************************************************************)
CONSTANT Hooks          \* the invocations of the deploy hook

VARIABLES
  running,              \* the invocations whose execution is in progress
  ran                   \* the invocations that have begun an execution

svars == <<running, ran>>

SInit == running = {} /\ ran = {}

Begin(h) ==
  /\ running = {}
  /\ h \notin ran
  /\ running' = {h}
  /\ ran' = ran \cup {h}

End(h) ==
  /\ h \in running
  /\ running' = running \ {h}
  /\ UNCHANGED ran

SNext == \E h \in Hooks : Begin(h) \/ End(h)

SSpec == SInit /\ [][SNext]_svars
=============================================================================
