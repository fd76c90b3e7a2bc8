\* Liveness: two invocations, timeouts, Ctrl-C, kill -9 of whatever does not owe main a
\* report, and a salt-call that returns.
CONSTANTS
  h1 = h1
  h2 = h2
  Hooks <- TwoHooks
  Timed <- TwoHooks
  HookSees <- AllPairs
  SaltSees <- AllPairs
  Kill9 <- AnyButReporters
  Hangups = FALSE
  KillMidScan = FALSE
SPECIFICATION FairSpec
INVARIANT NobodyWaitsInVain
CHECK_DEADLOCK FALSE
PROPERTIES EveryHookEnds EveryDeploymentReleases
