\* One invocation without kills, whose salt-call may hang: the timeout.
CONSTANTS
  h1 = h1
  h2 = h2
  Hooks <- OneHook
  Timed <- OneHook
  HookSees <- AllPairs
  SaltSees <- AllPairs
  Kill9 <- None
  Hangups = FALSE
  KillMidScan = FALSE
SPECIFICATION HangingSpec
CHECK_DEADLOCK FALSE
PROPERTY TimeoutIsEnforced
