\* One invocation without kills: the outcome that main reports.
CONSTANTS
  h1 = h1
  h2 = h2
  Hooks <- OneHook
  Timed <- OneHook
  HookSees <- AllPairs
  SaltSees <- AllPairs
  Kill9 <- None
  Hangups = FALSE
  KillMidScan = FALSE
SPECIFICATION Spec
CHECK_DEADLOCK FALSE
INVARIANT SuccessIsReal
