\* Safety: two invocations, timeouts, Ctrl-C, hangups and kill -9 of any process.
CONSTANTS
  h1 = h1
  h2 = h2
  Hooks <- TwoHooks
  Timed <- TwoHooks
  HookSees <- AllPairs
  SaltSees <- AllPairs
  Kill9 <- AnyProcess
  Hangups = TRUE
  KillMidScan = FALSE
SPECIFICATION Spec
SYMMETRY Symmetry
CHECK_DEADLOCK FALSE
INVARIANTS OneExecutor LockCoversDeployment RemovedLockIsStale NothingLeftBehind
PROPERTY OneAtATime
