CONSTANTS
  h1 = h1
  h2 = h2
  r1 = r1
  r2 = r2
  Jobs = {h1, h2}
  Runs = {r1, r2}
  Me = r1
  Targets <- MCTargets
  Caches <- MCCaches
  ChunkSizes = {1, 2}
  Widths = {1, 2}
  Modes = {"processes", "threads", "sequential"}
  MaxAge = 1
  MaxClock = 2
SPECIFICATION FairSpec
INVARIANTS WidthIsRespected TargetsAreAccountedFor NoOrphans OutputIsFresh
PROPERTIES AloneKeepsTheCache  EveryRunEnds
CHECK_DEADLOCK FALSE
