\* two pushes at once are enough
SPECIFICATION Spec
CONSTANTS
  MaxPushes = 2
  Topics = {}
  Unlucky = {}
  MaxOverlaps = 1
INVARIANT RevertedIsGone
CHECK_DEADLOCK FALSE
