\* three pushes, one of which may begin during another, two whose deploy_hook.py may be unlucky
SPECIFICATION FairSpec
CONSTANTS
  MaxPushes = 3
  Topics = {2}
  Unlucky = {1, 3}
  MaxOverlaps = 1
INVARIANTS
  TypeOK
  MasterIsDeployed
  OneStrayPushPerInterruption
  NoPushIsStuck
PROPERTIES
  DeploysWhatWasPushed
  EveryPushEnds
CHECK_DEADLOCK FALSE
