\* two deployments are enough for a failure that is announced as a success
SPECIFICATION Spec
CONSTANTS
  MaxDeploys = 2
  MaxCrashes = 0
  KeepArchives = 2
  Requests <- MCRequests
INVARIANT NotificationIsTrue
CHECK_DEADLOCK FALSE
