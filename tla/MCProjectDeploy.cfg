\* three deployments, one of which may die, one archive kept
SPECIFICATION Spec
CONSTANTS
  MaxDeploys = 3
  MaxCrashes = 1
  KeepArchives = 1
  Requests <- MCRequests
INVARIANTS
  PriorIsArchived
  FailedDeploymentRestores
  ResultTellsFailures
  SuccessIsInstalled
  RotationKeepsTheLast
  GoodIsRecoverable
PROPERTY
  DevKeepsFailures
CHECK_DEADLOCK FALSE
