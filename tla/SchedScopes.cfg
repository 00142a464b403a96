SPECIFICATION Spec
CHECK_DEADLOCK FALSE
CONSTANTS
  MaxTasks = 2
  MaxHost = 2
  Extension = {1, 2}
  Shapes <- Owned
  HostShapes <- Foreground
  Policies = {"allSettled"}
  RestartLimit = 1
  MaxPhase <- Never
  Changes = {"crash", "close", "registry"}
  MaxChanges = 1
  InputConvs = {1}
  AbortTasks = {1}
  AbortConvs = {0}
INVARIANTS NoLostWakeup NoLostCascade NoStrandedWork OrphanNeverHolds
PROPERTY FinishesDrained
