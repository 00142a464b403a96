SPECIFICATION Spec
CHECK_DEADLOCK FALSE
CONSTANTS
  MaxTasks = 1
  MaxHost = 1
  Extension = {}
  Shapes <- None
  HostShapes <- Foreground
  Policies = {}
  RestartLimit = 1
  MaxPhase <- Never
  Changes = {"close"}
  MaxChanges = 1
  InputConvs = {}
  AbortTasks = {}
  AbortConvs = {}
INVARIANT CloseCountsNoRestart
