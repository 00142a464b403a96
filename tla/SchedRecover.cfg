SPECIFICATION FairSpec
CHECK_DEADLOCK FALSE
CONSTANTS
  MaxTasks = 2
  MaxHost = 1
  Extension = {2}
  Shapes <- Awaited
  HostShapes <- Foreground
  Policies = {"failFast"}
  RestartLimit = 1
  MaxPhase <- First
  Changes = {"crash", "close", "registry"}
  MaxChanges = 1
  InputConvs = {}
  AbortTasks = {}
  AbortConvs = {}
PROPERTIES AbortTakesEffect EverySettles
INVARIANT AbandonedNotResumed
