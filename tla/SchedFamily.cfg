SPECIFICATION Spec
CHECK_DEADLOCK FALSE
CONSTANTS
  MaxTasks = 3
  MaxHost = 1
  Extension = {}
  Shapes <- Child
  HostShapes <- Foreground
  Policies = {"failFast", "allSettled"}
  RestartLimit = 1
  MaxPhase <- Second
  Changes = {}
  MaxChanges = 0
  InputConvs = {}
  AbortTasks = {2}
  AbortConvs = {}
INVARIANTS WaitsAcyclic ChildInsideOwner AbortBottomUp
PROPERTY OutcomeIsFinal
