CONSTANTS
  Caller = {m, c}
  Mover = {m}
  Request <- MoveRequests
  Name <- OneName
  MaxNode = 4
  MaxSeeded = 2
  MaxCalls = 2
  DepthLimit = 4
SPECIFICATION Spec
SYMMETRY Symmetry
INVARIANT ForestKept
INVARIANT DestroyedOnce
CHECK_DEADLOCK FALSE
