CONSTANTS
  Caller = {c}
  Mover = {c}
  Request <- AloneRequests
  Name <- Names
  MaxNode = 5
  MaxSeeded = 4
  MaxCalls = 1
  DepthLimit = 3
SPECIFICATION Spec
SYMMETRY Symmetry
INVARIANT TypeOK
INVARIANT DepthBounded
INVARIANT NoOrphanLeft
INVARIANT RefusedCreateDestroysNothing
INVARIANT CopyOutlivesOriginal
PROPERTY NewNameIsFree
CHECK_DEADLOCK FALSE
