CONSTANTS
  A = A
  B = B
  Msg = {m}
  Writer = {A}
  Editor = {}
  Keeper = {}
  Task = {1, 2}
  MaxRemovals = 0
SPECIFICATION Spec
INVARIANT StoredOnceAlways
CHECK_DEADLOCK FALSE
