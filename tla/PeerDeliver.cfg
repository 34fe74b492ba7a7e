CONSTANTS
  A = A
  B = B
  Msg = {m}
  Writer = {A, B}
  Editor = {A}
  Keeper = {B}
  Task = {1, 2}
  MaxRemovals = 1
SPECIFICATION BoundedSpec
INVARIANT StoredOnce
INVARIANT AcceptedIsStored
INVARIANT SameChat
PROPERTY AllArrive
CHECK_DEADLOCK FALSE
