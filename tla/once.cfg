SPECIFICATION Spec
CONSTANTS
  x = x
  y = y
  TaskID = {x}
  Task <- OneOnce
  Node = {n1}
  Client = {c1}
  SlotNum = 2
  MaxConcurrent = 1
  Panics = TRUE
  NULL = NULL
  Overlap = 1
  MaxInFlight = 1
  CountCap = 2
INVARIANT OnceRunsOnce
