SPECIFICATION Spec
CONSTANTS
  x = x
  y = y
  TaskID = {x}
  Task <- Counted
  Node = {n1, n2}
  Client = {c1}
  SlotNum = 1
  MaxConcurrent = 0
  Panics = FALSE
  NULL = NULL
  Overlap = 1
  MaxInFlight = 2
  CountCap = 3
SYMMETRY NodeSymmetry
CONSTRAINTS BeforeStale NonePaused
VIEW LiveView
INVARIANTS RunsBounded
PROPERTIES RetiredAfterTimes
