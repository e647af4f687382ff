SPECIFICATION Spec
CONSTANTS
  x = x
  y = y
  TaskID = {x}
  Task <- Updated
  Node = {n1, n2, n3}
  Client = {c1, c2}
  SlotNum = 1
  MaxConcurrent = 0
  Panics = FALSE
  NULL = NULL
  Overlap = 1
  MaxInFlight = 1
  CountCap = 1
SYMMETRY CallerSymmetry
CONSTRAINTS BeforeStale NonePaused
VIEW ListView
INVARIANTS MapIntact
PROPERTIES UpdateKeepsTask StopQuiesces
