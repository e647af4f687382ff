SPECIFICATION Spec
CONSTANTS
  x = x
  y = y
  TaskID = {x, y}
  Task <- TwoIDs
  Node = {n1, n2}
  Client = {c1}
  SlotNum = 2
  MaxConcurrent = 0
  Panics = FALSE
  NULL = NULL
  Overlap = 1
  MaxInFlight = 1
  CountCap = 1
SYMMETRY NodeSymmetry
CONSTRAINTS BeforeStale NonePaused
VIEW ListView
INVARIANTS TypeOK ListsIntact NoTaskLost MapIntact
