SPECIFICATION Spec
CONSTANTS
  x = x
  y = y
  TaskID = {x}
  Task <- OneTwice
  Node = {n1}
  Client = {c1}
  SlotNum = 2
  MaxConcurrent = 0
  Panics = TRUE
  NULL = NULL
  Overlap = 2
  MaxInFlight = 2
  CountCap = 3
CONSTRAINTS BeforeStale NonePaused
VIEW LiveView
INVARIANTS ListsIntact
PROPERTIES RetiredAfterTimes
