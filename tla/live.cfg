SPECIFICATION FairSpec
CONSTANTS
  x = x
  y = y
  TaskID = {x}
  Task <- OneRepeat
  Node = {n1}
  Client = {c1}
  SlotNum = 1
  MaxConcurrent = 1
  Panics = TRUE
  NULL = NULL
  Overlap = 2
  MaxInFlight = 2
  CountCap = 1
INVARIANT SemaphoreSound
PROPERTIES DueTaskRuns StopReturns
