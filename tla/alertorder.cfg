SPECIFICATION Spec
CONSTANTS
  Task <- OneTask
  MaxTime = 4
INVARIANT HeldThroughout
