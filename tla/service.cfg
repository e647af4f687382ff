CONSTANTS
  c1 = c1
  c2 = c2
  Caller = {c1, c2}
  Levels = 2
  MaxOps = 2
  MaxFailures = 1
  MaxRestarts = 1
  MaxRepairs = 1
SYMMETRY Callers
SPECIFICATION Spec
CHECK_DEADLOCK FALSE
INVARIANTS
  RowAndWheelAgree
  RepairMends
