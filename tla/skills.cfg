CONSTANTS
  Workers = 2
  Threshold <- MCThreshold
  MaxDeaths = 1
  Setups <- MCSetups
  MaxIterations = 2
  Run = {"r1", "r2"}
  Text = {"good"}
  MaxReviews = 2
  EvalIds = 3
  Configs <- MCConfigs
  RunsEach = 1
  Servers = 2
  MaxUses = 2
  Questions = 2
  MaxCalls = 2
SPECIFICATION Spec
CHECK_DEADLOCK FALSE
INVARIANTS
  TypeOK
  CountedAsTriggered
  NoRunLeftBehind
  ServersStopped
  HeldOutUnseen
  PackagedIsBest
  
  DeltaIsOfSkill
PROPERTIES
  LoopEnds
