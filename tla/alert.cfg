SPECIFICATION Spec
CONSTANTS
  Task <- SomeTasks
  MaxTime = 5
INVARIANTS TypeOK StateFollowsResults HeldWhenInOrder RepeatsSpaced HistoryAgrees
