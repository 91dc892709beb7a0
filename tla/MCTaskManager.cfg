SPECIFICATION Spec
CONSTANTS
  Failures <- MCFailures
  Rank <- MCBackward
  Dialogs = {"apart"}
  Callers = {c1}
  MaxTasks = 2
  MaxRunning = 2
  RunnerSteps = 1
  RunnersMayFail = TRUE
  MaxOrphans = 1
  MaxFaults = 1
  MaxRestarts = 1
INVARIANTS
  RunningHasHandle
  CancelledOnlyByUser
  FinishedTasksAreStopped
  CleanShutdownLeavesNothing
  InheritedTasksAreOver
PROPERTIES
  ClaimsInOrder
CHECK_DEADLOCK FALSE
