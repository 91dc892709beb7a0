SPECIFICATION Spec
CONSTANTS
  Failures <- MCFailures
  Rank <- MCForward
  Dialogs = {"apart"}
  Callers = {c1}
  MaxTasks = 1
  MaxRunning = 1
  RunnerSteps = 1
  RunnersMayFail = FALSE
  MaxOrphans = 0
  MaxFaults = 0
  MaxRestarts = 0
INVARIANTS
  QuitNeverFailsATask
CHECK_DEADLOCK FALSE
