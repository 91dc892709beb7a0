SPECIFICATION FairSpec
CONSTANTS
  Failures <- MCFailures
  Rank <- MCForward
  Dialogs = {"apart", "main"}
  Callers = {c1}
  MaxTasks = 2
  MaxRunning = 1
  RunnerSteps = 1
  RunnersMayFail = FALSE
  MaxOrphans = 0
  MaxFaults = 1
  MaxRestarts = 0
INVARIANTS
  RunnersHoldPermits
PROPERTIES
  QueuedTasksAreTaken
  RunningTasksFinish
  DegradedStoreRecovers
  QuitCompletes
CHECK_DEADLOCK FALSE
