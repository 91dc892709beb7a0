SPECIFICATION Spec
CONSTANTS
  Failures = {"F1"}
  Requests = {r1, r2}
  Inputs = {i1, i2}
  OwnRequest = own
  NoSnapshot = nosnapshot
  MaxAttempt = 2
  MaxTasks = 3
  MaxEvents = 7
INVARIANTS
  StoredTasksValid
  LogDescribesTable
  LogFollowsLifecycle
  RetriesFormChains
  RequestsNameOneTask
PROPERTIES
  HistoryIsImmutable
  ImplementsTaskTable
SYMMETRY Symmetry
