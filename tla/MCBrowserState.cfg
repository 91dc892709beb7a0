SPECIFICATION Spec
CONSTANTS
  t1 = t1
  t2 = t2
  c1 = c1
  c2 = c2
  Failures = {"F1"}
  Tasks = {t1, t2}
  Calls = {c1, c2}
  MaxEvents = 3
  MaxSelections = 2
SYMMETRY MCSymmetry
INVARIANTS
  ShownTasksAreCurrent
  DetailIsTheHistory
  CancelEndsWithTheTask
CHECK_DEADLOCK FALSE
