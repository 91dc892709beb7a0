SPECIFICATION Spec
CONSTANTS
  fs = fs
  repo = repo
  member = member
  r1 = r1
  r2 = r2
  r3 = r3
  Requests = {r1, r2, r3}
  Dirs <- MCDirs
  Above <- MCAbove
  MaxTime = 1
SYMMETRY MCSymmetry
INVARIANTS
  OneRowPerRepository
  OneDialogAtATime
PROPERTIES
  LastOpenedIsFirst
CHECK_DEADLOCK FALSE
