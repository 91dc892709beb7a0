SPECIFICATION FairSpec
CONSTANTS
  fs = fs
  repo = repo
  member = member
  r1 = r1
  r2 = r2
  r3 = r3
  Requests = {r1}
  Dirs <- MCDirs
  Above <- MCAbove
  MaxTime = 1
PROPERTIES
  QuitEndsTheProcess
CHECK_DEADLOCK FALSE
