CONSTANTS
  r1 = r1
  r2 = r2
  None = None
  Bare = Bare
  Repos = {r1, r2}
  TextFlags = TRUE
  MaxWrites = 1
  MaxClicks = 2
  MaxEdits = 0
  MaxStarts = 2
  MaxBoxes = 2
SPECIFICATION Spec
INVARIANTS
  QueueKept
CHECK_DEADLOCK FALSE
