CONSTANTS
  r1 = r1
  r2 = r2
  None = None
  Bare = Bare
  Repos = {r1, r2}
  TextFlags = TRUE
  MaxWrites = 2
  MaxClicks = 1
  MaxEdits = 1
  MaxStarts = 2
  MaxBoxes = 2
SPECIFICATION FairSpec
INVARIANTS
  TypeOK
  FlagMeansTimer
  SettledIsPublished
PROPERTIES
  SameRepository
  QueueDrains
CHECK_DEADLOCK FALSE
