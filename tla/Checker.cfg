CONSTANTS
  x1 = x1
  x2 = x2
  m1 = m1
  Endpoints = {x1, m1}
  Cored = {x1}
  Workers = 1
  Attempts = 2
  MinSuccess = 2
  StopChoices = {TRUE, FALSE}
  MaxRuns = 2
SPECIFICATION FairSpec
INVARIANTS
  TypeOK
  TestAfterConsent
  FinishedIsComplete
  WaitingCanContinue
PROPERTIES
  AbortEnds
CHECK_DEADLOCK FALSE
