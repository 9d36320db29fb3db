CONSTANTS
  d1 = d1
  x1 = x1
  x2 = x2
  s1 = s1
  xray = xray
  singbox = singbox
  direct = direct
  Direct = direct
  Kinds = {xray, singbox}
  Candidates = {d1, x1, x2, s1}
  KindOf <- MixedKindOf
  Parallelism = 1
  Attempts = 2
  MinimumSuccesses = 2
  MaxRuns = 2
SPECIFICATION FairSpec
INVARIANTS
  TypeOK
  OneResultEach
  ReturnIsClean
PROPERTIES
  ResultsOnlyImprove
  TestEnds
CHECK_DEADLOCK FALSE
