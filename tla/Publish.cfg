CONSTANTS
  c1 = c1
  c2 = c2
  c3 = c3
  s1 = s1
  s2 = s2
  p1 = p1
  p2 = p2
  r1 = r1
  r2 = r2
  Absent = absent
  Calls = {c1, c2, c3}
  Repos = {r1, r2}
  Connected = absent
  SubOf <- SharedSubs
  ProxyOf <- SharedProxies
  WriteSends = 2
  MaxEdits = 1
SPECIFICATION FairSpec
INVARIANTS
  TypeOK
  CommitOnce
  SuccessIsVisible
PROPERTIES
  NothingLost
  Refines
  CallsEnd
CHECK_DEADLOCK FALSE
