CONSTANTS
  a = a
  b = b
  k1 = k1
  m1 = m1
  bad = bad
  Invalid = invalid
  Unparsed = bad
  Torn = torn
  One <- ListOne
  Two <- ListTwo
  NameOf <- NamesOfLines
  Page <- Pages
  OneLimit = 1
  TwoLimit = 2
  FetchParallelism = 2
  Proxies = {m1}
  MaxTests = 2
  Changeable = {"proxies", "token"}
  MaxChanges = 1
  Saved <- WithToken
  MaxExits = 1
SPECIFICATION FairSpec
INVARIANTS
  TypeOK
  LinksAccounted
  FilesAgree
  GivenIsTest
PROPERTIES
  OperationsEnd
CHECK_DEADLOCK FALSE
