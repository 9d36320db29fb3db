CONSTANTS
  a = a
  b = b
  vless = vless
  vlessNamed = vlessNamed
  tuic = tuic
  tg = tg
  Channels = {a, b}
  Links = {vless, vlessNamed, tg}
  Junk = Junk
  PageOf <- PagesMC
  KeyOf <- KeysMC
  Proxies = {tg}
  Cored = {vless, vlessNamed}
  Behaviours <- BehavioursMC
  DefaultSettings <- SettingsMC
  DefaultLists <- ListsMC
  Numbers = {2}
  Entries <- EntriesMC
  MaxScreens = 2
  MaxInputs = 4
  Torn = Torn
  None = None
SPECIFICATION FairSpec
INVARIANTS
  TypeOK
  ShownIsShared
  StatusSettles
PROPERTIES
  OperationsEnd
CHECK_DEADLOCK FALSE
