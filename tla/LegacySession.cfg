CONSTANTS
  a = a
  fav = fav
  aVariant = aVariant
  junk = junk
  Channels = {a, fav}
  Lines = {a, fav, aVariant, junk}
  NoChannel = NoChannel
  ChannelOf <- LineNames
  Favourite = fav
  DefaultChannels <- DefaultsMC
  Portables <- PortablesMC
  Entries <- EntriesMC
  AttemptChoices = {1, 3}
  Absent = Absent
  Empty = Empty
  MaxEdits = 2
  MaxLaunches = 2
  Texts <- TextsMC
  Ciphers = {"auto"}
  PageOf <- PagesMC
  PerLimit = 2
  MainLimit = 3
  Tags <- TagsMC
  Pings = {1, 2}
  MaxRuns = 1
SPECIFICATION Spec
PROPERTY
  SettingsKept
INVARIANTS
  TypeOK
  RanksAgree
  AllAccounted
  OutputsFaithful
CHECK_DEADLOCK FALSE
