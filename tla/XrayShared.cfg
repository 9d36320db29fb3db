CONSTANTS
  v1 = v1
  v2 = v2
  Jobs = {v1, v2}
  Kind <- KindMC
  Supported = {v1, v2}
  Behaviours <- BehavioursMC
  Hosts <- HostsMC
  p1 = p1
  p2 = p2
  Ports = {p1, p2}
  Modes = {"auto", "xray"}
  Attempts = 2
  AutoDownload = TRUE
  MaxLaunches = 1
  MaxCleanups = 1
  None = None
SPECIFICATION Spec
INVARIANT
  OwnConfig
CHECK_DEADLOCK FALSE
