SPECIFICATION Spec
CONSTANTS
  Conns = {c1, c2}
  DeviceOwners = {o1}
  None = None
  Web = Web
  Platforms <- MCPlatforms
  Mobile = {}
  Desktop = {Web}
  Strategies <- MCStrategies
  AuthEnabled = TRUE
  MaxPushes = 1
SYMMETRY Symmetry
INVARIANTS
  ExclusiveOnline
  WinnerSpared
PROPERTIES
  KickedWasTold
CHECK_DEADLOCK FALSE
