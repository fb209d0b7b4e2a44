SPECIFICATION DeviceSpec
CONSTANTS
  Conns = {c1, c2, c3}
  DeviceOwners = {o1, o2}
  None = None
  Web = Web
  PC = PC
  Android = Android
  IOS = IOS
  Other = Other
  Platforms <- MCPlatforms
  Mobile <- MCMobile
  Desktop <- MCDesktop
  Strategies <- MCStrategies
SYMMETRY Symmetry
INVARIANTS
  OwnersExact
  Exclusive
PROPERTY
  OwnerIsolation
