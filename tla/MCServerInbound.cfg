SPECIFICATION InboundSpec
CONSTANTS
  Conns = {c1}
  DeviceOwners = {o1}
  None = None
  Platforms <- MCPlatforms
  Mobile = {}
  Desktop = {}
  Strategies <- MCStrategies
  AuthEnabled = TRUE
  MaxPushes = 1
  Capacity = 2
  MaxFrames = 3
  FrameKinds = {"connect", "ready", "message", "ping"}
INVARIANTS
  ReadableBeforeAck
  InOrder
  OneAfterRemoval
PROPERTIES
  EndReported
  Answered
CHECK_DEADLOCK FALSE
