SPECIFICATION FairSpec
CONSTANTS
  Transports = {"websocket", "quic", "tcp"}
  Observers = {o1, o2}
  None = None
  MaxFrames = 1
INVARIANTS
  QuietAfterEnd
  FirstHearsAll
PROPERTIES
  EndReaches
CHECK_DEADLOCK FALSE
