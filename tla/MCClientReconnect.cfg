SPECIFICATION LoopSpec
CONSTANTS
  Protocols = {"tcp"}
  None = None
  MaxAttempts = None
  ReconnectOnSend = TRUE
  MaxDials = 1
  Layers = {"manager"}
  Senders = {s1, s2}
  App = app
  MaxCalls = 1
  Caller = caller
  Loops = {1, 2}
  MaxReconnects = None
  MaxManaged = 2
PROPERTIES
  AutoReconnects
CHECK_DEADLOCK FALSE
