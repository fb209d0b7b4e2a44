SPECIFICATION Spec
CONSTANTS
  Protocols = {"websocket", "quic"}
  None = None
  MaxAttempts = 1
  ReconnectOnSend = TRUE
  MaxDials = 1
  Layers = {"wrapper", "manager"}
  Senders = {s1, s2}
  App = app
  MaxCalls = 1
  Caller = caller
  Loops = {1, 2}
  MaxReconnects = 1
  MaxManaged = 2
INVARIANTS
  LosersQuiet
  StaysDown
  LayersMove
PROPERTIES
  LosersClosed
CHECK_DEADLOCK FALSE
