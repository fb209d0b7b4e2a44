SPECIFICATION Spec
CONSTANTS
  c1 = c1
  c2 = c2
  Servers <- MCServers
  Conns = {c1, c2}
  Routes <- MCRoutes
  MaxLives = 2
  Handshakes = 1
  MaxConnections = 2
INVARIANTS ShutOut
PROPERTIES Reasoned Responsive
CHECK_DEADLOCK FALSE
