SPECIFICATION MCSpec
CONSTANTS
  MaxConnections = 2
  MaxRequests = 1
  MaxAttempts = 1
  PlainFormat = FALSE
  ServerSends = {"ack", "error", "close", "kick", "reply", "data"}
  Endings = {"gone", "error"}
  Unset = Unset
  PROBE_TIMEOUT = 2
  RoundTrip = 1
  HeartbeatConfigs <- MCHeartbeatConfigs
  NatTimeouts <- MCNatTimeouts
INVARIANTS
  Keepalive
  KickOrder
  TypedRejection
PROPERTY
  WaiterReleased
CHECK_DEADLOCK FALSE
