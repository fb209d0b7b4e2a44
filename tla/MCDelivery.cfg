SPECIFICATION MCSpec
CONSTANTS
  c1 = c1
  c2 = c2
  u1 = u1
  t1 = t1
  Conns = {c1, c2}
  Users = {u1}
  Tenants = {t0, t1}
  DefaultTenant = t0
  None = None
  MaxConnections = 2
  Deaf = {c2}
  RequiresAuth = TRUE
  Calls <- MCCalls
INVARIANTS
  NobodyMissed
  AudienceOnly
PROPERTIES
  TimedOutRemoved
  CallReturns
CHECK_DEADLOCK FALSE
