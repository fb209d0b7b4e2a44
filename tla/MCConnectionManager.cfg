SPECIFICATION Spec
CONSTANTS
  Conns = {c1, c2, c3}
  Users = {u1}
  Tenants = {t0, t1}
  DefaultTenant = t0
  None = None
  MaxConnections = 2
  Deaf = {}
SYMMETRY Symmetry
INVARIANTS
  WithinLimit
  IndexExact
  AtRest
PROPERTY
  ImplementsRegistry
CHECK_DEADLOCK FALSE
