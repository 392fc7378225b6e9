SPECIFICATION Spec
CONSTANTS
  Credential = {r1, r2, b}
  OtherKey = b
  Tenant = tenant
  OtherTenant = other
  TenantOf <- Tenants
  Ticket = {x1, x2}
  Socket = {s1, s2}
  MaxTickets = 1
  MaxTicketsPerCredential = 1
  MaxConnections = 2
  MaxConnectionsPerTenant = 1
  MaxInflight = 2
  None = None
  Request = {r1, r2}
  Token = {k1, k2}
  PC = {p1, p2}
  MaxRedeeming = 2
SYMMETRY Symmetry
CONSTRAINT Focus
INVARIANTS
  TypeOK
  AccessBounded
  OneDevice
CHECK_DEADLOCK FALSE
