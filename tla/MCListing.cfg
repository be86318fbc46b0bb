SPECIFICATION Spec
CONSTANTS
  Clients = {c1, c2}
  A = A
  B = B
  Absent = Absent
  NoIdentity = NoIdentity
  NoCursor = NoCursor
  NoScope = NoScope
  Issuer <- MCIssuer
  Audience = "mp"
  Algorithms = {"RS256"}
  Skew = 0
  TenantByValue <- MCTenantByValue
  Grants <- MCGrants
  LocalTenant = A
  LocalPrincipal = "dev"
  Requests <- MCRequests
  Creations <- MCCreations
  Modes = {"oidc", "local-development"}
  Ids = {0, 1, 2}
  Millisecond = 2
  MaxPageSize = 2
  Lifetime = 1
  MaxTime = 2
INVARIANTS
  TraversalsAreExact
  NothingForeign
