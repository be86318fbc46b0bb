SPECIFICATION Spec
CONSTANTS
  t1 = t1
  t2 = t2
  t3 = t3
  v1 = v1
  v2 = v2
  a1 = a1
  a2 = a2
  Txs = {t1, t2, t3}
  Versions = {v1, v2}
  Artifacts = {a1, a2}
  ArtifactKind <- MCKind
  Owner <- MCOwner
  Requests <- MCRequests
  NoRow = NoRow
  NoRequest = NoRequest
  NoVersion = NoVersion
  DnsTokens = {1}
  Capabilities = {1, 2}
  MaxDependencies = 4
  Absent = Absent
SYMMETRY Symmetry
INVARIANTS
  IdentitiesAreUnique
  SourcesBindVersions
  RowsBindVersions
  AuditTellsTheTables
  DatabaseAgreesWithDomain
PROPERTIES
  ImplementsSerialCatalog
