SPECIFICATION FairSpec
CONSTANTS
  p1 = p1
  p2 = p2
  d1 = d1
  Paths <- ThreePaths
  Publishers = {p1, p2}
  NoPublisher = NoPublisher
  Delegations = {d1, d2}
  Txs = {t1, t2}
  Requests <- SuspensionRequests
PROPERTIES
  PublicationIsAuthorized
