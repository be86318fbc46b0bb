SPECIFICATION FairSpec
CONSTANTS
  p1 = p1
  p2 = p2
  d1 = d1
  Paths <- FourPaths
  Publishers = {p1, p2}
  NoPublisher = NoPublisher
  Delegations = {d1, d2}
  Txs = {t1, t2}
  Requests <- AuthorityRequests
INVARIANTS
  UnambiguousAuthority
  DelegationsFormChains
  PublishedByOwner
PROPERTIES
  GrantedToVerified
  HistoryIsAppendOnly
  ImplementsSerialAuthority
  TransactionsDrain
