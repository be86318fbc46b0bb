SPECIFICATION FairSpec
CONSTANTS
  k1 = k1
  d1 = d1
  d2 = d2
  n1 = n1
  n2 = n2
  Handlers = {h1, h2, h3}
  Keys = {k1, k2}
  Digests = {d1, d2}
  Names = {n1, n2}
  Name <- TwoNames
  Delegable = {n1}
  Resources = {r1, r2}
  Patient <- OnePatient
  NoRecord = NoRecord
  NoRow = NoRow
  NoRequest = NoRequest
  NoResource = NoResource
INVARIANTS
  RecordsMatchRows
  NamesAreUnique
  AnswersAgree
PROPERTIES
  ImplementsExactlyOnce
  EveryRequestIsAnswered
