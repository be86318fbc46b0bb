SPECIFICATION Spec
CONSTANTS
  Producers = {p1, p2}
  Workers = {w1, w2}
  Tokens = {t1, t2, t3, t4}
  NoToken = NoToken
  MaxSequence = 3
  MaxAttempts = 2
  MaxLease = 1
  MaxRetryDelay = 1
  MaxClaimBatch = 2
  Skew = 0
  SubMicros = {0}
SYMMETRY Symmetry
INVARIANTS
  SequencesAreGapFree
  ClaimsAreExclusive
  AttemptsHaveOneOwner
PROPERTIES
  ImplementsFencedQueue
