SPECIFICATION FairSpec
CONSTANTS
  Producers = {p1}
  Workers = {w1, w2}
  Tokens = {t1, t2, t3, t4}
  NoToken = NoToken
  MaxSequence = 2
  MaxAttempts = 3
  MaxLease = 1
  MaxRetryDelay = 2
  MaxClaimBatch = 1
  Skew = 1
  SubMicros = {0}
INVARIANTS
  SweptOnlyWhenExhausted
PROPERTIES
  NoEarlyTakeover
  SettledIsFinal
  SettledOrParked
