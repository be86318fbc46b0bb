SPECIFICATION FairSpec
CONSTANTS
  Producers = {p1}
  Workers = {w1}
  Tokens = {t1, t2, t3, t4, t5}
  NoToken = NoToken
  MaxSequence = 3
  MaxAttempts = 2
  MaxLease = 1
  MaxRetryDelay = 1
  MaxClaimBatch = 2
  Skew = 0
  SubMicros = {0}
PROPERTIES
  EveryEventSettles
