SPECIFICATION FairSpec
CONSTANTS
  d1 = d1
  g1 = g1
  Deliveries = {d1}
  Digests = {g1}
  NoDigest = NoDigest
  DigestOf <- Alone
  Workers = {w1, w2}
  NoWorker = NoWorker
  MaxAttempts = 5
  JobAttempts = 5
  MaxStalled = 1
  CanLoseLock = TRUE
  MaxFaults = 3
INVARIANTS
  ClaimsAreTrue
  PostsBounded
PROPERTIES
  SettledIsFinal
  JobsRunOut
  EnqueuedIsSettled
