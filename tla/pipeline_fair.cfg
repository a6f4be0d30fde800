SPECIFICATION FairSpec
CONSTANTS
  Users = {u1}
  LastDay = 1
  WorkingDays = {1}
  MaxFirings = 1
  Resends = {}
  MaxChanges = 1
  Generators = {g1, g2}
  NoGenerator = NoGenerator
  Workers = {w1}
  NoWorker = NoWorker
  MaxAttempts = 2
  JobAttempts = 2
  MaxStalled = 1
  CanLoseLock = TRUE
  MaxFaults = 1
CHECK_DEADLOCK FALSE
INVARIANTS
  EarlyStandupsReported
  LedgersAgree
PROPERTIES
  UndisturbedIsSettled
