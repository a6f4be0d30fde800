SPECIFICATION Spec
CONSTANTS
  Users = {u1}
  LastDay = 2
  WorkingDays = {1}
  MaxFirings = 1
  Resends = {r1}
  MaxChanges = 0
  Generators = {g1, g2}
  NoGenerator = NoGenerator
  Workers = {w1}
  NoWorker = NoWorker
  MaxAttempts = 1
  JobAttempts = 1
  MaxStalled = 1
  CanLoseLock = TRUE
  MaxFaults = 1
SYMMETRY Symmetry
CHECK_DEADLOCK FALSE
INVARIANTS
  TypeOK
  PendingIsQueued
PROPERTIES
  KeepsPromise
