SPECIFICATION FairSpec
CONSTANTS
  Users = {u1}
  Kinds = {"final"}
  f1 = f1
  f2 = f2
  Firings = {f1, f2}
  KindOf <- OneKind
  Workers = {w1, w2}
  NoWorker = NoWorker
  JobAttempts = 1
  MaxStalled = 1
  LastDay = 2
  WorkingDays = {1}
  MaxFaults = 1
CHECK_DEADLOCK FALSE
INVARIANTS
  OnlyDueReminded
  PendingIsQueued
PROPERTIES
  StaysInHand
  FiredIsQueued
