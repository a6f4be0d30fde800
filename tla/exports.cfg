SPECIFICATION FairSpec
CONSTANTS
  Exports = {e1}
  Standups = {s1, s2}
  Workers = {w1, w2}
  NoWorker = NoWorker
  JobAttempts = 3
  MaxStalled = 1
  MaxFaults = 3
CHECK_DEADLOCK FALSE
INVARIANTS
  DownloadIsWhole
  PendingIsRetried
PROPERTIES
  EndIsFinal
  JobsRunOut
  UndisturbedEnds
