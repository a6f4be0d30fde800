SPECIFICATION FairSpec
CONSTANTS
  Emails = {e1, e2}
  Profiles = {p1, p2}
  NoEmail = NoEmail
  NoProfile = NoProfile
  MaxLinks = 1
  Calls = {c1, c2}
  Workers = {w1}
  NoWorker = NoWorker
  JobAttempts = 2
  MaxStalled = 1
  MaxFaults = 2
CHECK_DEADLOCK FALSE
INVARIANTS
  OneWayIn
  LinkWorksOnce
PROPERTIES
  SignupIsMailed
