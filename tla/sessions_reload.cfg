SPECIFICATION Spec
CONSTANTS
  Tokens = {k1, k2, k3}
  Families = {f1}
  Browsers = {b1}
  Calls = {c1, c2}
  NoToken = NoToken
  MaxFaults = 0
CHECK_DEADLOCK FALSE
INVARIANTS
  ReloadKeepsSession
