SPECIFICATION Spec
CONSTANTS
  Tokens = {k1, k2, k3}
  Families = {f1, f2}
  Browsers = {b1}
  Calls = {c1, c2, c3}
  NoToken = NoToken
  MaxFaults = 1
SYMMETRY Symmetry
CHECK_DEADLOCK FALSE
INVARIANTS
  TypeOK
  EndedStaysEnded
  OneLiveToken
  SessionSurvives
