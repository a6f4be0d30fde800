SPECIFICATION Spec
CONSTANTS
  u1 = u1
  u2 = u2
  c1 = c1
  c2 = c2
  Users = {u1, u2}
  Ids = {1, 2, 3}
  Calls = {c1, c2}
  Limit = 1
  DaysPerWeek = 2
  Settings <- WorkingDays
  LastDay = 2
  MaxUpdates = 1
  MaxShift = 0
  Beside = 1
SYMMETRY Symmetry
INVARIANTS
  TypeOK
  OnePerDay
  OnTimeIsOnTime
  PagesComplete
  CountsAgree
  
