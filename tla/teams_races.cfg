SPECIFICATION Spec
CONSTANTS
  u1 = u1
  u2 = u2
  u3 = u3
  Users = {u1, u2, u3}
  Owner = u1
  Invitations = {i1, i2}
  Calls = {c1, c2}
SYMMETRY Symmetry
CHECK_DEADLOCK FALSE
INVARIANTS
  TypeOK
  SingleOwner
  UndisturbedIsRight
  PendingBounded
