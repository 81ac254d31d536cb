SPECIFICATION Spec
CONSTANTS
  Clients = {c1}
  Sessions = {s1, s2}
  SessionIds = {i1, i2}
  None = None
  MaxGen = 1
  MaxReadErrors = 0
  ClockMayJump = FALSE
SYMMETRY Symmetry
CHECK_DEADLOCK FALSE
INVARIANTS
  LiveSessionsAreListed
