SPECIFICATION FairSpec
CONSTANTS
  Clients = {c1, c2}
  Sessions = {s1, s2}
  SessionIds = {i1, i2}
  None = None
  MaxGen = 1
  MaxReadErrors = 1
  ClockMayJump = TRUE
CHECK_DEADLOCK FALSE
INVARIANTS
  MappedSessionsAreUsable
  EverySocketHasACloser
  NoGhostEntries
  PacketsLostOnlyToTimeouts
PROPERTIES
  RenewedSessionsStay
  StopCleansUp
