SPECIFICATION SharedFairSpec
CONSTANTS
  Clients = {c1, c2}
  SessionIds = {i1, i2, i3, i4}
  None = None
  Modes = {"one-way", "bidirectional-last-client"}
CHECK_DEADLOCK FALSE
INVARIANTS
  MapsAgree
  ListingIsCurrent
PROPERTIES
  StopEnds
