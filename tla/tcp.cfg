SPECIFICATION FairSpec
CONSTANTS Conns = {c1, c2}
CHECK_DEADLOCK FALSE
INVARIANTS
  EventsAreTrue
  NothingOrphaned
  CleanStopIsComplete
PROPERTIES
  StopIsDoneWithAll
