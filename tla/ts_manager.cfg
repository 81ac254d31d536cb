SPECIFICATION Spec
CONSTANTS
    Requests = {q1, q2}
    RuleIds = {i1, i2}
    Bindings = {b1, b2}
    Forwarders = {f1, f2, f3}
    None = None
    MaxOverlaps = 1
SYMMETRY Symmetric
CHECK_DEADLOCK FALSE
INVARIANTS
  StateIsSound
  EverythingIsAnswered
PROPERTIES
  FailedSaveRestores
