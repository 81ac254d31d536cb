SPECIFICATION FairSpec
CONSTANTS
  r1 = r1
  r2 = r2
  r3 = r3
  b1 = b1
  b2 = b2
  t1 = t1
  g1 = g1
  RuleIds = {r1, r2, r3}
  Bindings = {b1, b2}
  Targets = {t1}
  Groups = {g1}
  NoGroup = NoGroup
  Forwarders = {f1, f2, f3}
  NoForwarder = NoForwarder
  Free = Free
  SavedFiles <- MCGroupFiles
  Imports <- MCGroupImports
  SaveOutcomes = {"saved"}
  DuplicateIds = FALSE
  MaxRules = 2
  MaxDamage = 0
INVARIANTS
  RunningIsListening
PROPERTIES
  PassesEnd
