SPECIFICATION Spec
CONSTANTS
  r1 = r1
  r2 = r2
  r3 = r3
  b1 = b1
  b2 = b2
  t1 = t1
  g1 = g1
  RuleIds = {r1, r2, r3}
  Bindings = {b1, b2}
  Targets = {t1, t2}
  Groups = {}
  NoGroup = NoGroup
  Forwarders = {f1, f2, f3}
  NoForwarder = NoForwarder
  Free = Free
  SavedFiles <- MCSavedFiles
  Imports <- MCImports
  SaveOutcomes = {"saved", "failed", "lost"}
  DuplicateIds = FALSE
  MaxRules = 2
  MaxDamage = 1
INVARIANTS
  TypeOK
  NoLeakedSocket
  SocketsServeTheirRules
  DiskMatchesMemory
  BadFilesPreserved
PROPERTIES
  NoNewDuplicateBinding
  BootDealsWithEveryEnabledRule
