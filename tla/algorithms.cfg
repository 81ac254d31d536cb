SPECIFICATION Spec
CONSTANTS
  Absent = Absent
  Null = Null
  Mistyped = Mistyped
  None = None
  CreateRequests <- MCCreateRequests
  Patches <- MCPatches
  Texts <- MCTexts
  MaxPatches = 1
  RuleForms <- MCRuleForms
  FirstConfigs <- MCFirstConfigs
  PolicyFiles <- MCPolicyFiles
  Omitted = Omitted
  Missing = Missing
  Damaged = Damaged
  MaxRules = 3
  MaxEdits = 2
  Workflows = {"w1", "w2"}
  StepIds <- MCStepIds
  PolicyCodes = {"p1"}
  PlanCodes = {"v1", "v2"}
  MaxSaved = 2
  Services <- MCServices
  CliArgs = {"1", "x", "y", "g"}
  BadGroups = {"bad"}
  NoArg = NoArg
  ConfigFiles <- MCConfigFiles
  NewIds = {"n", "m"}
  Strays <- MCStrays
  MaxChanges = 1
  p1 = p1
  p2 = p2
  Writers = {p1, p2}
  BundleFiles <- MCBundleFiles
  FirstFiles <- MCFirstFiles
  MaxSaves = 1
  MaxSeconds = 1
SYMMETRY MCSymmetry
CHECK_DEADLOCK FALSE
INVARIANTS
  StoredRulesTravel
  RequestsMeanTheSame
  PoliciesTellTheTruth
  ReplayTellsTheTruth
  CommandsTellTheTruth
  FilesAreWhole
