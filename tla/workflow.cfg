SPECIFICATION Spec
CONSTANTS
  a = a b = b c = c NoId = NoId
  main = main other = other r1 = r1 r2 = r2
  err = err warn = warn
  Procs = {main, other}
  RunIds = {main, other, r1, r2}
  Codes = {err, warn}
  Findings = {err, warn}
  Errors = {err}
  MaxRuns = 2
  OldRuns <- MCOldRuns
  Files <- MCFiles
  Commands <- MCCommands
CHECK_DEADLOCK FALSE
INVARIANTS
  RunsAreTrue
  HistoryIsTrue
PROPERTIES
  TornFileIsLeftAlone
