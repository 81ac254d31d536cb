SPECIFICATION Spec
CONSTANTS
  a = a b = b c = c e = e g = g
  k1 = k1 k2 = k2 t1 = t1 t2 = t2
  NoId = NoId
  Ids = {a, b, c, e, g}
  Keys = {k1, k2}
  Targets = {t1, t2}
  StartRules <- MCStartRules
  Files <- MCFiles
  MaxEdits = 1
SYMMETRY Symmetry
INVARIANTS
  AppliesAreTrue
  ResultsAreHonest
PROPERTIES
  ConsentBeforeLoss
