SPECIFICATION Spec
CONSTANTS
    Runtimes = {"go", "node"}
    Savers = {s1, s2}
    Lists = {l1, l2}
    BadFiles = {b1, b2}
    GoFiles = {g1}
    Names = 2
    MaxEdits = 1
    Absent = Absent
    Torn = Torn
SYMMETRY Alike
INVARIANTS
  AckedSaveSurvives
  NothingFoundIsLost
PROPERTIES
  ImplementsAtomicFile
