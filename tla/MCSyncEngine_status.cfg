SPECIFICATION Spec
CONSTANTS
  a = a
  b = b
  nameA = nameA
  nameB = nameB
  NoText = "empty"
  Cards = {a}
  Contents = {k1, k2, k3}
  Absent = Absent
  Torn = Torn
  BaseNames = {"SCEVMC0.VMP"}
  BaseName <- OneName
  GameOf <- OneDirectory
  Selections <- OneCard
  Resolver = {}
  DryRun = FALSE
  TracksDevice = TRUE
  ReportsOrigin = TRUE
  AwayWhileOpen = FALSE
  FaultBudget = 1
  MaxTime = 3
  Endless = FALSE
SYMMETRY ContentSymmetry
INVARIANT
  ErrorsAreNotConflicts
