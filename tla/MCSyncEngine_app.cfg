SPECIFICATION Spec
CONSTANTS
  a = a
  b = b
  nameA = nameA
  nameB = nameB
  NoText = "empty"
  Cards = {a}
  Contents = {k1, k2, k3, k4}
  Absent = Absent
  Torn = Torn
  BaseNames = {"SCEVMC0.VMP"}
  BaseName <- OneName
  GameOf <- OneDirectory
  Selections <- OneCard
  Resolver = {}
  DryRun = FALSE
  TracksDevice = TRUE
  ReportsOrigin = TRUE
  AwayWhileOpen = TRUE
  FaultBudget = 3
  MaxTime = 6
  Endless = FALSE
SYMMETRY ContentSymmetry
INVARIANT
  SkipUnchangedIsSound
PROPERTY
  CardsAreOnlyRead
