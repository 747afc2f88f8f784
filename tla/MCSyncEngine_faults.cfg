SPECIFICATION Spec
CONSTANTS
  a = a
  b = b
  nameA = nameA
  nameB = nameB
  NoText = "empty"
  Cards <- MCCards
  Contents = {k1, k2, k3}
  Absent = Absent
  Torn = Torn
  BaseNames <- MCNames
  BaseName <- DistinctNames
  GameOf <- OneGame
  Selections <- WholeGame
  Resolver = {"none"}
  DryRun = FALSE
  TracksDevice = TRUE
  ReportsOrigin = FALSE
  AwayWhileOpen = FALSE
  FaultBudget = 1
  MaxTime = 3
  Endless = FALSE
SYMMETRY CardSymmetry
INVARIANTS
  TypeOK
  NothingLost
  DamageIsReported
  ReportAddsUp
  NoTempLeft
PROPERTIES
  VaultSpec
