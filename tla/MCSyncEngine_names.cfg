SPECIFICATION Spec
CONSTANTS
  a = a
  b = b
  nameA = nameA
  nameB = nameB
  NoText = "empty"
  Cards <- MCCards
  Contents = {k1, k2, k3}
  Absent = Absent
  Torn = Torn
  BaseNames = {"SCEVMC0.VMP", "SCEVMC1.VMP"}
  BaseName <- EqualNames
  GameOf <- TwoGames
  Selections <- WholeGame
  Resolver = {"none"}
  DryRun = FALSE
  TracksDevice = TRUE
  ReportsOrigin = FALSE
  AwayWhileOpen = FALSE
  FaultBudget = 0
  MaxTime = 3
  Endless = FALSE
SYMMETRY ContentSymmetry
INVARIANT
  NothingLost
