SPECIFICATION FairSpec
CONSTANTS
  a = a
  b = b
  nameA = nameA
  nameB = nameB
  NoText = "empty"
  Cards = {a}
  Contents = {k1, k2, k3}
  Absent = Absent
  Torn = Torn
  BaseNames = {"SCEVMC0.VMP"}
  BaseName <- OneName
  GameOf <- OneDirectory
  Selections <- OneCard
  Resolver = {"none"}
  DryRun = FALSE
  TracksDevice = FALSE
  ReportsOrigin = FALSE
  AwayWhileOpen = FALSE
  FaultBudget = 0
  MaxTime = 4
  Endless = TRUE
PROPERTIES
  PassEnds
  LocalProgressReachesServer
  RemoteProgressReachesCard
