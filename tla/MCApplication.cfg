SPECIFICATION Spec
CONSTANTS
  a1 = a1
  a2 = a2
  b1 = b1
  a = a
  b = b
  Cards = {a1, a2, b1}
  GameOf <- MCGameOf
  Place <- MCPlace
  MaxItems = 2
  Visible = 1
  NoGame = NoGame
  AllGames = AllGames
  ForeignSets <- MCForeignSets
  Stubborn = {"net", "unverified"}
  VerifyTls = FALSE
  Resolver = TRUE
  MaxPages = 2
INVARIANTS
  IndicesFit
  SyncGetsTheGame
  Layered
  NothingLeaks
  FileMeansSuccess
PROPERTIES
  ArmedGameSurvives
  SyncReturns
