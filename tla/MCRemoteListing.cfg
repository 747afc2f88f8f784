SPECIFICATION Spec
CONSTANTS
  NoText = "empty"
  Long <- NoLabels
  Within <- NoLabels
  Generic <- NoLabels
  Rows <- MCRows
  InitialServers <- MCServers
  Locals <- MCLocals
  ReportsTotal = TRUE
  PageLimit = 2
  MaxItems = 3
  MaxRows = 4
  MaxChanges = 1
INVARIANTS
  TypeOK
  RomsListedOnce
  ListingKeepsLatest
  LocalMeetsItsLatest
PROPERTIES
  ListingEnds
\* A listing that has ended or failed is not taken up again.
CHECK_DEADLOCK FALSE
