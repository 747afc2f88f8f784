SPECIFICATION Spec
CONSTANTS
  NoText = "empty"
  Times <- MCTimes
  Sizes <- MCSizes
  Hashes <- MCHashes
  Devices <- MCDevices
  Long <- MCLong
  Within <- MCWithin
  Generic <- MCGeneric
  Locals <- MCLocals
  Candidates <- MCCandidates
  MaxCatalog = 3
  Dates <- MCDates
INVARIANTS
  NewerSideIsKept
  ClassificationIsSymmetric
  NoneMeansIndistinguishable
  OrderDoesNotMatter
  OtherPlatformsDoNotMatter
  SerialDecides
  DatesAreExact
\* One step per call: the evaluation ends there.
CHECK_DEADLOCK FALSE
