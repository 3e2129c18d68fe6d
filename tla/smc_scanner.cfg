CONSTANTS
  west = west
  east = east
  Shard = {west, east}
  Accounts <- MCAccounts
  Kind <- MCKind
  BatchSize = 2
  IndexInterfaces = TRUE
  Indexed = {1}
  MaxFailures = 1
  MaxCrashes = 1
SPECIFICATION FairSpec
INVARIANTS NothingSkipped SameVersion
PROPERTIES ScanEnds
