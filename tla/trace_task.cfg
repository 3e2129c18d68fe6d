CONSTANTS
  Trace = {"t", "u"}
  Account = {"A", "B", "C"}
  Root <- MCRoot
  Out <- MCOut
  RealOut <- MCOut
  Dest <- MCDest
  Real <- MCReal
  MaxDepth = 3
  MaxFailures = 1
  DetectInterfaces = {"t"}
  MaxMcSeqno = 3
  MaxCrashes = 1
SPECIFICATION FairSpec
INVARIANTS DetectionNotOlder DeliveredIsWhole NoLostUpdate
PROPERTIES TaskEnds
