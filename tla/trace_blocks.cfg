CONSTANTS
  Trace <- MCTrace
  Account = {"A", "B"}
  Out <- MCOut
  RealOut <- MCRealOut
  Dest <- MCDest
  Real <- MCReal
  MaxDepth = 2
  MaxFailures = 1
  MaxMcSeqno = 4
  ShardTxs <- MCShardTxs
  Lt <- MCLt
  IsFirst = {"a", "f"}
  Broadcast = {"a"}
  Listed = {"f"}
  MaxBroadcasts = 2
  Configured = {{"overlay"}, {"list"}}
SPECIFICATION FairSpec
INVARIANTS RightTrace EmulatedInOrder StaleOnlyByRace
PROPERTIES TraceEnds CatchesUp
CHECK_DEADLOCK FALSE
