CONSTANTS
  Oldest = 1
  OldestState = 3
  Damaged <- MCDamaged
  FetchParallelism = 2
  ParseParallelism = 2
  QueueMaxSize = 0
  FirstMcSeqno = 8
  MaxMcSeqno = 9
  MaxRestarts = 1
SPECIFICATION FairSpec
INVARIANTS SuccessMeansFetched SearchBrackets CheckpointBelowGap
PROPERTIES Terminates
CHECK_DEADLOCK FALSE
