CONSTANTS
  SeqnoLimit = 4
  From = 1
  To = 0
  ForceIndex = FALSE
  MaxActiveTasks = 2
  LookBack = 1
  Task <- MCTask
  Blocks <- MCBlocks
  Txs <- MCOnes
  Msgs <- MCOnes
  BatchSize <- MCBatchSize
  MaxParallelInsertActors = 2
  MaxQueue <- MCMaxQueue
  KeepStates = 2
  FailStages = {"existing", "fetch", "parse"}
  MaxMcSeqno = 3
  MaxErrors = 1
  MaxCrashes = 0
SPECIFICATION FairSpec
INVARIANTS TypeOK
PROPERTIES EventuallyIndexed
CHECK_DEADLOCK FALSE
