CONSTANTS
  SeqnoLimit = 5
  From = 1
  To = 0
  ForceIndex = FALSE
  MaxActiveTasks = 2
  LookBack = 1
  Task <- MCTask
  Blocks <- MCBlocks
  Txs <- MCOnes
  Msgs <- MCOnes
  BatchSize <- MCBatchSize
  MaxParallelInsertActors = 2
  MaxQueue <- MCMaxQueue
  KeepStates = 1
  FailStages = {"existing", "fetch", "parse"}
  MaxMcSeqno = 3
  MaxErrors = 1
  MaxCrashes = 1
SPECIFICATION Spec
INVARIANTS NoStaleAssemble QueueBound NothingLost HeldOnce SizeMatchesQueue
PROPERTIES ImplementsLedger
CHECK_DEADLOCK FALSE
