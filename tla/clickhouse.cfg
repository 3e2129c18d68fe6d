CONSTANTS
  SeqnoLimit = 4
  From = 1
  To = 2
  ForceIndex = FALSE
  MaxActiveTasks = 2
  LookBack = 1
  Task <- MCTask
  Blocks <- MCOnes
  Txs <- MCOnes
  Msgs <- MCOnes
  BatchSize <- MCBatchSize
  MaxParallelInsertActors = 2
  MaxQueue <- MCMaxQueue
  TxsOf <- MCTxsOf
  Null = Null
  MaxMcSeqno = 3
  MaxErrors = 1
  MaxCrashes = 1
SPECIFICATION FairSpec
INVARIANTS CompleteBlocks ExactRows
PROPERTIES IndexedOrEnded
