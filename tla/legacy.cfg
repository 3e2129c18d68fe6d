CONSTANTS
  SeqnoLimit = 3
  From = 0
  To = 0
  ForceIndex = FALSE
  MaxActiveTasks = 2
  LookBack = 1
  Task <- MCTask
  Blocks <- MCOnes
  Txs <- MCOnes
  Msgs <- MCOnes
  BatchSize <- MCSize
  MaxParallelInsertActors = 2
  MaxQueue <- MCMaxQueue
  Block <- MCTask
  Account <- MCAccount
  Kind <- MCKind
  StatesOf <- MCStatesOf
  TransfersOf <- MCTransfersOf
  CodeOf <- MCCodeOf
  DataOf <- MCDataOf
  Method <- MCMethod
  Parent <- MCParent
  Nobody = "nobody"
  Recognises <- MCRecognises
  MessagesOf <- MCMessagesOf
  BodiesOf <- MCBodiesOf
  McSeqno = 2
  MaxErrors = 1
  MaxCrashes = 1
  MaxFailures = 1
SPECIFICATION FairSpec
INVARIANTS MessagesKept RowsCurrent OnlyRecognised
PROPERTIES EventuallyStored
