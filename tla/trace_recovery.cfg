CONSTANTS
  Tx <- MCTx
  Msg <- MCMsg
  NoMsg = "none"
  In <- MCIn
  Source <- MCSource
  Outs <- MCOuts
  Logs <- MCLogs
  Lt <- MCLt
  Account <- MCAccount
  SizeLimit = 16
  KeepStates = 2
  Layouts <- MCLayouts
  LastBlock = 4
  LookBack = 2
  PromptSave = TRUE
  MaxCrashes = 1
SPECIFICATION Spec
INVARIANTS RowsExact NoTraceMissed TraceIdIsRoot
CHECK_DEADLOCK FALSE
