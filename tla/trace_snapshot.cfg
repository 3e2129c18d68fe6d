CONSTANTS
  Tx <- MCTx
  Msg <- MCMsg
  NoMsg = "none"
  In <- MCIn
  Source <- MCSource
  Outs <- MCOuts
  Logs <- MCLogs
  Lt <- MCLt
  Account <- MCAccount
  SizeLimit = 16
  KeepStates = 2
  Layouts <- MCLayouts
  LastBlock = 4
  LookBack = 2
  PromptSave = FALSE
  MaxCrashes = 1
SPECIFICATION Spec
INVARIANTS NoTraceMissed
CHECK_DEADLOCK FALSE
