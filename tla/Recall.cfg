SPECIFICATION Spec
CONSTANTS
  MaxLine = 2
  MaxHistory = 3
  MaxDown = 5
  PromptWidth = 1
  NUL = nul
  Letters <- RecallLetters
  Fold <- MCFold
  Bytes <- RecallBytes
  Words <- NoWords
  Unrecorded <- HistoryCommand
INVARIANTS
  HistoryFilled
PROPERTIES
  RecallIsCyclic
  TextLineSpec
CHECK_DEADLOCK FALSE
