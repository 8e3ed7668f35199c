SPECIFICATION Spec
CONSTANTS
  MaxLine = 5
  MaxHistory = 2
  MaxDown = 3
  PromptWidth = 1
  NUL = nul
  Letters <- TwoLetters
  Fold <- MCFold
  Bytes <- EditBytes
  Words <- ForkedWords
  Unrecorded <- AllLines
INVARIANTS
  TypeOK
  LineIsString
  ScreenSync
PROPERTIES
  OnlyCompletionOverruns
  TextLineSpec
CHECK_DEADLOCK FALSE
