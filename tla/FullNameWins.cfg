SPECIFICATION Spec
CONSTANTS
  Commands <- mcCommands
  Cmd <- mcCmd
  Letters <- mcLetters
  Early <- mcEarly
  Lines <- mcLines
  Texts <- mcTexts
  BadPatterns <- mcBadPatterns
  MaxWords = 8
  MaxOutput = 3
INVARIANT
  FullNameWins
