SPECIFICATION Spec
CONSTANTS
  Texts <- TwoTexts
  NumMessages = 2
  NumBlocks = 3
  PipeRecords = 1
  MaxBlocks = 2
  MaxChars = 2
  MaxMessages = 1
  MaxTools = 1
INVARIANTS TextOnce NeverRepeats ToolStartsOnce
