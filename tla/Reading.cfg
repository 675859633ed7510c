SPECIFICATION FairSpec
CONSTANTS
  Widths <- Widths123
  MaxDeltas = 2
  Budget = 4
  PartialBudget = 4
  Header = 1
  WarningSize = 1
  TerminalSize = 2
  Readers = {1, 2}
  Followers = {1}
  Pages <- ShortPages
  MaxOutputs = 1
INVARIANTS
  SequenceGrows
  DropIsAnnounced
  NoLostWakeup
  PagesMissNothing
  RetainedIsPrinted
PROPERTIES
  EndReachesReaders
CHECK_DEADLOCK FALSE
