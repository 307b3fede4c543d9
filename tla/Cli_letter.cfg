\* Every command line of one element.
CONSTANTS
  Char <- MCChar
  CommandLine <- MCCommandLine
  Digit <- MCDigit
  ColumnDefault = 7
  ColumnMax = 10
  PtrdiffMax = 12
  SizeMax = 15
  MaxAll = 1
  MaxFew = 1
SPECIFICATION Spec
INVARIANT
  EveryEarlierLetterIsRead
CHECK_DEADLOCK FALSE
