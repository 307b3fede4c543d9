\* Every command line of up to three elements, and of up to five over operands, two
\* options and "--".
CONSTANTS
  Char <- MCChar
  CommandLine <- MCCommandLine
  Digit <- MCDigit
  ColumnDefault = 7
  ColumnMax = 10
  PtrdiffMax = 12
  SizeMax = 15
  MaxAll = 3
  MaxFew = 5
SPECIFICATION Spec
INVARIANTS
  PathsInOrder
  ReadsLeftToRight
  OrderIsImmaterial
  RunsWhatWrapTakes
  ReadingAdvances
CHECK_DEADLOCK FALSE
