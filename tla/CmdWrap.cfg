\* Three paths on the command line, so that a file is given twice around another,
\* or two of them and another process that edits a file at any point of the run.
CONSTANTS
  Path = {a, b}
  Stdin = stdin
  Content <- MCContent
  Unreadable = unreadable
  Wrap <- MCWrap
  MaxInputs = 3
  MaxFaults = 1
  MaxEdits = 1
SPECIFICATION MCSpec
INVARIANTS
  BadInputWritesNothing
  OldOrWrappedOnce
  OutputIsPrefix
  LogInPathOrder
  ReportsEveryInput
  ExitTellsTheTruth
  OnlyWrapsLeaveTheRun
PROPERTIES
  OomReportIsTrue
  RunEnds
CHECK_DEADLOCK FALSE
