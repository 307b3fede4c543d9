\* Every source of four bytes, and longer ones over the bytes of one concern:
\* comments, literals, splices and columns, and every file of four lines of comments, or of
\* three that end in CRLF.
CONSTANTS
  MaxAll = 4
  MaxComment = 7
  MaxLiteral = 6
  MaxSplice = 6
  MaxColumn = 5
  MaxLines = 4
  MaxCrlfLines = 3
  Width = 6
  Source <- MCSource
SPECIFICATION RewriteSpec
INVARIANTS
  SpansSayWhereTheyStand
  IndentIsBlank
  EveryByteOnce
  RefillsAreTheRuns
  FindsTheComments
CHECK_DEADLOCK FALSE
