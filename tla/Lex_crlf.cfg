\* Long comments in a CRLF file.
CONSTANTS
  MaxAll = 0
  MaxComment = 0
  MaxLiteral = 0
  MaxSplice = 0
  MaxColumn = 0
  MaxLines = 0
  MaxCrlfLines = 0
  Width = 7
  Source <- LongComments
SPECIFICATION RewriteSpec
INVARIANT
  RefillsKeepTheEnding
CHECK_DEADLOCK FALSE
