SPECIFICATION AgainSpec
CONSTANTS
  Word <- MCWord
  Columns <- MCColumns
  Mark <- MCMark
  Bytes <- MCBytes
  Fused <- MCFused
  Width = 11
  MaxPass = 2
PROPERTIES
  FixedPoint
CHECK_DEADLOCK FALSE
