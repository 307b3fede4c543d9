SPECIFICATION FusedSpec
CONSTANTS
  Word <- MCWord
  Columns <- MCColumns
  Mark <- MCMark
  Bytes <- MCBytes
  Fused <- MCFused
  Width = 11
  MaxPass = 2
PROPERTIES
  NoWordIsFused
CHECK_DEADLOCK FALSE
