SPECIFICATION DescriptionSpec
CONSTANTS
  Word <- MCWord
  Columns <- MCColumns
  Mark <- MCMark
  Bytes <- MCBytes
  Fused <- MCFused
  Width = 11
  MaxPass = 2
INVARIANTS
  DescriptionsReadBack
CHECK_DEADLOCK FALSE
