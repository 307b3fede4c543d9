SPECIFICATION MCSpec
CONSTANTS
  Word <- MCWord
  Columns <- MCColumns
  Mark <- MCMark
  Bytes <- MCBytes
  Fused <- MCFused
  Width = 11
  MaxPass = 2
INVARIANTS
  RebuiltFillsCapacity
  FilledLinesFit
  OneLineFits
  LinesReadBack
  DescriptionsShareAColumn
PROPERTIES
  FixedPoint
  WordsSurvive
  LinesAdvance
CHECK_DEADLOCK FALSE
