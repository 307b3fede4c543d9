\* Every short text over the bytes of hex runs, of quantities and of spans.
CONSTANTS
  MaxHex = 8
  MaxTab = 6
  MaxNumber = 6
  MaxUnit = 8
  MaxQuantity = 7
  MaxSpan = 6
  Widths = {1, 2, 3, 4, 5, 6, 7, 8}
  Text <- MCText
SPECIFICATION MCSpec
INVARIANTS
  AtomsAreWhole
  KeepsTogether
  SplitsBack
CHECK_DEADLOCK FALSE
