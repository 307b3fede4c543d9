\* The same texts, two spaces in a row and tabs included.
CONSTANTS
  MaxHex = 8
  MaxTab = 6
  MaxNumber = 6
  MaxUnit = 8
  MaxQuantity = 7
  MaxSpan = 6
  Widths = {1, 2, 3, 4, 5, 6, 7, 8}
  Text <- MCText
SPECIFICATION MCSpec
INVARIANTS
  SecondRewrapIsFixed
CHECK_DEADLOCK FALSE
