SPECIFICATION StreamSpec
CONSTANTS
  TmpSize = 5
  Debris = 165
  Values = {1431655765, 2147483647}
  Widths = {0, 1, 7, 31}
  MaxFields = 3
  MaxTaken = 4
  Extra = {0, 2}
INVARIANTS
  Packed
  ReadBack
CHECK_DEADLOCK FALSE
