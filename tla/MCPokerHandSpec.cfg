CONSTANTS
  N = 3
  SeatOf <- SeatMap
  BuyIns = {3, 5, 7}
  BigBlind = 2
SPECIFICATION Spec
INVARIANT NobodyWinsUnmatchedChips
CHECK_DEADLOCK FALSE
