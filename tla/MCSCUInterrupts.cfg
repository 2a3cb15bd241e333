CONSTANTS
  Bits = {0, 7, 8, 16}
  IMasks = {0, 7, 15}
  MaxRaises = 3
SPECIFICATION ServedSpec
INVARIANTS AckMatches NothingLeftWaiting
PROPERTIES AssertionHolds Committed Delivered
