CONSTANTS
  chip1 = chip1
  Chips = {chip1}
  NaN = NaN
  W = 6
  Rate = 1
  Limit = 2
  Size1m = 2
  Size10m = 2
  Size1h = 2
  MaxGap = 2
  MaxEarned = 2
  MaxBlind = 1
SPECIFICATION Spec
INVARIANTS
  RateIsTrue
  WindowForgets
  CreditBounded
