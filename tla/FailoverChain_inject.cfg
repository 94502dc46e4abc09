SPECIFICATION Spec
CONSTANTS
  Background = {b1, b2}
  Seamless = FALSE
  MaxAuto = 1
  RequestLimit = 3
  BreakerLimit = 2
  MaxQueued = 1
CONSTRAINT TwoInFlight
SYMMETRY Interchangeable
CHECK_DEADLOCK FALSE
INVARIANTS TypeOK Quiet ParkedWorkHasWake Budget
PROPERTIES OnlyCurrentChainActs SupersededIsInert
