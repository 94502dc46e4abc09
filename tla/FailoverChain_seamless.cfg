SPECIFICATION FairSpec
CONSTANTS
  Background = {b1}
  Seamless = TRUE
  MaxAuto = 1
  RequestLimit = 2
  BreakerLimit = 2
  MaxQueued = 0
CHECK_DEADLOCK FALSE
PROPERTIES ParkedWorkIsTakenUp
