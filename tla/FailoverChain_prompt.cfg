SPECIFICATION Spec
CONSTANTS
  Background = {b1}
  Seamless = FALSE
  MaxAuto = 1
  RequestLimit = 3
  BreakerLimit = 2
  MaxQueued = 1
CHECK_DEADLOCK FALSE
PROPERTIES InjectedPromptIsNotTheUser
