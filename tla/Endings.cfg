SPECIFICATION Spec
CONSTANTS
  Scenarios = {"wake", "whole", "parked", "replaced", "reading", "gap", "start", "life", "slots", "stream", "auth", "lock"}
  Missing = Missing
  StandIn = StandIn
  OldStandIn = OldStandIn
PROPERTIES AskedIsAnswered StateSettles
CHECK_DEADLOCK FALSE
