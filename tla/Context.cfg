SPECIFICATION Spec
CONSTANTS
  Scenarios = {"routes", "others", "walk", "access", "whole", "commit", "wakes", "once", "pause", "trim", "record", "again", "goes", "ends"}
PROPERTIES RoutesTried ContextComplete 
CHECK_DEADLOCK FALSE
