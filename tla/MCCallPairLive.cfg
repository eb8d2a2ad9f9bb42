SPECIFICATION Spec
CONSTANTS
  MaxCalls = 1
  MaxFaults = 3
PROPERTIES
  NobodyHangs
CHECK_DEADLOCK FALSE
