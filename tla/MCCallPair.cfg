SPECIFICATION Spec
CONSTANTS
  MaxCalls = 2
  MaxFaults = 1
INVARIANTS
  TypeOK
  CameraBelongsToCall
  NoCandidateLeft
  CallIsTimed
CHECK_DEADLOCK FALSE
