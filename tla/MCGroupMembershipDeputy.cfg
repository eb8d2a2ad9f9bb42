SPECIFICATION Spec
CONSTANTS
  u1 = u1
  u2 = u2
  u3 = u3
  s1 = s1
  s2 = s2
  Users = {u1, u2, u3}
  Owner = u1
  Slots = {s1}
  ApproveMembers = TRUE
  Faults = {}
  MaxFaults = 0
  MaxRequests = 2
  None = None
INVARIANTS
  NothingToUndo
CHECK_DEADLOCK FALSE
