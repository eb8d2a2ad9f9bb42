SPECIFICATION Spec
CONSTANTS
  u1 = u1
  u2 = u2
  u3 = u3
  s1 = s1
  s2 = s2
  Users = {u1, u2, u3}
  Owner = u1
  Slots = {s1, s2}
  ApproveMembers = TRUE
  Faults = {"reject", "lost", "commit"}
  MaxFaults = 2
  MaxRequests = 3
  None = None
SYMMETRY Symmetry
INVARIANTS
  TypeOK
  OneOwner
  SettledTopic
PROPERTIES
  CommitsFollowTinode
CHECK_DEADLOCK FALSE
