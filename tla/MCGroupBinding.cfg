SPECIFICATION FairSpec
CONSTANTS
  t1 = t1
  t2 = t2
  u1 = u1
  u2 = u2
  p1 = p1
  p2 = p2
  Tabs = {t1, t2}
  Users = {u1, u2}
  Viewer <- OneOwner
  GroupOwner = u1
  Procs = {p1, p2}
  MaxOpens = 1
  Faults = {"prepare", "tinode", "verify", "database", "reply", "client"}
  None = None
INVARIANTS
  TypeOK
  GroupOwnerOwnsTopic
  PersistedTopicLive
  FailedBindReturnsTopic
PROPERTIES
  BindsAnswered
CHECK_DEADLOCK FALSE
