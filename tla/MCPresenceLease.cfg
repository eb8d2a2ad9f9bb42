SPECIFICATION Spec
CONSTANTS
  t1 = t1
  a1 = a1
  Tabs = {t1}
  Accounts = {a1}
  Owner <- OneAccount
  Legacy = {}
  LeaseTTL = 1
  SeqTTL = 2
  MaxDelay = 1
  MaxTime = 3
  MaxSeq = 3
INVARIANTS
  TypeOK
  NewestIntentWins
  AwayIsOffline
  LastSeenWasAlive
PROPERTIES
  SnapshotsInOrder
  LastSeenMonotone
  IntentSpec
CHECK_DEADLOCK FALSE
