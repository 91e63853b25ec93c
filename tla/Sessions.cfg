SPECIFICATION FairSpec
CONSTANTS
  s1 = s1
  s2 = s2
  Session <- TwoSessions
  SEMVMX = 3
INVARIANTS
  TypeOK
  ExclusiveUnlessOverReleased
  LockNeverLost
  LinkIsCharged
PROPERTIES
  ImplementsLinkLock
  WaitersProceed
