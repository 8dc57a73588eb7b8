SPECIFICATION FairSpec
CONSTANTS
  l1 = l1
  l2 = l2
  podA = podA
  podB = podB
  NoOwner = NoOwner
  Locks = {l1, l2}
  Owners = {podA, podB}
  OwnerOf <- MCOwnerOf
  Timeout = 20
  MaxGap = 14
  MaxLatency = 1
  MaxFaults = 1
  FaultOps = {"acquire", "refresh", "release"}
CHECK_DEADLOCK FALSE
INVARIANTS
  ExclusiveUntilError
PROPERTIES
  DeletesOnlyOwnKey
  RefreshesOnlyOwnKey
  AbandonedKeyExpires
  ImplementsLock
