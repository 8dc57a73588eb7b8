SPECIFICATION FairSpec
CONSTANTS
  a = a
  b = b
  p1 = p1
  p2 = p2
  Execs = {a}
  RootOf <- OwnRoots
  ParentOf <- OwnRoots
  Budget <- Stops
  Calls = {1}
  Pods = {p1, p2}
  NoPod = NoPod
  Slots = {1, 2, 3, 4}
  NoSlot = NoSlot
  PoolSize = 1
  MaxRunning = 2
CHECK_DEADLOCK FALSE
PROPERTIES
  CancelReachesRun
