SPECIFICATION FairSpec
CONSTANTS
  a = a
  b = b
  p1 = p1
  p2 = p2
  Execs = {a, b}
  RootOf <- OwnRoots
  ParentOf <- OwnRoots
  Budget <- Reviews
  Calls = {1, 2, 3}
  Pods = {p1, p2}
  NoPod = NoPod
  Slots = {1, 2, 3, 4}
  NoSlot = NoSlot
  PoolSize = 1
  MaxRunning = 1
CHECK_DEADLOCK FALSE
CONSTRAINT
  TurnsOrReviews
INVARIANTS
  PausedHasReason
PROPERTIES
  QueuedEnds
