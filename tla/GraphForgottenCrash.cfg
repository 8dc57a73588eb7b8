SPECIFICATION Spec
CONSTANTS
  a = a
  b = b
  p1 = p1
  p2 = p2
  Execs = {a}
  RootOf <- OwnRoots
  ParentOf <- OwnRoots
  Budget <- Crashes
  Calls = {1}
  Pods = {p1, p2}
  NoPod = NoPod
  Slots = {1, 2, 3, 4}
  NoSlot = NoSlot
  PoolSize = 1
  MaxRunning = 2
CHECK_DEADLOCK FALSE
INVARIANTS
  NothingForgotten
