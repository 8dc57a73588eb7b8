SPECIFICATION FairSpec
CONSTANTS
  Turns = {1, 2}
  NoTurn = NoTurn
  Slots = {1, 2}
  NoSlot = NoSlot
  Cancels = {c1}
  Readers = {r1}
  Pods = {p1, p2}
  NoPod = NoPod
  PoolSize = 2
  Budget <- AllTroubles
CHECK_DEADLOCK FALSE
CONSTRAINT
  OneAtATime
INVARIANTS
  FinishMeansOver
  ClosedMeansOver
  OneWorker
  OnlyDropsStrand
PROPERTIES
  EndsOnce
  CancelEndsTurn
  TurnsEnd
  ReadersEnd
