SPECIFICATION FairSpec
CONSTANTS
  A = A
  B = B
  C = C
  Nodes = {A, B, C}
  Shapes <- AllGraphs
CHECK_DEADLOCK FALSE
INVARIANTS
  TypeOK
  OutputsArrive
  ConsumedInOrder
  QueuedOnce
  NothingStuck
  WaitsForAllNodes
  EndsSettled
PROPERTIES
  RunEnds
