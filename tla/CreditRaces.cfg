SPECIFICATION Spec
CONSTANTS
  Calls = {t1, t2}
  NoCall = NoCall
  Execs = {e1}
  Sessions = {s1}
  Rewards = {r1}
  Cost = 1
  Reward = 1
  TopUp = 2
  Threshold = 2
  IntMax = 3
  Histories = {1}
  NoRow = NoRow
  MaxCalls = 3
  MaxFaults = 1
CHECK_DEADLOCK FALSE
INVARIANTS
  NoIncorrectBalance
