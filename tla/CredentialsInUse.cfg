SPECIFICATION Spec
CONSTANTS
  t1 = t1
  t2 = t2
  t3 = t3
  m1 = m1
  m2 = m2
  oauth = oauth
  apikey = apikey
  Tasks = {t1, t2, t3}
  Managers = {m1, m2}
  ManagerOf <- MCManagerOf
  NoTask = NoTask
  Creds = {oauth, apikey}
  OAuth = {oauth}
  Lists <- MCLists
  Free = Free
  MaxRequests = 2
  MaxFaults = 1
  MaxAges = 1
CHECK_DEADLOCK FALSE
CONSTRAINT
  OneThingAtATime
INVARIANTS
  UsedIsCurrent
