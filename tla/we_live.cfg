SPECIFICATION FairSpec
CONSTANTS
  w1 = w1
  w2 = w2
  w3 = w3
  s1 = s1
  c1 = c1
  c2 = c2
  Writes = {w1, w2}
  BadWrites = {w1}
  Updates = {w2}
  Saves = {}
  NoItem = NoItem
  Clients = {c1}
  QueueCap = 1
  BatchThreshold = 2
  MaxAttempts = 2
  MaxFaults = 1
  MaxBoots = 1
  MaxCleanups = 1
  MaxRecoveries = 0
  MaxWarmups = 1
INVARIANT DrainedOnJoin
PROPERTIES AcceptedDecided CommittedReachCloud ShutdownEnds
CHECK_DEADLOCK FALSE
