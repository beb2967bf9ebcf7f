SPECIFICATION Spec
CONSTANTS
  w1 = w1
  w2 = w2
  w3 = w3
  s1 = s1
  c1 = c1
  c2 = c2
  Writes = {w1, w2}
  BadWrites = {}
  Updates = {}
  Saves = {s1}
  NoItem = NoItem
  Clients = {c1, c2}
  QueueCap = 1
  BatchThreshold = 2
  MaxAttempts = 2
  MaxFaults = 1
  MaxBoots = 2
  MaxCleanups = 0
  MaxRecoveries = 1
  MaxWarmups = 0
INVARIANTS TypeOK HandledInOrder SettledAccounted AppliedInOrder
CHECK_DEADLOCK FALSE
PROPERTY KeepsLog
SYMMETRY Symmetry
