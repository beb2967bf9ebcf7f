SPECIFICATION FairSpec
CONSTANTS
  t1 = t1
  t2 = t2
  h1 = h1
  NoTask = NoTask
  Pending = Pending
  Tasks = {t1}
  Streams = {1, 2}
  Others = {h1}
  PoolSize = 1
  QueueCap = 2
  HistoryLimit = 2
  MaxCancels = 1
  MaxLogs = 1
  MaxFaults = 0
  MaxOpens = 2
  MaxStops = 0
INVARIANTS TypeOK VerdictsAgree GapsExplained
PROPERTY StreamTells
CHECK_DEADLOCK FALSE
