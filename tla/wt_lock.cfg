SPECIFICATION FairSpec
CONSTANTS
  t1 = t1
  t2 = t2
  h1 = h1
  NoTask = NoTask
  Pending = Pending
  Tasks = {t1, t2}
  Streams = {1}
  Others = {}
  PoolSize = 2
  QueueCap = 2
  HistoryLimit = 3
  MaxCancels = 1
  MaxLogs = 0
  MaxFaults = 1
  MaxOpens = 0
  MaxStops = 1
INVARIANTS OneTaskRuns CanceledNeverRuns
PROPERTIES LockComesBack TaskEnds
CHECK_DEADLOCK FALSE
