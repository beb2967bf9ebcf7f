SPECIFICATION FairSpec
CONSTANTS
  w1 = w1
  w2 = w2
  Words = {w1}
  NoItem = NoItem
  StarveLimit = 1
  MaxRetries = 1
  FlushSize = 2
  MaxRequests = 2
  MaxTrouble = 1
PROPERTIES ItemsEnd WorkerEnds
CHECK_DEADLOCK FALSE
