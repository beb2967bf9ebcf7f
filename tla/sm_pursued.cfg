SPECIFICATION Spec
CONSTANTS
  w1 = w1
  w2 = w2
  Words = {w1, w2}
  NoItem = NoItem
  StarveLimit = 1
  MaxRetries = 1
  FlushSize = 2
  MaxRequests = 1
  MaxTrouble = 1
INVARIANTS UnsyncedPursued NoStarvation SyncedWasTrue ExitRecorded
SYMMETRY WordSymmetry
CHECK_DEADLOCK FALSE
