SPECIFICATION Spec
CONSTANTS
  w1 = w1
  w2 = w2
  Words = {w1, w2}
  Counts = {1}
  PoolSize = 1
  QueueCap = 2
  MaxLists = 2
  MaxFaults = 1
INVARIANTS SavedBeforeSync SyncedIsCloud ReworkExplained ViewsAgree
SYMMETRY WordSymmetry
CHECK_DEADLOCK FALSE
