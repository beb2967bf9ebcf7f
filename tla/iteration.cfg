SPECIFICATION Spec
CONSTANTS
  w1 = w1
  w2 = w2
  Words = {w1, w2}
  Progress <- MCProgress
  Learned <- MCLearned
  QueueCap = 3
  MaxRuns = 2
  MaxEvents = 1
  MaxFaults = 2
INVARIANTS HistoryBacked CloudBehind
PROPERTY PadKept
SYMMETRY WordSymmetry
CHECK_DEADLOCK FALSE
