SPECIFICATION FairSpec
CONSTANTS
  t1 = t1
  t2 = t2
  t3 = t3
  Threads = {t1, t2, t3}
  ShortMax = 2
  ShortSpan = 3
  LongMax = 3
  LongSpan = 5
  Gap = 1
  MaxTries = 2
  Backoffs = {1}
INVARIANT LimitsKept
PROPERTY RequestEnds
