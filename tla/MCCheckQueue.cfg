SPECIFICATION Spec
CONSTANTS
  w1 = w1
  w2 = w2
  m = m
  c1 = c1
  c2 = c2
  bad = bad
  Workers <- MCWorkers
  Master = m
  Nobody = Nobody
  Checks <- MCChecks
  Good <- MCGood
  nBatchSize = 2
  MaxSpurious = 1
INVARIANTS
  VerdictSound
  NothingLeftBehind
  QuietBetweenBlocks
PROPERTY
  WaitReturns
