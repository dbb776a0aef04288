CONSTANTS
  Threads = {t1, t2, t3}
  MaxRound = 3
SPECIFICATION FairSpec
INVARIANTS NobodyLeavesEarly
PROPERTIES EveryWaitReturns ImplementsAbstractBarrier
\* Each thread stops for good after MaxRound calls.
CHECK_DEADLOCK FALSE
