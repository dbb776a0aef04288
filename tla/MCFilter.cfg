CONSTANTS
  Items = {0, 1, 2, 3}
  Processors = 2
  MaxPass = 2
SPECIFICATION FairSpec
INVARIANTS FilterInv PassComplete
PROPERTIES PassEnds
\* The exploration stops after MaxPass passes.
CHECK_DEADLOCK FALSE
CONSTANT NULL = NULL
