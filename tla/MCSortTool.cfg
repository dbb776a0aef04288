CONSTANTS
  ValueSize = 2
  Crc <- Crcs
  BloomSetBits = 2
  Options <- CommandLines
  Sorts <- Edges
  NULL = NULL
SPECIFICATION FairSpec
INVARIANTS ToolInv OutputExact
PROPERTIES ToolEnds
\* The tool ends.
CHECK_DEADLOCK FALSE
