\* Three blocks, a fork after the first; the depth of tests/config.txt.
SPECIFICATION Spec
CONSTANTS
  NoVal = NoVal
  Null = NoVal
  Block <- MCBlock
  Place <- MCPlace
  Var <- MCVar
  Base <- MCBase
  Order <- MCOrder
  Graphs <- MCGraphs
  checkDepth = 2
INVARIANTS
  ReportsUseOfFreed
  NearUseReported
  OneReportPerFree
  NullExplained
CHECK_DEADLOCK FALSE
