SPECIFICATION Spec
CONSTANTS
  NoVal = NoVal
  Null = NoVal
  Block <- MCBlock
  Place <- MCPlace
  Var <- MCVar
  Base <- MCBase
  Order <- MCOrder
  Graphs <- MCGraphs
INVARIANTS
  FreesSearched
  ReportsOnPath
  NearFreeReported
PROPERTY Terminates
CHECK_DEADLOCK FALSE
