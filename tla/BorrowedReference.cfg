SPECIFICATION BorrowSpec
CONSTANTS
  NoVal = NoVal
  Null = NoVal
  maxSize = 2
  Block <- MCBlock
  Place <- MCVar
  Var <- MCVar
  Base <- MCBase
  Order <- MCOrder
  Graphs <- MCGraphs
  ASTList <- MCASTList
  Home <- MCHome
  Term <- MCTerm
  Programs <- MCPrograms
INVARIANTS
  StraightLineExact
  MapSound
PROPERTY BorrowTerminates
CHECK_DEADLOCK FALSE
