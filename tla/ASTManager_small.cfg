SPECIFICATION Spec
CONSTANTS
  a1 = a1 a2 = a2 a3 = a3
  NoVal = NoVal
  Null = NoVal
  ASTList <- MCList
  Decl <- MCDecl
  FuncDecl <- MCFuncDecl
  FuncLoc <- MCFuncLoc
  VarDecl <- MCVarDecl
  QueueSize = 2
  Limits = {1, 2}
  Addr = {a1, a2, a3}
INVARIANTS TablesAgree ResultIsCurrent
PROPERTIES EvictsOnlyForRoom LastRequestedStays
SYMMETRY AddrSymmetry
