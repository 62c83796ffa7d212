\* The list names one AST twice, and the cache may be given no room at all.
SPECIFICATION Spec
CONSTANTS
  a1 = a1 a2 = a2 a3 = a3
  NoVal = NoVal
  Null = NoVal
  ASTList <- MCListTwice
  Decl <- MCDecl
  FuncDecl <- MCFuncDecl
  FuncLoc <- MCFuncLoc
  VarDecl <- MCVarDecl
  QueueSize = 2
  Limits = {0, 1}
  Addr = {a1, a2, a3}
INVARIANT FaultExplained
SYMMETRY AddrSymmetry
\* A process that died takes no step.
CHECK_DEADLOCK FALSE
