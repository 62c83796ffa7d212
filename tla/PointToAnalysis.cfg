SPECIFICATION Spec
CONSTANTS
  Null = Null
  Function <- MCFunction
  Var <- MCVar
  Programs <- MCPrograms
  Requests <- MCRequests
  MaxSize = 2
  MaxRequests = 2
INVARIANTS AliasesExact RecordsSound
PROPERTIES KeepsPromise Terminates
CHECK_DEADLOCK FALSE
