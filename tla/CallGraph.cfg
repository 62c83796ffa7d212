SPECIFICATION Spec
CONSTANTS
  Null = Null
  Function <- MCFunction
  Pointer <- MCPointer
  Programs <- MCPrograms
  shown = {"library", "lambda"}
  showFunctionPtr = TRUE
  ignoreNoCalledSystemHeader = TRUE
INVARIANTS GraphSound PointerCallsFound
PROPERTY Terminates
CHECK_DEADLOCK FALSE
