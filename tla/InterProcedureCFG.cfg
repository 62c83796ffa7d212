SPECIFICATION Spec
CONSTANTS
  Null = Null
  Function <- MCFunction
  Unit <- MCUnit
  Programs <- MCPrograms
  Sizes = {1, 2, 3}
  Lengths = {1, 2, 4}
  Word = 8
INVARIANTS
  LinksMirrored
  DirectionsAgree
  EntersOnce
  MemorySafe
PROPERTY Terminates
CHECK_DEADLOCK FALSE
