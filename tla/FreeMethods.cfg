SPECIFICATION LabelSpec
CONSTANTS
  NoVal = NoVal
  NoDecl = NoVal
  maxSize = 2
  Decl <- MCDecl
  Home <- MCHome
  FreeDecl <- MCFreeDecl
  ASTList <- MCASTList
  Programs <- MCPrograms
INVARIANTS
  RegistrySound
  FreesRecognised
CHECK_DEADLOCK FALSE
