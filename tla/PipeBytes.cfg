SPECIFICATION FairSpec
CONSTANTS
  Envs = {a, b}
  Root = a
  NFD = 2
  Size = 1
  Word = 2
  MaxBytes = 2
  ForkShared = FALSE
  None = None
PROPERTIES
  
  ReaderSeesEof
  WriterSeesClose
INVARIANTS
  
  TypeOK
CHECK_DEADLOCK FALSE
