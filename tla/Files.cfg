SPECIFICATION Spec
CONSTANTS
  NBlocks = 8
  NDIRECT = 1
  NINDIRECT = 2
  FILE2BLK = 2
  BLOCK_SIZE = 2
  notes = notes
  sub = sub
  Names = {notes, sub}
  Paths <- MCPaths
  Sizes = {0, 3}
  Data = {x}
  NoName = NoName
  NOpen = 2
  Exclusive = TRUE
  MaxCalls = 5
INVARIANTS
  TypeOK
  EachBlockOnce
  NothingLeaks
  CrashSafe
  PagesAreTheFiles
PROPERTIES
  OthersUntouched
  ClosedIsDurable
CHECK_DEADLOCK FALSE
