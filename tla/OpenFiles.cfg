SPECIFICATION Spec
CONSTANTS
  Envs = {a, b}
  First = a
  Files = {f, g}
  MAXOPEN = 2
  MAXFD = 2
  MaxSize = 2
  Exclusive = TRUE
  None = None
SYMMETRY Symmetry
INVARIANTS
  OwnFile
  
  
CHECK_DEADLOCK FALSE
