SPECIFICATION Spec
CONSTANTS
  Envs = {a, b, c}
  Root = a
  Top = 3
  NPages = 8
  Library = {1}
  Vars = {2}
  NWords = 2
  MaxWrites = 2
INVARIANTS
  WritableAlone
  HandlerSet

  
CHECK_DEADLOCK FALSE
