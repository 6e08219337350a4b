SPECIFICATION Spec
CONSTANTS
  Envs = {a, b}
  Root = a
  NFD = 2
  Size = 1
  Word = 2
  MaxBytes = 1
  ForkShared = FALSE
  None = None
PROPERTIES
  ZeroMeansDrained
CHECK_DEADLOCK FALSE
