SPECIFICATION Spec
CONSTANTS
  NProc = 6
  Lines <- Sequence
  Builtin <- MCBuiltin
  Programs <- MCPrograms
  Prompt = TRUE
INVARIANTS
  RightSideRuns
CHECK_DEADLOCK FALSE
