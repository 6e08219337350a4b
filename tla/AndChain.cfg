SPECIFICATION Spec
CONSTANTS
  NProc = 6
  Lines <- Conjunction
  Builtin <- MCBuiltin
  Programs <- MCPrograms
  Prompt = TRUE
INVARIANTS
  AndNeedsSuccess
CHECK_DEADLOCK FALSE
