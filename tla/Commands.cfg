SPECIFICATION FairSpec
CONSTANTS
  NProc = 6
  Lines <- Ordinary
  Builtin <- MCBuiltin
  Programs <- MCPrograms
  Prompt = TRUE
INVARIANTS
  TypeOK
  
  

  
CHECK_DEADLOCK FALSE
