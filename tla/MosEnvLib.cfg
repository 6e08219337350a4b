SPECIFICATION FairLibSpec
CONSTANTS
  NENV = 4
  NASID = 3
  Gens = 8
  NInit = 2
  Pris = {1, 2}
  MaxForks = 3
  TqHead = TqHead
  Nil = Nil
INVARIANTS
  SchedListIffRunnable
  CurenvIsFirst
  
  
  IdNamesItsEnv
  NoLostSleeper
  PanicOnlyWhenIdle
PROPERTIES
  MessageNotOverwritten
  ImplementsRunQueue
  
  Confinement
