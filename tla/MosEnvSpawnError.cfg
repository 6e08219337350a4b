SPECIFICATION SpawnErrorSpec
CONSTANTS
  NENV = 3
  NASID = 3
  Gens = 8
  NInit = 1
  Pris = {1}
  MaxForks = 4
  TqHead = TqHead
  Nil = Nil
INVARIANTS
  SchedListIffRunnable
