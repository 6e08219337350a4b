SPECIFICATION Spec
CONSTANTS
  Envs = {a, b}
  Pages = {p1, p2, p3, p4, p5}
  Root = a
  NVA = 4
  PerTable = 2
  NASID = 2
  NTLB = 1
  Perms = {{}, {"D"}}
  Nil = Nil
SYMMETRY AnyPage
INVARIANTS
  
  NoDangling
  
  TablesPrivate
CHECK_DEADLOCK FALSE
