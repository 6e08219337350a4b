SPECIFICATION Spec
CONSTANTS
  Names = {a, b}
  Values = {x}
  NSlots = 2
  NRows = 3
  Absent = Absent
INVARIANTS
  NameOnce
  RowIsDepth

  
