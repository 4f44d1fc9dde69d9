SPECIFICATION Spec
CONSTANTS
  U32Max = 100
  UsizeMax = 100
  CaseCap = 3
  Programs <- MCPrograms
INVARIANT
  OverflowingTableSkipped
