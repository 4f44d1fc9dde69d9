SPECIFICATION Spec
CONSTANTS
  U32Max = 100
  UsizeMax = 1000
  CaseCap = 3
  Programs <- MCPrograms
INVARIANT
  StringIdsParallel
