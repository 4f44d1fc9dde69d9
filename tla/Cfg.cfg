SPECIFICATION FairSpec
CONSTANTS
  U32Max = 100
  UsizeMax = 1000
  CaseCap = 3
  Programs <- MCPrograms
INVARIANTS
  TypeOK
  MatchesOracle
  BlocksPartition
  EdgesSymmetric
  OrderIsPermutation
  BackwardEdgesAreLoops
  HandlersProtectInstructions
  WellFormedLayoutAccepted
  CaseLabelsMatchTargets
PROPERTIES
  PostAfterSuccessors
  Terminates
