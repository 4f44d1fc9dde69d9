SPECIFICATION FairSpec
CONSTANTS
  U32Max = 100
  UsizeMax = 1000
  CaseCap = 3
  ByteBase = 6
  Table <- MCTable
  Files <- MCFiles
INVARIANTS
  TypeOK
  DecodedTiles
  RefsAscending
  XrefsMatchDecoder
  CallsMatchDecoder
PROPERTIES
  Terminates
