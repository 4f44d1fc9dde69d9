SPECIFICATION FairSpec
CONSTANTS
  LargeOff = {"x", "y"}
  MaxHandlers = 2
  MaxDedups = 1
  MaxPos = 30
  U32Max = 9
  Bundles <- MCBundles
INVARIANTS
  TypeOK
  LayoutHonest
  SelectedLayoutServes
  BodiesApart
  UnrecognizedSorted
  UnrecognizedExact
PROPERTIES
  Terminates
