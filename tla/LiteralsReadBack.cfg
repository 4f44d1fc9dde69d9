CONSTANTS
    Contents <- MCContents
    Damaged <- MCDamaged
    MaxPcEntries = 3
    MaxFunctions = 3
SPECIFICATION Spec
INVARIANT LiteralsReadBack
CHECK_DEADLOCK FALSE
