SPECIFICATION Spec
CONSTANTS
    Programs <- MCPrograms
    IntBits = 4
    MaxPath = 5
INVARIANTS
    PassesKeepMeaning
    StatementsKeepMeaning
CHECK_DEADLOCK FALSE
