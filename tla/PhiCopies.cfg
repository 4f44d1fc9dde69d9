SPECIFICATION Spec
CONSTANTS
    Programs <- MCExchanges
    IntBits = 4
    MaxPath = 6
INVARIANT CopiesKeepMeaning
CHECK_DEADLOCK FALSE
