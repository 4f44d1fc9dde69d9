SPECIFICATION Spec
CONSTANTS
    Versions <- MCVersions
    FrameSizes <- MCFrameSizes
    Argcs <- MCArgcs
    total_insns = 4
INVARIANTS
    TablesAgree
    ScannedOperandsAgree
    JumpsCarryTheirTarget
    ArgumentsRendered
    OperandsPresent
CHECK_DEADLOCK FALSE
