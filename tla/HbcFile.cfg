CONSTANTS
    Contents <- MCContents
    Damaged <- MCDamaged
    MaxPcEntries = 3
    MaxFunctions = 3
SPECIFICATION Spec
INVARIANTS
    HonestFormDetected
    SectionsFound
    StringsReadBack
    RoundTrip
    SourceLocationsReadBack
CHECK_DEADLOCK FALSE
