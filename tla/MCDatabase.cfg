CONSTANTS
    Formats = {"plain", "bz2"}
    Blocks = 2
    MaxUpdates = 3
    MaxPowerFailures = 1
SPECIFICATION FairSpec
INVARIANT TypeOK
PROPERTIES
    LoadServesLastSave
    SavedIsServed
CHECK_DEADLOCK FALSE
