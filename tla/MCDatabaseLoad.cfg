CONSTANTS
    Formats = {"bz2", "gz"}
    Blocks = 2
    MaxUpdates = 2
    MaxPowerFailures = 0
SPECIFICATION Spec
INVARIANT LoadTellsFailure
CHECK_DEADLOCK FALSE
