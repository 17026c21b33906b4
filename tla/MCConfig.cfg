CONSTANTS
    Files <- MCFiles
    MaxLeftover = 4
SPECIFICATION Spec
INVARIANTS
    ParseMeansFile
