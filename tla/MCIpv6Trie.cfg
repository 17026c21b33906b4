CONSTANTS
    t1 = t1
    t2 = t2
    a1 = a1
    Nil = Nil
    NoValue = NoValue
    Tries <- MCTries
    ASes <- MCASes
    Width = 2
    Words = 2
    MaxEntries = 2
SYMMETRY MCSymmetry
VIEW MCView
SPECIFICATION Spec6
INVARIANTS
    ReadersAgree
PROPERTIES
    ImplementsOriginMap
