CONSTANTS
    t1 = t1
    t2 = t2
    a1 = a1
    a2 = a2
    Nil = Nil
    NoValue = NoValue
    Tries <- MCTwoTries
    ASes <- MCOneAS
    Width = 2
    Words = 1
    MaxEntries = 2
SPECIFICATION Spec
INVARIANTS
    CopyTraverses
