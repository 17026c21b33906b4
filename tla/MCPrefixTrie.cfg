CONSTANTS
    t1 = t1
    t2 = t2
    a1 = a1
    a2 = a2
    Nil = Nil
    NoValue = NoValue
    Tries <- MCTries
    ASes <- MCASes
    Width = 3
    Words = 1
    MaxEntries = 3
SYMMETRY MCSymmetry
VIEW MCView
SPECIFICATION Spec
INVARIANTS
    TypeOK
    WellFormed
    SizeCountsEntries
    TraversalSorted
    LookupsAgree
PROPERTIES
    AggregateCombinesAll
    ImplementsOriginMap
