CONSTANTS
    End = End
    Width = 3
    MaxRoutes = 5
SPECIFICATION FairSpec
INVARIANTS
    TypeOK
    CoverageKept
PROPERTIES
    AggregateMinimal
    AggregateReturns
