CONSTANTS
    c1 = c1
    c2 = c2
    c3 = c3
    v4 = v4
    None = None
    Conns <- MCConns
    Allowed <- MCAllowed
    Acceptors <- MCAcceptors
    Endpoint <- MCEndpoint
SPECIFICATION FairSpec
INVARIANTS
    TypeOK
    ThreadsOwned
    NoThreadAfterTeardown
    OnlyAllowedServed
    JoinNeverWaitsForClient
PROPERTIES
    FinishedIsErased
    GoneClientEndsThread
    TermEndsProcess
\* The process ends.
CHECK_DEADLOCK FALSE
