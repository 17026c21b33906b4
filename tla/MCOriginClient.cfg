CONSTANTS
    s1 = s1
    s2 = s2
    a1 = a1
    a2 = a2
    Nothing = Nothing
    Clients <- MCClients
    Addrs <- MCAddrs
    Answered <- MCAnswered
    IdMod = 2
    MaxCalls = 4
    BufLimit = 2
SPECIFICATION FairSpec
INVARIANTS
    TypeOK
    ConcurrentIdsDiffer
    StaleAnswerNeedsWrap
PROPERTIES
    GetOriginReturns
\* The calls are bounded.
CHECK_DEADLOCK FALSE
