CONSTANTS
    c1 = c1
    v4 = v4
    v6 = v6
    None = None
    Conns <- MCConns
    Allowed <- MCAllowed
    Acceptors <- MCAcceptors
    Endpoint <- MCEndpoint
    Addrs <- MCAddrs
    DnsLimit = 1
    UdpLimit = 1
SPECIFICATION FairDaemonSpec
INVARIANTS
    DaemonTypeOK
    DescriptorsOutliveThreads
    DataOutlivesThreads
    PidFileCoversService
    UdpServesUntilTerm
PROPERTIES
    DaemonTermEndsProcess
    ImplementsTcpServer
\* The process ends.
CHECK_DEADLOCK FALSE
