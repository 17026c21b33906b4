CONSTANTS
    Width = 2
    Words = 1
    Byte = 4
    Nil = Nil
    NoValue = NoValue
    DatagramLimit = 16
    ASes <- MCASes
    Countries <- MCCountries
    Databases <- MCDatabases
    AsnTxts <- MCAsnTxts
    HostLists <- MCHostLists
    Junk <- MCJunk
SPECIFICATION Spec
INVARIANTS
    AnswersAreComplete
    NothingInvented
    FallsBackToNextHost
    FormsAgree
