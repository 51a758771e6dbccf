SPECIFICATION ServicesSpec
CONSTANTS
    Ops = {o1, o2, o3}
    NoOp = NoOp
    RevertOp = o1
    Documents = {o2}
    MaxErrors = 2
    MaxRequests = 2
    p1 = p1
    p2 = p2
    Candidate = {p1, p2}
    ChunkSize = 2
    Target = 4
    Roots = {0}
    PerPage = 2
    TotalPages = 1
    InAdvance = 2
    MaxWrong = 1
    MaxNoNode = 2
INVARIANTS
    TableMatchesQueue
    OnlyHonestErrors
    SyncedChain
    CleanExit
PROPERTIES
    AcceptedSettles
    NeverHalfConnected
    SyncEnds
    InterruptEnds
CHECK_DEADLOCK FALSE
