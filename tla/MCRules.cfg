SPECIFICATION RulesSpec
CONSTANTS
    Pubs = {"a", "b"}
    Roots = {"a"}
    Kinds <- mcKinds
    Lacking = {"a"}
    MsValidity = 1
    MsWindow = 0
    MsPeriod = 0
    Factor = 2
    ForkSize = 2
    MaxBindex = 3
    MaxBlock = 4
    MaxTime = 2
    MaxReverts = 2
    Payments <- MCTx
    FirstUD <- MCDividends
    UnitBase = 0
    TxWindow = 1
    MaxTries = 2
    MaxChaining = 1
    Room = 16
    PoolSize = 3
    SourcesKept = 1
    MaxTxHeight = 3
    MaxTxTime = 3
    MaxForeign = 1
    MaxUndoneTxs = 1
INVARIANTS
    IndexesAgree
    NoLapsedMember
    FailuresExplained
    MoneyKept
    GeneratedTransactionsPass
CHECK_DEADLOCK FALSE
