SPECIFICATION StoresSpec
CONSTANTS
    MaxBlock = 1
    MaxCrashes = 2
    MaxStops = 1
    i1 = i1
    i2 = i2
    Issuer = {i1, i2}
    Incoming <- MCIncoming
    Forkable = 1
    TimeBlocks = 2
    DiffEval = 2
    MinGen = 1
    MaxGen = 2
    Dt = 3
    DtReeval = 1
    Reeval0 = 1
    FirstUD = 11
    PowMin0 = 1
    RotNum = 2
    RotDen = 3
    GrowthDen = 2
    Digits = 12
    LastNumber = 6
    MaxFalls = 1
    MaxReads = 1
    IdtyDocs <- MCIdtyDocs
    CertDocs <- MCCertDocs
    MsDocs <- MCMsDocs
    OwnKey = "o"
    IdtySize = 1
    CertSize = 1
    MsSize = 1
    IdtyWindow = 1
    SigWindow = 1
    MsWindow = 1
    SigReplay = 2
    MsTerm = 2
    MaxDocHeight = 2
    MaxReverted = 1
INVARIANTS
    StoresAgree
    CrashesAreMended
    HeadsAreRight
    DividendsAgree
    AcceptedIsKept
    PoolIsCurrent
PROPERTY StartsAgain
CHECK_DEADLOCK FALSE
