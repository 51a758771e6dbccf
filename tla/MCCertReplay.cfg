SPECIFICATION Spec
CONSTANTS
    Members = {"a", "b", "c"}
    Pairs <- mcPairs
    RootCerts <- mcRoot
    SigValidity = 2
    SigReplay = 0
    SigPeriod = 0
    SigWindow = 0
    SigStock = 2
    ForkSize = 2
    MaxBindex = 3
    MaxBlock = 5
    MaxTime = 3
    MaxReverts = 1
INVARIANT LinkSurvives
CHECK_DEADLOCK FALSE
