SPECIFICATION Spec
CONSTANTS
    Pubs = {"a", "b"}
    Roots = {"a"}
    Kinds <- mcKinds
    Lacking = {"a"}
    MsValidity = 1
    MsWindow = 0
    MsPeriod = 0
    Factor = 2
    ForkSize = 2
    MaxBindex = 3
    MaxBlock = 4
    MaxTime = 2
    MaxReverts = 2
INVARIANT ToBeKickedAreMembers
CHECK_DEADLOCK FALSE
