SPECIFICATION RecordsSpec
CONSTANTS
    Members = {"a", "b", "c"}
    Pairs <- mcPairs
    RootCerts <- mcRoot
    SigValidity = 2
    SigReplay = 0
    SigPeriod = 0
    SigWindow = 0
    SigStock = 2
    ForkSize = 2
    MaxBindex = 3
    MaxBlock = 5
    MaxTime = 3
    MaxReverts = 1
    Pub = {p, q}
    Root = {p}
    UD = 2
    MinAmount = 2
    Kept = 1
    UndoWindow = 1
    MaxNumber = 3
    MaxFailures = 1
    MaxUndone = 1
    Person = {j, k}
    Founder = {j}
    MsTerm = 2
    RevokeFactor = 2
    SigTerm = 3
    Needed = 1
    UpTo = 6
    TailLength = 1
    LastTime = 5
    west = west
    mid = mid
    east = east
    wm = wm
    mw = mw
    me = me
    newcomer = newcomer
    member = member
    Site = {west, mid, east}
    Link = {wm, mw, me}
    Ends <- mcEnds
    Entry = {west}
    HttpSite = {east}
    Paper <- mcPaper
    MemberSubject = {member}
    RepeatThreshold = 5
    MinSig = 1
    LookupSig = 1
    Scenarios <- mcScenarios
    MaxEvents = 1
INVARIANTS
    IndexFollowsChain
    LinksAgree
    ExpiresInTime
    AccountsAgree
    SameIndexes
    DocumentsSpread
CHECK_DEADLOCK FALSE
