SPECIFICATION NetworkSpec
CONSTANTS
    Key = {m, x, o}
    Own = {o}
    MemberKey = {m}
    Prefered = {x}
    MaxPrivate = 1
    MaxPublic = 1
    BundleSize = 2
    MaxConns = 3
    MaxBans = 1
    west = west
    mid = mid
    east = east
    HeadNode = {west, mid, east}
    Wire <- MCWire
    OldNode = {}
    NoHead = NoHead
    Mover = {west}
    MaxBlock = 2
    MaxSpreads = 4
    Peer = {p, q}
    Self = me
    Liked = {}
    Limit = 1
    MaxDoc = 2
    MaxWrites = 3
    Remote = {r1, r2}
    Label = {"s", "f"}
    Duration <- MCDuration
    WindowSize = 4
    Chunk = 2
    HeadAdvance = 1
    MaxLength = 7
    MaxMoves = 1
    StartChains <- MCStart
    MaxPulls = 2
SYMMETRY MCSymmetry
INVARIANTS
    PlacesKept
    PeersAdvance
    PullIsComplete
PROPERTIES
    HeadsAdvance
CHECK_DEADLOCK FALSE
