SPECIFICATION Spec
CONSTANTS
    Blocks <- mcBlocks
    NoBlock = 0
    Number <- mcNumber
    Previous <- mcPrevious
    MedianTime <- mcTime
    Admissible <- mcBlocks
    Valid <- mcValid
    ForkSize = 3
    SwitchOnHeadAdvance = 1
    AvgGenTime = 1
    MaxPending = 1
    MaxRestarts = 1
    MaxCommands = 1
INVARIANTS
    MainIsSound
    TablesDisjoint
    NeverHalfway
PROPERTIES
    ImplementsChoice
    NothingForgotten
