SPECIFICATION Spec
CONSTANTS
    Blocks <- mcBlocks
    NoBlock = 0
    Number <- mcNumber
    Previous <- mcPrevious
    MedianTime <- mcNumber
    Admissible <- mcBlocks
    Valid <- mcBlocks
    ForkSize = 3
    SwitchOnHeadAdvance = 2
    AvgGenTime = 1
    MaxPending = 1
    MaxRestarts = 1
    MaxCommands = 0
INVARIANT BestForkFollowed
PROPERTIES
    OperationsEnd
    NextBlockTaken
