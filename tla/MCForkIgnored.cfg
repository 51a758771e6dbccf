SPECIFICATION Spec
CONSTANTS
    Blocks <- mcTwoHeads
    NoBlock = 0
    Number <- mcTwoHeadsNumber
    Previous <- mcTwoHeadsPrevious
    MedianTime <- mcTwoHeadsNumber
    Admissible <- mcTwoHeads
    Valid <- mcTwoHeadsValid
    ForkSize = 3
    SwitchOnHeadAdvance = 2
    AvgGenTime = 1
    MaxPending = 1
    MaxRestarts = 0
    MaxCommands = 0
INVARIANT BestForkFollowed
