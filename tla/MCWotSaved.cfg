SPECIFICATION Spec
CONSTANTS
    MaxBlock = 1
    MaxCrashes = 0
    MaxStops = 1
INVARIANT WotSaved
