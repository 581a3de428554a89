CONSTANTS
    W = 1
    Burst = 1
    WireCapacity = 1
    UsedLanes <- MCLanes
    Load <- BothWays
    Served <- ClipboardStalled
    Closing <- ControlEnds
SPECIFICATION Spec
INVARIANTS
    EndAfterData
    ClipboardNotStarved
PROPERTIES
    ImplementsCredit
    ServedLanesProgress
