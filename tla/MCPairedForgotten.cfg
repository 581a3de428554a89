SPECIFICATION ConfigSpec
CONSTANTS
    Peers = {1, 2}
    MaxSaves = 3
    MaxCrashes = 2
INVARIANT PairedIsKept
CHECK_DEADLOCK FALSE
