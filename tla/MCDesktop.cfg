SPECIFICATION DesktopSpec
CONSTANTS
    MaxVersion = 2
    MaxFetches = 2
    MaxHandoffs = 2
    MaxClicks = 2
    MaxStarts = 2
    Peers = {1, 2}
    MaxSaves = 3
    MaxCrashes = 2
    QueueLimit = 1
    MaxCalls = 3
    MaxMoves = 1
    MaxHangs = 1
    Files = {"one", "two", "large", "twin", "twin of the other", "twin-2"}
    Weight <- FileWeight
    MaxFileBytes = 2
    MaxCacheBytes = 2
    Attempts = 2
    MaxApplications = 2
    MaxCopies = 1
    MaxReports = 1
    Screens <- Displays
    Margin = 1
    HookKeys = {"k"}
    HookButtons = {"b"}
    MaxPlatforms = 2
    MaxMotions = 2
    MaxStrokes = 2
    MaxTurns = 1
    MaxLayouts = 1
    MaxFaults = 1
    Beginnings <- Hooking
    Here <- Wide
    There <- Small
    Crossing <- Rightwards
    Inset = 2
    Shoves <- Moves
    Openings <- Pointing
    LoopRoom = 1
    WireRoom = 3
    MaxShoves = 3
    MaxCrossings = 2
    MaxSurprises = 1
INVARIANTS
    MouseIsTrue
    NoReinstall
    NothingForgotten
    EventsInOrder
    ConfirmedIsWhole
PROPERTIES
    AgentSettles
CHECK_DEADLOCK FALSE
