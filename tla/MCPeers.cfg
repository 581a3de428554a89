SPECIFICATION PeersSpec
CONSTANTS
    FastRetries = 1
    MaxFailures = 2
    MaxTroubles = 3
    Attempts = {1, 2, 3}
    MaxMishaps = 5
    Keys = {1}
    Capacity = 2
    MaxGenerations = 2
    MaxToggles = 2
    MaxUpsets = 2
    MaxSubstreams = 2
    PathScenarios <- Paths
INVARIANTS
    EndsAgree
    PathsAgree
PROPERTIES
    Reunited
    KeysReleased
    PathsSettle
CHECK_DEADLOCK FALSE
