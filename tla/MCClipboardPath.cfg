CONSTANTS
    Primary = "lan"
    UsedPolicies = {"Auto", "PreferBluetooth"}
    Scenarios <- Crossings
SPECIFICATION Spec
INVARIANT SessionSurvives
PROPERTY ImplementsHandover
CHECK_DEADLOCK FALSE
