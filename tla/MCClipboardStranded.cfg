CONSTANTS
    Primary = "lan"
    UsedPolicies = {"Auto", "PreferBluetooth"}
    Scenarios <- Stranding
SPECIFICATION Spec
INVARIANT NoStrandedPath
CHECK_DEADLOCK FALSE
