CONSTANTS
    Primary = "lan"
    UsedPolicies = {"Auto", "BluetoothOnly"}
    Scenarios <- OneSided
SPECIFICATION FairSpec
PROPERTY Settles
CHECK_DEADLOCK FALSE
