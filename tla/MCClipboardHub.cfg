SPECIFICATION FairSpec
CONSTANTS
    a = a
    b = b
    x = x
    y = y
    Nothing = Nothing
    Devices = {a, b}
    Contents = {x, y}
    ReadsAs <- Partly
    Sessions = {1, 2}
    Owner <- SameDevice
    QueueLimit = 2
    RateLimit = 2
    Scenarios <- Overlaps
INVARIANT NoEcho
PROPERTIES ConfirmedIsOnClipboard Answered
CHECK_DEADLOCK FALSE
