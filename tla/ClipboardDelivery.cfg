SPECIFICATION FairSpec
CONSTANTS
    MaxAttempts = 2
    MailboxLimit = 1
    MaxPayloads = 2
    MaxPaths = 2
    MaxModes = 2
    MaxPermissions = 1
INVARIANTS ConfirmedIsApplied NewestIsKept
PROPERTY Settles
CHECK_DEADLOCK FALSE
