SPECIFICATION ProtocolsSpec
CONSTANTS
    W = 1
    MaxEpoch = 2
    Modes = {"both", "off"}
    Labels = {"none", "a"}
    MdnsStale = 2
    LndStale = 1
    MaxNews = 1
    Budgets <- Mixtures
    Situations <- Found0
    Connections = {1, 2}
    Encounters <- Situations0
    MacKeys = {"left ctrl", "right ctrl", "esc", "fn"}
    MacModifiers = {"left ctrl", "right ctrl"}
    MacHotkey = "esc"
    MacUnmapped = "fn"
    MacButtons = {"button"}
    MaxMacs = 2
    MaxMail = 2
    MacStarts <- MacBeginnings
INVARIANTS
    CreditConserved
    NoCommitRace
    DiscoveryIsTrue
    ServiceIsTrue
    AuthorizationIsTrue
    MacIsTrue
CHECK_DEADLOCK FALSE
