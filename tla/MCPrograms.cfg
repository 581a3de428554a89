SPECIFICATION ProgramsSpec
CONSTANTS
    MaxRuns = 2
    MaxUiCommands = 3
    MaxPrompts = 1
    MaxReports = 3
    MaxClients = 2
    MaxTaps = 4
    MaxQueue = 3
    a = a
    b = b
    c = c
    d1 = d1
    d2 = d2
    Desks = {d1, d2}
    NoDesk = NoDesk
    Lan = {"p", "q"}
    Targets <- PhoneTargets
    Nobody = Nobody
    Devices = {a, b, c}
    Saved = {a, b}
    Remembered = a
    MaxSessions = 2
    MaxInstances = 3
    MaxPairings = 3
    MaxCommands = 1
INVARIANTS
    OneSession
    ScreenIsTrue
    PhoneIsTrue
    ReservationIsHeld
PROPERTIES
    ModeReachesPeer
    LiveSessionStays
    HolderIsTold
CHECK_DEADLOCK FALSE
