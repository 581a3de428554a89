SPECIFICATION LinkSpec
CONSTANTS
    DataShards = 2
    ParityShards = 1
    SeqNumbers = 16
    ReplayWindow = 4
    InitialDrop = 1
    FirstBlock = 6
    LastBlock = 9
    MaxLate = 1
    DecodeLimit = 2
    BacklogLimit = 0
    RingLimit = 1
    MaxFrames = 3
    MaxOutputs = 2
    FrameSamples = 2
    MicLimit = 3
    SampleLimit = 1
    PacketLimit = 1
    MaxSamples = 4
    MaxMics = 2
INVARIANTS
    SoundIsTrue
PROPERTIES
    SoundGoesOn
    LinkEnds
CHECK_DEADLOCK FALSE
