SPECIFICATION FairSpec
CONSTANTS
    HeaderPilots = 3
    DataPilots = 1
    StandardPause = 2
    MaxPulses = 24
    MaxBlocks = 8
    MaxReplays = 5
    MaxTransfers = 6
    TapFiles <- MCTapFiles
    TzxFiles <- MCTzxFiles
    Requests <- MCRequests
    ExperiencePause = 1
    CosmeticHeader = 3
    CosmeticData = 2
    Stripes = 2
    Speeds = {1, 2}
    ExperienceSpeed = 2
    FallbackSpeed = 3
    Ticks = {1, 2}
INVARIANTS
    LoadReachesItsCaller
    WorkIsBounded
    LoopsPlayTheirCount
    SignalIsTheTape
    ChunkingDoesNotMatter
PROPERTY
    HeldLoadEnds
