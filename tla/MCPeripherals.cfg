SPECIFICATION MCSpec
CONSTANTS
    SectorsPerTrack = 2
    SectorSize = 2
    LastTrack = 0
    IdMark = 0
    DataMark = 1
    Fill = 0
    CheckBytes <- NoCheckBytes
    Disks <- BetaDisks
    Registers = {0, 1}
    Words <- BetaWords
    HostBytes <- BetaBytes
    Units = {0}
    Heads = {0, 1}
    Cylinders = {1}
    Ids = {1}
    SizeCodes = {0, 1}
    DataLengths = {1}
    Counts = {0, 1}
    Fills = {0}
    SectorUnit = 1
    WholeSector = 1
    Plus3Disks <- TwoPlus3Disks
    Plus3Bytes = {1}
    BlockSize = 2
    ArgumentBytes = 1
    LastBlock = 2
    Addresses = {0, 1, 2}
    CardBytes = {0, 1}
    MmcImages <- NoCardOrBlocks
    SdImages <- OneBlockOrTwo
    RegisterBytes = 1
    StopDelay = 1
    FrameTStates = 16
    PaperStart = 4
    TLine = 5
    Lines = 2
    LinesPerRow = 2
    Columns = 1
    BorderTimes = {4, 10, 14}
    ScreenSwitchDelay = 2
    WriteShapes <- ShortWrites
    OutShapes <- ShortOuts
    IdleTimes = {1, 4}
    Bytes <- PictureBytes
    Colours = {0, 1}
    Contents <- PictureContents
    MaxAccesses = 3
VIEW View
INVARIANTS
    StatusIsTrue
    PictureIsWhatTheBeamSaw
PROPERTIES
    DrivesKeepTheirMedia
    ServedCommandsEnd
CHECK_DEADLOCK FALSE
