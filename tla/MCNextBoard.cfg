SPECIFICATION BoardSpec
CONSTANTS
    ChannelCount = 2
    ShortPrescale = 1
    LongPrescale = 2
    FullConstant = 2
    ControlWords <- PairWords
    ConstantBytes <- PairConstants
    Masks <- PairMasks
    MaxElapsed = 2
    RingSize = 4
    Byte = 2
    Commands <- DmaCommands
    Parameters <- DmaParameters
    ReadMasks <- DmaMasks
    PrescalerUnit = 4
    Lengths = {5}
    MaxTime = 200
    InstructionCount = 4
    LowBytes = 4
    ClocksPerTstate = 4
    HorizontalTstates = 1
    LineTstates = 3
    FrameLines = 2
    Bytes <- ListBytes
    Instruction <- ListInstruction
    Programs <- Lists
    Controls <- ListControls
    Data = {"M"}
    LowAddresses = {1}
    CopperShapes <- ListShapes
    CopperMaxTime = 10
INVARIANTS
    ChannelsCoherent
    StatusCoversRequests
    ServiceNests
    SkippingIsExact
    CascadeIsTheQueue
    BlockIsMovedOnce
    PictureShowsItsMoves
    ListInOrder
    BatchesDoNotMatter
PROPERTIES
    RequestsLeaveInOrder
    BytesInTimeOrder
VIEW View
