SPECIFICATION Spec
CONSTANTS
    Clients = {c1, c2}
    HistoryCap = 2
    ChannelCap = 1
    MaxHits = 3
    Free = Free
    Monitor = Monitor
INVARIANTS
    SequenceNamesOneStop
    NoSilentGap
SYMMETRY Symmetry
PROPERTY
    ImplementsStream
