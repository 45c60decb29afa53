SPECIFICATION FairSpec
CONSTANTS
    Clients = {c1, c2}
    HistoryCap = 1
    ChannelCap = 1
    MaxHits = 2
    Free = Free
    Monitor = Monitor
PROPERTIES
    EveryStopIsTold
    FirstLossCloses
