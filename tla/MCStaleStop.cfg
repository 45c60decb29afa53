SPECIFICATION Spec
CONSTANTS
    PCs = {p1, p2}
    NoPC = NoPC
    HistoryCap = 2
    MaxHits = 3
    MaxBudget = 1
INVARIANT
    CurrentStopIsWhereTheGuestIs
