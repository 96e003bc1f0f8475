CONSTANTS
    Purchases = {p1}
    NoPurchase = NoPurchase
    MaxSubmissions = 1
    Scarce = {}
    Batches = {b1, b2}
    BatchLimit = 1
    MaxFaults = 0
SPECIFICATION Spec
INVARIANT BatchSellsOnce
CHECK_DEADLOCK FALSE
