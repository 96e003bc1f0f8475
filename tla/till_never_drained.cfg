CONSTANTS
    Purchases = {p1, p2}
    NoPurchase = NoPurchase
    MaxSubmissions = 2
    Scarce = {}
    Batches = {b1}
    BatchLimit = 1
    MaxFaults = 0
SPECIFICATION Spec
PROPERTY ChangesWillSync
CHECK_DEADLOCK FALSE
