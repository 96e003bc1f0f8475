CONSTANTS
    Purchases = {p1, p2}
    NoPurchase = NoPurchase
    MaxSubmissions = 2
    Scarce = {1}
    Batches = {b1}
    BatchLimit = 2
    MaxFaults = 0
SPECIFICATION Spec
INVARIANT NoHalfInvoice
CHECK_DEADLOCK FALSE
