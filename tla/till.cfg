CONSTANTS
    Purchases = {p1}
    NoPurchase = NoPurchase
    MaxSubmissions = 2
    Scarce = {1}
    Batches = {b1, b2}
    BatchLimit = 2
    MaxFaults = 1
SPECIFICATION Spec
INVARIANTS TypeOK SoldOnceUnlessInDoubt TakenDownOnce
PROPERTY StoredSalesRegister
CHECK_DEADLOCK FALSE
