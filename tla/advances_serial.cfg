\* Every endpoint but the void, one request at a time.
SPECIFICATION Spec
CONSTANTS
    Advances = {a1, a2}
    Invoices = {i1, i2}
    Reservations = {r1}
    Workers = {w1}
    Endpoints <- SerialEndpoints
    MaxAmount = 2
    MaxPrice = 2
    MaxPaid = 1
    NoRef = NoRef
SYMMETRY Symmetry
INVARIANTS
    OnlyUnappliedRefunded
    AppliedToItsInvoice
    PaidExplained
    TotalsFollowAdvances

