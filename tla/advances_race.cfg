\* Two requests at a time: a refund and an application of one advance.
SPECIFICATION Spec
CONSTANTS
    Advances = {a1}
    Invoices = {i1}
    Reservations = {r1}
    Workers = {w1, w2}
    Endpoints <- AllEndpoints
    MaxAmount = 2
    MaxPrice = 2
    MaxPaid = 1
    NoRef = NoRef
INVARIANT OnlyUnappliedRefunded
