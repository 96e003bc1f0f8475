\* Two requests at a time on one advance.
SPECIFICATION Spec
CONSTANTS
    Advances = {a1}
    Invoices = {i1}
    Reservations = {r1}
    Workers = {w1, w2}
    Endpoints <- AllEndpoints
    MaxAmount = 2
    MaxPrice = 2
    MaxPaid = 1
    NoRef = NoRef
SYMMETRY Symmetry
INVARIANTS
    TypeOK
    EachWithinAmount
    NothingInvented

