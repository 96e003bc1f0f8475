\* Every endpoint, in the scenarios of MCStockLedger.
SPECIFICATION Spec
CONSTANTS
    Items = {i1}
    Sales = {1, 2, 3}
    Reservations = {r1, r2}
    Grns = {g1, g2}
    Orders = {o1}
    Parts = {p1}
    Takes = {t1}
    Workers = {1, 2}
    Endpoints <- EndpointsOf
    Opening = 2
    MaxUnits = 2
    MaxStock = 3
    NoRef = NoRef
SYMMETRY Symmetry
CONSTRAINT Scenarios
INVARIANTS
    TypeOK
    DocumentsExplainStock
    OrderReceivedOnce
    ReturnedWithinSold
PROPERTIES
    HoldsKept
