\* An endpoint that writes the quantity it read, beside a checkout.
SPECIFICATION Spec
CONSTANTS
    Items = {i1}
    Sales = {1, 2}
    Reservations = {}
    Grns = {g1}
    Orders = {}
    Parts = {}
    Takes = {}
    Workers = {1, 2}
    Endpoints <- StaleEndpointsOf
    Opening = 2
    MaxUnits = 1
    MaxStock = 3
    NoRef = NoRef
INVARIANT StockReconciles
