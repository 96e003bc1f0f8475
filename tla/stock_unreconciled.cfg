\* Invoices and their quick refunds, one request at a time.
SPECIFICATION Spec
CONSTANTS
    Items = {i1}
    Sales = {1, 2}
    Reservations = {}
    Grns = {}
    Orders = {}
    Parts = {}
    Takes = {}
    Workers = {1}
    Endpoints <- EndpointsOf
    Opening = 2
    MaxUnits = 1
    MaxStock = 3
    NoRef = NoRef
INVARIANT StockReconciles
