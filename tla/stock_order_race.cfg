\* Two goods received notes for one order at a time.
SPECIFICATION Spec
CONSTANTS
    Items = {i1}
    Sales = {}
    Reservations = {}
    Grns = {g1, g2}
    Orders = {o1}
    Parts = {}
    Takes = {}
    Workers = {1, 2}
    Endpoints <- EndpointsOf
    Opening = 2
    MaxUnits = 1
    MaxStock = 3
    NoRef = NoRef
INVARIANT OrderReceivedOnce
