\* Two requests at a time beside a reservation.
SPECIFICATION Spec
CONSTANTS
    Items = {i1}
    Sales = {1, 2}
    Reservations = {r1}
    Grns = {}
    Orders = {}
    Parts = {}
    Takes = {}
    Workers = {1, 2}
    Endpoints <- EndpointsOf
    Opening = 2
    MaxUnits = 1
    MaxStock = 3
    NoRef = NoRef
PROPERTY HoldsKept
