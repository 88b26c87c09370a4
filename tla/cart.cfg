SPECIFICATION Spec
CONSTANTS
    Skus = {k1, k2}
    Requests = {r1, r2}
    MaxItems = 4
    MaxCarts = 4
    MaxQty = 2
    MaxArrivals = 4
SYMMETRY Interchangeable
INVARIANTS TypeOK QuantityChosen AddsCount
PROPERTIES MergesKeepItems
CHECK_DEADLOCK FALSE
