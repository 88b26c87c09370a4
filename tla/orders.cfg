SPECIFICATION Spec
CONSTANTS
    Keys = {k1}
    Buyers = {b1, b2}
    Admins = {a1, a2}
    Retries = {t1, t2}
    MaxEntries = 3
SYMMETRY Interchangeable
INVARIANTS TypeOK LedgerBacks FulfillDelivering FulfillPending
PROPERTIES CancelReleases
CHECK_DEADLOCK FALSE
