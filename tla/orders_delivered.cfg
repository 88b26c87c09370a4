SPECIFICATION Spec
CONSTANTS
    Keys = {k1}
    Buyers = {b1}
    Admins = {a1}
    Retries = {}
    MaxEntries = 1
PROPERTIES DeliveredStays
CHECK_DEADLOCK FALSE
