SPECIFICATION FairSpec
CONSTANTS
    MaxRows = 1
    Relays = {l1}
    BatchLimit = 2
    Consumers = {k1}
    ReadLimit = 2
    MaxCrashes = 1
PROPERTIES AtLeastOnce
CHECK_DEADLOCK FALSE
