SPECIFICATION FairSpec
CONSTANTS
    MaxRows = 3
    Relays = {l1}
    BatchLimit = 2
    Consumers = {k1}
    ReadLimit = 2
    MaxCrashes = 2
INVARIANTS TypeOK PublishedInStream CausalOrder
PROPERTIES ImplementsChannel
CHECK_DEADLOCK FALSE
