SPECIFICATION FairSpec
CONSTANTS
    m1 = m1
    r1 = r1
    Product = p1
    Skus = {k1}
    Seller = s1
    Moderators = {m1}
    NoModerator = NoModerator
    Requests = {r1}
    Owner <- OwnerOne
    Consumer = w1
    Calls = {c1}
    NoDecision = NoDecision
    MaxRows = 4
    MaxCards = 2
    MaxContent = 2
    ManualTypes = {}
CHECK_DEADLOCK FALSE
INVARIANTS TypeOK LogRecorded QueueFollows Requeued
PROPERTIES SubmissionQueued EventHandled

