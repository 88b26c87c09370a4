SPECIFICATION Spec
CONSTANTS
    p1 = p1
    m1 = m1
    m2 = m2
    r1 = r1
    r2 = r2
    Products = {p1}
    InStock = {p1}
    Moderators = {m1}
    NoModerator = NoModerator
    Requests = {r1}
    Owner <- OwnerOne
    Workers = {w1, w2}
    MaxCards = 2
    MaxContent = 0
    ManualTypes = {"CREATED"}
    Arrivals <- Edits
SYMMETRY Handlers
INVARIANTS OneOpenCard
PROPERTIES DecidedOnce
