SPECIFICATION Spec
CONSTANTS
    p1 = p1
    m1 = m1
    m2 = m2
    r1 = r1
    r2 = r2
    Products = {p1}
    InStock = {p1}
    Moderators = {m1, m2}
    NoModerator = NoModerator
    Requests = {r1, r2}
    Owner <- OwnerTwo
    Workers = {w1}
    MaxCards = 2
    MaxContent = 0
    ManualTypes = {}
    Arrivals <- Submissions
SYMMETRY Reviewers
INVARIANTS TypeOK OpenCardHolder DecisionExclusive
PROPERTIES FreshReviewKept DecidedByHolder
