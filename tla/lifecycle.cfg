SPECIFICATION Spec
CONSTANTS
    Skus = {k1, k2}
    Sellers = {s1, s2}
    Calls = {c1, c2}
    Tickets = {t1}
    NoDecision = NoDecision
    MaxRows = 5
SYMMETRY Interchangeable
INVARIANTS TypeOK DecisionStands DecisionsAnnounced BlockExplained
PROPERTIES NoSilentChange ImplementsLog
CHECK_DEADLOCK FALSE
