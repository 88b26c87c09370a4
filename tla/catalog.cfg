SPECIFICATION Spec
CONSTANTS
    p1 = p1
    p2 = p2
    k1 = k1
    k2 = k2
    Products = {p1, p2}
    Skus = {k1, k2}
    Whole = Whole
    Sheet <- Goods
    Traits <- AllTraits
    Pieces <- Split
    Cap = 1
    Limit <- PageLimits
    Attempts <- Tries
    Queries <- Asked
    Requests <- ById
    Edited = {p1}
    MaxVersion = 1
INVARIANTS TypeOK OffersFound FacetsLead
PROPERTIES ItemsCurrent
