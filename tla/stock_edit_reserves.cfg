SPECIFICATION Spec
CONSTANTS
    s1 = s1
    s2 = s2
    o1 = o1
    o2 = o2
    c1 = c1
    c2 = c2
    x1 = x1
    i1 = i1
    Skus = {s1}
    Orders = {o1}
    Clients = {c1}
    Sellers = {x1}
    Invoices = {}
    Initial = 1
    OrderItems <- Single
    InvoiceItems <- OneEach
    Quantities = {1}
SYMMETRY Interchangeable
INVARIANTS ReservesPreserved
