SPECIFICATION FairPaySpec

CONSTANTS
    NULL = NULL
    Orders = {o1}
    Invoices = {i1}
    Deliveries = {d1, d2}
    Requests = {r1, r2}
    Amounts = {1}
    Workers = {w1}
    Faults = {"verify"}

PROPERTIES
    PaidIsSettled

CHECK_DEADLOCK FALSE
