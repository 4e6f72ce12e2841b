SPECIFICATION FairSpec

CONSTANTS
    NULL = NULL
    Orders = {o1}
    Invoices = {i1}
    Deliveries = {d1}
    Requests = {r1, r2}
    Amounts = {1}
    Workers = {w1, w2}
    Providers = {"manual", "external"}
    Faults = {"create_invoice", "send", "ack", "record", "connector"}

INVARIANTS
    NothingForgotten

PROPERTIES
    QueuedIsResolved
    PaidIsResolved

CHECK_DEADLOCK FALSE
