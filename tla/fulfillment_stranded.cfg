SPECIFICATION FairWorkSpec

CONSTANTS
    NULL = NULL
    Orders = {o1}
    Invoices = {i1}
    Deliveries = {d1}
    Amounts = {1}
    Workers = {w1}
    Providers = {"manual", "external"}
    Faults = {"crash"}

PROPERTIES
    QueuedIsResolved

CHECK_DEADLOCK FALSE
