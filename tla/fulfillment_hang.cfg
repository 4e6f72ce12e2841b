SPECIFICATION FairWorkSpec

CONSTANTS
    NULL = NULL
    Orders = {o1, o2}
    Invoices = {i1, i2}
    Deliveries = {d1}
    Amounts = {1}
    Workers = {w1}
    Providers = {"external"}
    Faults = {"hang"}

PROPERTIES
    EveryJobGetsItsTurn

CHECK_DEADLOCK FALSE
