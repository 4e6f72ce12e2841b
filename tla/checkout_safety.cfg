SPECIFICATION CheckoutSpec

CONSTANTS
    NULL = NULL
    Orders = {o1, o2}
    Invoices = {i1}
    Deliveries = {}
    Requests = {}
    Amounts = {1, 2}
    Workers = {}
    Users = {u1, u2}
    Chats = {c1, c2}
    Offerings = {f1, f2}
    Sessions = {s1, s2}
    Price <- PriceList
    MaxChoices = 2
    Faults = {"finalize", "cancel", "unknown_commit", "crash"}

INVARIANTS
    CheckoutTypeOK
    OneOrderPerSession
    OrderAsConfirmed
    ChoiceUsedOnce
    CheckoutInv

SYMMETRY Symmetry

CHECK_DEADLOCK FALSE
