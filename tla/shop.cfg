SPECIFICATION ShopSpec

CONSTANTS
    NULL = NULL
    Orders = {o1, o2}
    Invoices = {i1, i2}
    Deliveries = {d1}
    Requests = {r1}
    Amounts = {1, 2}
    Workers = {w1}
    Providers = {"external"}
    Users = {u1, u2}
    Chats = {c1}
    Offerings = {f1, f2}
    Sessions = {s1, s2}
    Price <- PriceList
    MaxChoices = 1
    Faults = {"crash", "misprice", "create_invoice"}

INVARIANTS
    GoodsAsConfirmed
    InvoicedOnce

SYMMETRY Symmetry

CHECK_DEADLOCK FALSE
