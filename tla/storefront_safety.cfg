SPECIFICATION Spec

CONSTANTS
    NULL = NULL
    Orders = {o1}
    Invoices = {i1}
    Deliveries = {d1, d2}
    Requests = {r1, r2}
    Amounts = {1, 2}
    Workers = {w1, w2}
    Providers = {"manual", "external"}
    Faults = {"finalize", "create_invoice", "misprice", "register", "mark_failed", "send", "ack", "record", "verify", "settle", "unknown_commit", "crash", "claim", "connector", "finish", "hang"}

INVARIANTS
    TypeOK
    PromiseInv
    JournalTellsStatus
    OnlyPaidIsPosted
    LinkedInvoiceRegistered
    SettledMeansPaidInFull
    SettledOnce
    ClaimExclusive
    AttemptsBounded
    GoodsAgree

PROPERTIES
    StatusChain
    PromiseKept

SYMMETRY Symmetry

CHECK_DEADLOCK FALSE
