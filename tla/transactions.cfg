SPECIFICATION FairTxSpec

CONSTANTS
    NULL = NULL
    Orders = {o1}
    Invoices = {i1}
    Deliveries = {d1}
    Amounts = {1}
    Workers = {w1, w2}
    Txs = {t1, t2, t3}
    PoolSize = 2
    Faults = {"crash", "unknown_commit"}

INVARIANTS
    NoWaitCycle
    TablesAgree
    TxInv

PROPERTIES
    Serial
    EveryTransactionEnds
