----------------------------- MODULE Transactions -----------------------------
(***************************************************************************)
(* The transactions of src/db/mod.rs taken apart at the statements that    *)
(* wait: connections of the pool, row locks, and the keys that uncommitted *)
(* insertions reserve.  OrderStore has each transaction as one step; here  *)
(* that is what has to be shown.                                           *)
(*                                                                         *)
(* PostgreSQL is outside the repository and modelled from its READ         *)
(* COMMITTED level, which the code does not change: a statement sees what  *)
(* is committed, waits for a row that another transaction has locked and   *)
(* then looks at the row again, and a transaction's writes are seen by     *)
(* nobody before its COMMIT.  The statements after the last lock wait for  *)
(* nothing and are part of the COMMIT.  finalize_checkout, whose lock is   *)
(* the session's, is treated in CheckoutFlow.                              *)
(***************************************************************************)
EXTENDS OrderStore, FiniteSets

CONSTANTS
    Txs,       \* transactions that can be open or waited for at a time
    PoolSize   \* connections of the pool (12 in connect_and_migrate)

ASSUME PoolAssumption == PoolSize \in Nat \ {0}

VARIABLES
    call,      \* per transaction, the method it serves and its arguments
    stage,     \* how many of its rows it has locked
    saw,       \* what its locking SELECT returned
    claimed    \* per worker, the job it was told to have claimed

txVars == <<call, stage, saw, claimed>>
vars == <<storeVars, txVars>>

-----------------------------------------------------------------------------

Ops == {"register", "mark_failed", "record", "settle", "claim", "finish"}
Call == [op: Ops \cup {"none"}, order: Orders \cup {NULL}, invoice: Invoices \cup {NULL},
         amount: Amounts \cup {NULL}, delivery: Deliveries \cup {NULL},
         worker: Workers \cup {NULL}, result: FulfillmentResult \cup {"none"}]
Sight == [order: OrderRow, attempts: Nat]

NoCall == [op |-> "none", order |-> NULL, invoice |-> NULL, amount |-> NULL,
           delivery |-> NULL, worker |-> NULL, result |-> "none"]
NoSight == [order |-> NoOrder, attempts |-> 0]

TxInit ==
    /\ StoreInit
    /\ call = [t \in Txs |-> NoCall]
    /\ stage = [t \in Txs |-> 0]
    /\ saw = [t \in Txs |-> NoSight]
    /\ claimed = [w \in Workers |-> NULL]

-----------------------------------------------------------------------------
(* A bug: the settlement joins and locks the job, and the order before it. *)
SettlementRowsWithJob(i, o) == << <<"order", o>>, <<"job", o>>, <<"new job", o>> >>

SettlementRows(i, o) == << <<"payment", i>>, <<"order", o>>, <<"new job", o>> >>

(* The rows that a method locks, in the order in which its statements do.  *)
(* A "new" row is the key of an insertion, on which another insertion of   *)
(* the same key waits: ON CONFLICT DO NOTHING waits for no row that is     *)
(* committed.  An event's foreign key locks its order, where nothing else  *)
(* has; the retry's claim, whose UPDATE of the order finds no match, waits *)
(* for the order all the same here.                                        *)
Rows(c) ==
    LET o == c.order IN
    CASE c.op = "register" -> << <<"order", o>>, <<"new payment", c.invoice>> >>
      [] c.op = "mark_failed" -> << <<"order", o>> >>
      [] c.op = "record" -> << <<"new delivery", c.delivery>> >>
      [] c.op = "settle" -> SettlementRows(c.invoice, o)
      [] c.op \in {"claim", "finish"} -> << <<"job", o>>, <<"order", o>> >>
      [] OTHER -> << >>

(* The method's SELECT ... FOR UPDATE has returned once k rows are locked. *)
Reads(op, k) == <<op, k>> \in {<<"settle", 2>>, <<"finish", 1>>}

Open(t) == call[t].op # "none"
Held(t) == {Rows(call[t])[k] : k \in 1 .. stage[t]}

(* A bug: the SELECT of settle_aban_payment takes no lock.                 *)
FreeToRead(t, row) == call[t].op = "settle" \/ \A u \in Txs \ {t} : row \notin Held(u)

Free(t, row) == \A u \in Txs \ {t} : row \notin Held(u)

(* A bug: add_event asks the pool for a connection.                        *)
EventFromPool == 1

(* Connections that add_event takes: it runs on the transaction's own.     *)
EventConnections == 0

FreeConnections == PoolSize - Cardinality({t \in Txs : Open(t)})

-----------------------------------------------------------------------------
(* A method is called and gets a connection.                               *)
Begin(t, c) ==
    /\ ~Open(t)
    /\ FreeConnections > 0
    /\ call' = [call EXCEPT ![t] = c]
    /\ UNCHANGED <<storeVars, stage, saw, claimed>>

(* An order has one handler; it registers or gives up, once.               *)
HandlerFree(o) ==
    /\ orders[o].status = "payment_creating"
    /\ \A t \in Txs : call[t].op \in {"register", "mark_failed"} => call[t].order # o

WorkerFree(w) == \A t \in Txs : call[t].worker # w

Start(t) ==
    \/ \E o \in Orders : /\ HandlerFree(o)
                         /\ \/ Begin(t, [NoCall EXCEPT !.op = "mark_failed", !.order = o])
                            \/ \E i \in Invoices :
                                 Begin(t, [NoCall EXCEPT !.op = "register", !.order = o, !.invoice = i])
    \/ \E d \in Deliveries : Begin(t, [NoCall EXCEPT !.op = "record", !.delivery = d])
    \/ \E i \in Invoices, a \in Amounts :
         Begin(t, [NoCall EXCEPT !.op = "settle", !.invoice = i, !.amount = a])
    \/ \E w \in Workers : /\ WorkerFree(w)
                          /\ claimed[w] = NULL
                          /\ Begin(t, [NoCall EXCEPT !.op = "claim", !.worker = w])
    \/ \E w \in Workers, r \in FulfillmentResult :
         /\ WorkerFree(w)
         /\ claimed[w] # NULL
         /\ Begin(t, [NoCall EXCEPT !.op = "finish", !.worker = w, !.order = claimed[w], !.result = r])

-----------------------------------------------------------------------------
(* What the next statement asks of the committed row before it locks it;   *)
(* if that fails the method bails out, or commits having done nothing.     *)
Qualifies(t) ==
    LET c == call[t]
        k == stage[t] + 1 IN
    /\ c.op = "register" /\ k = 1 => orders[c.order].status = "payment_creating"
    /\ c.op = "register" /\ k = 2 => payments[c.invoice].status = "absent"
    /\ c.op = "record" => IsNewDelivery(c.delivery)
    /\ c.op = "settle" /\ k = 3 => /\ c.amount = saw[t].order.amount
                                   /\ saw[t].order.status = "awaiting_payment"

(* The rows of a claim and of a settlement are not given but found.        *)
Searching(t) == call[t].op \in {"settle", "claim"} /\ call[t].order = NULL

Wants(t) == Open(t) /\ ~Searching(t) /\ stage[t] < Len(Rows(call[t]))

Advance(t, o) ==
    /\ stage' = [stage EXCEPT ![t] = @ + 1]
    /\ saw' = IF Reads(call[t].op, stage[t] + 1)
              THEN [saw EXCEPT ![t] = [order |-> orders[o], attempts |-> jobs[o].attempts]]
              ELSE saw
    /\ UNCHANGED <<storeVars, claimed>>

Lock(t) ==
    /\ Wants(t)
    /\ Qualifies(t)
    /\ Free(t, Rows(call[t])[stage[t] + 1])
    /\ Advance(t, call[t].order)
    /\ UNCHANGED call

(* The SELECT of a settlement finds the rows before it locks them.         *)
FindPayment(t) ==
    LET i == call[t].invoice IN
    /\ Searching(t)
    /\ call[t].op = "settle"
    /\ payments[i].status # "absent"
    /\ call' = [call EXCEPT ![t].order = payments[i].order]
    /\ UNCHANGED <<storeVars, stage, saw, claimed>>

(* FOR UPDATE SKIP LOCKED LIMIT 1.                                         *)
Candidates(t) == {o \in Orders : Claimable(o) /\ Free(t, <<"job", o>>)}

PickJob(t) ==
    /\ Searching(t)
    /\ call[t].op = "claim"
    /\ \E o \in Candidates(t) : call' = [call EXCEPT ![t].order = o] /\ Advance(t, o)

-----------------------------------------------------------------------------
(* The connection is given back, the locks are gone.                       *)
End(t) ==
    /\ call' = [call EXCEPT ![t] = NoCall]
    /\ stage' = [stage EXCEPT ![t] = 0]
    /\ saw' = [saw EXCEPT ![t] = NoSight]

Told(w, o) == claimed' = [claimed EXCEPT ![w] = o]

(* A worker finishes its job once, whatever becomes of the call.           *)
Forgets(t) == IF call[t].op = "finish" THEN Told(call[t].worker, NULL) ELSE UNCHANGED claimed

GiveUp(t) ==
    /\ \/ Wants(t) /\ ~Qualifies(t)
       \/ Searching(t) /\ IF call[t].op = "claim" THEN Candidates(t) = {}
                          ELSE payments[call[t].invoice].status = "absent"
    /\ End(t)
    /\ Forgets(t)
    /\ UNCHANGED storeVars

Effect(c, s) ==
    \/ c.op = "register" /\ RegisterInvoice(c.order, c.invoice)
    \/ c.op = "mark_failed" /\ MarkCreationFailed(c.order)
    \/ c.op = "record" /\ RecordDelivery(c.delivery)
    \/ c.op = "settle" /\ SettlePayment(c.invoice)
    \/ c.op = "claim" /\ TakeJob(c.order, c.worker)
    \/ c.op = "finish" /\ FileJob(c.order, Filing(c.result, s.attempts))

Commit(t) ==
    /\ Open(t)
    /\ stage[t] = Len(Rows(call[t]))
    /\ call[t].op \in {"record", "claim"} \/ FreeConnections >= EventConnections
    /\ Effect(call[t], saw[t])
    /\ End(t)
    /\ \/ call[t].op = "claim" /\ Told(call[t].worker, call[t].order)
       \/ call[t].op = "claim" /\ "unknown_commit" \in Faults /\ UNCHANGED claimed
       \/ call[t].op # "claim" /\ Forgets(t)

(* An error, a broken connection or the end of the process rolls back.     *)
Rollback(t) ==
    /\ "crash" \in Faults
    /\ Open(t)
    /\ End(t)
    /\ Forgets(t)
    /\ UNCHANGED storeVars

(* A worker's process ends while it delivers.                              *)
WorkerLost(w) ==
    /\ "crash" \in Faults
    /\ WorkerFree(w)
    /\ Told(w, NULL)
    /\ UNCHANGED <<storeVars, call, stage, saw>>

-----------------------------------------------------------------------------

Proceed(t) == FindPayment(t) \/ PickJob(t) \/ GiveUp(t) \/ Commit(t)

Outside ==
    /\ \/ \E o \in Orders, a \in Amounts : InsertOrder(o, a)
       \/ \E o \in Orders : BackoffElapses(o) \/ LeaseAges(o)
    /\ UNCHANGED txVars

TxNext ==
    \/ \E t \in Txs : Start(t) \/ Lock(t) \/ Proceed(t) \/ Rollback(t)
    \/ \E w \in Workers : WorkerLost(w)
    \/ Outside

TxSpec == TxInit /\ [][TxNext]_vars

(* The server carries out the statements; a row lock goes round among      *)
(* those who queue for it (strong fairness).  No method has to be called.  *)
TxFairness == \A t \in Txs : WF_vars(Proceed(t)) /\ SF_vars(Lock(t))

FairTxSpec == TxSpec /\ TxFairness

-----------------------------------------------------------------------------
(* Properties.                                                             *)

(* Every variable has its type.                                            *)
TxTypeOK ==
    /\ StoreTypeOK
    /\ call \in [Txs -> Call]
    /\ stage \in [Txs -> 0 .. 3]
    /\ saw \in [Txs -> Sight]
    /\ claimed \in [Workers -> Orders \cup {NULL}]

(* What others see of the tables changes by whole transactions that decide *)
(* on the rows as they are: no settlement, claim or result is based on a   *)
(* row that somebody else changed after it was read.                       *)
Serial == StoreSpec

(* No transactions wait for each other in a circle: settlement, claim and  *)
(* finish lock orders and jobs, and not all in the same order.             *)
WaitsFor(t, u) == /\ t # u
                  /\ Wants(t)
                  /\ Qualifies(t)
                  /\ Rows(call[t])[stage[t] + 1] \in Held(u)

NoWaitCycle == \A S \in (SUBSET Txs) \ {{}} : \E t \in S : \A u \in S : ~WaitsFor(t, u)

(* Every transaction ends and gives its connection back, however small the *)
(* pool.                                                                   *)
EveryTransactionEnds == \A t \in Txs : Open(t) ~> ~Open(t)

-----------------------------------------------------------------------------
(* The inductive invariant behind Serial: a locked row has one holder, so  *)
(* that what a transaction has read or tested of it stays true.            *)
LocksExclusive == \A t, u \in Txs : t # u => Held(t) \cap Held(u) = {}

Arguments(t) ==
    LET c == call[t] IN
    /\ stage[t] <= Len(Rows(c))
    /\ Searching(t) => stage[t] = 0
    /\ c.op = "claim" => Searching(t) \/ stage[t] > 0
    /\ c.op \in {"register", "mark_failed", "finish"} => c.order # NULL
    /\ c.op \in {"register", "settle"} => c.invoice # NULL
    /\ c.op = "record" => c.delivery # NULL
    /\ c.op = "settle" => c.amount # NULL
    /\ c.op \in {"claim", "finish"} => c.worker # NULL
    /\ c.op = "finish" => c.result # "none"

Knows(t) ==
    LET c == call[t] IN
    /\ c.op = "register" /\ stage[t] > 0 => orders[c.order].status = "payment_creating"
    /\ c.op = "register" /\ stage[t] > 1 => payments[c.invoice].status = "absent"
    /\ c.op = "record" /\ stage[t] > 0 => IsNewDelivery(c.delivery)
    /\ c.op = "settle" /\ c.order # NULL => /\ payments[c.invoice].status # "absent"
                                            /\ payments[c.invoice].order = c.order
    /\ c.op = "settle" /\ stage[t] > 1 => /\ orders[c.order].status # "absent"
                                          /\ saw[t].order = orders[c.order]
    /\ c.op = "settle" /\ stage[t] > 2 => /\ saw[t].order.status = "awaiting_payment"
                                          /\ saw[t].order.amount = c.amount
    /\ c.op = "claim" /\ stage[t] > 0 => Claimable(c.order)
    /\ c.op = "finish" => claimed[c.worker] = c.order
    /\ c.op = "finish" /\ stage[t] > 0 => saw[t].attempts = jobs[c.order].attempts

OneCallPerWorker ==
    \A t, u \in Txs : call[t].worker = call[u].worker /\ call[t].worker # NULL => t = u

WorkersKnow ==
    \A w \in Workers : claimed[w] # NULL => /\ jobs[claimed[w]].status = "processing"
                                           /\ jobs[claimed[w]].owner = w

PaymentsHaveOrders ==
    \A i \in Invoices : payments[i].status # "absent"
                            => orders[payments[i].order].status # "absent"

TxInv ==
    /\ TxTypeOK
    /\ LocksExclusive
    /\ \A t \in Txs : Arguments(t) /\ Knows(t)
    /\ OneCallPerWorker
    /\ WorkersKnow
    /\ PaymentsHaveOrders
===============================================================================
