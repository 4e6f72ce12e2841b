--------------------------- MODULE TransactionProofs ---------------------------
(***************************************************************************)
(* For any number of connections, handlers and rows, the transactions of   *)
(* src/db/mod.rs change the tables as if each were one atomic step.        *)
(***************************************************************************)
EXTENDS Transactions, StoreProofs

-----------------------------------------------------------------------------
(* Which rows a transaction holds.                                         *)

(* The rows that a method locks, one by one.                               *)
LEMMA RowsAt ==
  ASSUME NEW c
  PROVE  /\ c.op = "none" => Len(Rows(c)) = 0
         /\ c.op = "register" => /\ Len(Rows(c)) = 2
                                 /\ Rows(c)[1] = <<"order", c.order>>
                                 /\ Rows(c)[2] = <<"new payment", c.invoice>>
         /\ c.op = "mark_failed" => Len(Rows(c)) = 1 /\ Rows(c)[1] = <<"order", c.order>>
         /\ c.op = "record" => Len(Rows(c)) = 1 /\ Rows(c)[1] = <<"new delivery", c.delivery>>
         /\ c.op = "settle" => Len(Rows(c)) = 3 /\ Rows(c)[2] = <<"order", c.order>>
         /\ c.op \in {"claim", "finish"} => /\ Len(Rows(c)) = 2
                                            /\ Rows(c)[1] = <<"job", c.order>>
                                            /\ Rows(c)[2] = <<"order", c.order>>
<1>1. c.op = "none" => Len(Rows(c)) = 0 BY DEF Rows
<1>2. c.op = "register" => /\ Len(Rows(c)) = 2
                           /\ Rows(c)[1] = <<"order", c.order>>
                           /\ Rows(c)[2] = <<"new payment", c.invoice>>
  BY DEF Rows
<1>3. c.op = "mark_failed" => Len(Rows(c)) = 1 /\ Rows(c)[1] = <<"order", c.order>>
  BY DEF Rows
<1>4. c.op = "record" => Len(Rows(c)) = 1 /\ Rows(c)[1] = <<"new delivery", c.delivery>>
  BY DEF Rows
<1>5. c.op = "settle" => Len(Rows(c)) = 3 /\ Rows(c)[2] = <<"order", c.order>>
  BY DEF Rows, SettlementRows
<1>6. c.op = "claim" => /\ Len(Rows(c)) = 2
                        /\ Rows(c)[1] = <<"job", c.order>>
                        /\ Rows(c)[2] = <<"order", c.order>>
  BY DEF Rows
<1>7. c.op = "finish" => /\ Len(Rows(c)) = 2
                         /\ Rows(c)[1] = <<"job", c.order>>
                         /\ Rows(c)[2] = <<"order", c.order>>
  BY DEF Rows
<1>. QED BY <1>1, <1>2, <1>3, <1>4, <1>5, <1>6, <1>7

(* No method locks more than three.                                        *)
LEMMA RowsCount ==
  ASSUME NEW c, c.op \in Ops \cup {"none"}
  PROVE  Len(Rows(c)) \in 0 .. 3
<1>1. c.op = "none" => Len(Rows(c)) = 0 BY RowsAt
<1>2. c.op = "register" => Len(Rows(c)) = 2 BY RowsAt
<1>3. c.op = "mark_failed" => Len(Rows(c)) = 1 BY RowsAt
<1>4. c.op = "record" => Len(Rows(c)) = 1 BY RowsAt
<1>5. c.op = "settle" => Len(Rows(c)) = 3 BY RowsAt
<1>6. c.op \in {"claim", "finish"} => Len(Rows(c)) = 2 BY RowsAt
<1>. QED BY <1>1, <1>2, <1>3, <1>4, <1>5, <1>6 DEF Ops

(* A transaction that has locked nothing holds nothing.                    *)
LEMMA HoldsNothing ==
  ASSUME NEW t \in Txs, stage[t] = 0
  PROVE  Held(t) = {}
  BY DEF Held

(* What a transaction holds follows from how many locks it has taken.      *)
LEMMA HoldsRows ==
  ASSUME NEW t \in Txs, stage[t] \in 0 .. 3
  PROVE  /\ call[t].op = "register" /\ stage[t] > 0 => <<"order", call[t].order>> \in Held(t)
         /\ call[t].op = "register" /\ stage[t] > 1
              => <<"new payment", call[t].invoice>> \in Held(t)
         /\ call[t].op = "mark_failed" /\ stage[t] > 0 => <<"order", call[t].order>> \in Held(t)
         /\ call[t].op = "record" /\ stage[t] > 0
              => <<"new delivery", call[t].delivery>> \in Held(t)
         /\ call[t].op = "settle" /\ stage[t] > 1 => <<"order", call[t].order>> \in Held(t)
         /\ call[t].op \in {"claim", "finish"} /\ stage[t] > 0
              => <<"job", call[t].order>> \in Held(t)
         /\ call[t].op \in {"claim", "finish"} /\ stage[t] > 1
              => <<"order", call[t].order>> \in Held(t)
<1>1. stage[t] > 0 => Rows(call[t])[1] \in Held(t) BY DEF Held
<1>2. stage[t] > 1 => Rows(call[t])[2] \in Held(t) BY DEF Held
<1>. QED BY <1>1, <1>2, RowsAt

-----------------------------------------------------------------------------
(* What a transaction knows survives the steps of others that leave alone  *)
(* what it holds.                                                          *)
Spares(u) ==
    /\ \A p \in Orders : <<"order", p>> \in Held(u) /\ orders[p].status # "absent"
                           => orders'[p] = orders[p]
    /\ \A i \in Invoices : <<"new payment", i>> \in Held(u) /\ payments[i].status = "absent"
                             => payments'[i].status = "absent"
    /\ \A i \in Invoices : payments[i].status # "absent"
                             => payments'[i].status # "absent" /\ payments'[i].order = payments[i].order
    /\ \A p \in Orders : <<"job", p>> \in Held(u) /\ jobs[p].status # "absent"
                           => /\ Claimable(p) => Claimable(p)'
                              /\ jobs'[p].attempts = jobs[p].attempts
    /\ \A d \in Deliveries : <<"new delivery", d>> \in Held(u) /\ d \notin recorded => d \notin recorded'

(* The transaction itself takes no step.                                   *)
Waits(u) ==
    /\ call'[u] = call[u]
    /\ stage'[u] = stage[u]
    /\ saw'[u] = saw[u]
    /\ call[u].op = "finish" => claimed'[call[u].worker] = claimed[call[u].worker]

(* A transaction that waits while others spare its rows knows what it      *)
(* knew.                                                                   *)
LEMMA StillKnows ==
  ASSUME TxInv, NEW u \in Txs, Spares(u), Waits(u)
  PROVE  Arguments(u)' /\ Knows(u)'
<1>1. stage[u] \in 0 .. 3 /\ call[u] \in Call BY DEF TxInv, TxTypeOK
<1>2. Arguments(u) /\ Knows(u) BY DEF TxInv
<1>3. Arguments(u)' BY <1>2 DEF Arguments, Searching, Waits
<1>4. stage[u] > 0 => call[u].order # NULL \/ call[u].op \in {"none", "record"}
  BY <1>1, <1>2 DEF Arguments, Searching, Call, Ops
<1>5. call[u].order \in Orders \cup {NULL} /\ call[u].invoice \in Invoices \cup {NULL}
      /\ call[u].delivery \in Deliveries \cup {NULL} /\ call[u].worker \in Workers \cup {NULL}
  BY <1>1 DEF Call
<1>. DEFINE c == call[u]
            k == stage[u]
<1>6. /\ c.op = "register" /\ k > 0 => orders'[c.order].status = "payment_creating"
      /\ c.op = "register" /\ k > 1 => payments'[c.invoice].status = "absent"
  BY <1>1, <1>2, <1>4, <1>5, HoldsRows DEF Spares, Arguments, Knows
<1>7. c.op = "record" /\ k > 0 => IsNewDelivery(c.delivery)'
  BY <1>1, <1>2, <1>4, <1>5, HoldsRows DEF Spares, Arguments, Knows, IsNewDelivery, Waits
<1>8. c.op = "settle" /\ c.order # NULL => /\ payments'[c.invoice].status # "absent"
                                           /\ payments'[c.invoice].order = c.order
  BY <1>2, <1>5 DEF Spares, Arguments, Knows
<1>9. ASSUME c.op = "settle", k > 1
       PROVE  orders'[c.order].status # "absent" /\ saw'[u].order = orders'[c.order]
  <2>1. c.order \in Orders BY <1>1, <1>4, <1>5, <1>9
  <2>2. <<"order", c.order>> \in Held(u) /\ orders[c.order].status # "absent"
    BY <1>1, <1>2, <1>9, HoldsRows DEF Knows
  <2>3. orders'[c.order] = orders[c.order] BY <2>1, <2>2 DEF Spares
  <2>. QED BY <1>2, <1>9, <2>3 DEF Knows, Waits
<1>10. c.op = "settle" /\ k > 2 => /\ saw'[u].order.status = "awaiting_payment"
                                  /\ saw'[u].order.amount = c.amount
  BY <1>2 DEF Knows, Waits
<1>11. c.op = "claim" /\ k > 0 => Claimable(c.order)'
  BY <1>1, <1>2, <1>4, <1>5, HoldsRows DEF Spares, Arguments, Knows, Waits, Claimable
<1>12. /\ c.op = "finish" => claimed'[c.worker] = c.order
       /\ c.op = "finish" /\ k > 0 => saw'[u].attempts = jobs'[c.order].attempts
  <2>1. c.op = "finish" => jobs[c.order].status = "processing"
    BY <1>2, <1>5 DEF TxInv, WorkersKnow, Arguments, Knows
  <2>. QED BY <1>1, <1>2, <1>4, <1>5, <2>1, HoldsRows DEF Spares, Arguments, Knows, Waits
<1>13. Knows(u)' BY <1>6, <1>7, <1>8, <1>9, <1>10, <1>11, <1>12 DEF Knows, Waits
<1>. QED BY <1>3, <1>13

(* A transaction that is done has what it wrote about locked, and what it  *)
(* knows then.                                                             *)
Done(t) == Open(t) /\ stage[t] = Len(Rows(call[t])) /\ Effect(call[t], saw[t])

LEMMA DoneArguments ==
  ASSUME TxInv, NEW t \in Txs, Done(t)
  PROVE  /\ call[t] \in Call /\ saw[t] \in Sight /\ call[t].op \in Ops
         /\ Arguments(t) /\ Knows(t)
         /\ call[t].op \in {"mark_failed", "record"} => stage[t] = 1
         /\ call[t].op \in {"register", "claim", "finish"} => stage[t] = 2
         /\ call[t].op = "settle" => stage[t] = 3
         /\ call[t].op # "record" => call[t].order \in Orders
<1>1. call[t] \in Call /\ saw[t] \in Sight /\ stage[t] \in 0 .. 3 /\ call[t].op \in Ops
  BY DEF TxInv, TxTypeOK, Done, Open, Call
<1>2. Arguments(t) /\ Knows(t) BY DEF TxInv
<1>3. stage[t] = Len(Rows(call[t])) BY DEF Done
<1>4. /\ call[t].op \in {"mark_failed", "record"} => stage[t] = 1
      /\ call[t].op \in {"register", "claim", "finish"} => stage[t] = 2
      /\ call[t].op = "settle" => stage[t] = 3
  BY <1>3, RowsAt
<1>5. stage[t] > 0 BY <1>1, <1>4 DEF Ops
<1>6. ~Searching(t) BY <1>2, <1>5 DEF Arguments
<1>7. call[t].op # "record" => call[t].order # NULL BY <1>1, <1>2, <1>6 DEF Arguments, Searching, Ops
<1>. QED BY <1>1, <1>2, <1>4, <1>7 DEF Call

(* What a transaction that is done holds.                                  *)
LEMMA DoneHolds ==
  ASSUME TxInv, NEW t \in Txs, Done(t)
  PROVE  /\ call[t].op # "record" => <<"order", call[t].order>> \in Held(t)
         /\ call[t].op = "record" => <<"new delivery", call[t].delivery>> \in Held(t)
         /\ call[t].op = "register" => <<"new payment", call[t].invoice>> \in Held(t)
         /\ call[t].op \in {"claim", "finish"} => <<"job", call[t].order>> \in Held(t)
<1>1. /\ call[t].op \in Ops
      /\ call[t].op \in {"mark_failed", "record"} => stage[t] = 1
      /\ call[t].op \in {"register", "claim", "finish"} => stage[t] = 2
      /\ call[t].op = "settle" => stage[t] = 3
  BY DoneArguments
<1>2. stage[t] \in 0 .. 3 BY <1>1 DEF Ops
<1>3. stage[t] > 0 /\ (call[t].op \in {"register", "claim", "finish", "settle"} => stage[t] > 1)
  BY <1>1 DEF Ops
<1>. QED BY <1>1, <1>2, <1>3, HoldsRows DEF Ops

(* Every row that a transaction writes is one that it holds, and a row of  *)
(* another table changes only as the readers of that table can bear.       *)
LEMMA CommitSpares ==
  ASSUME TxInv, NEW t \in Txs, NEW u \in Txs, t # u, Done(t)
  PROVE  Spares(u)
<1>. DEFINE c == call[t]
<1>1. /\ Knows(t) /\ Arguments(t) /\ c \in Call
      /\ c.op = "register" => stage[t] = 2
      /\ c.op # "record" => c.order \in Orders
  BY DoneArguments
<1>2. Held(t) \cap Held(u) = {} BY DEF TxInv, LocksExclusive
<1>3. StoreTypeOK BY DEF TxInv, TxTypeOK
<1>4. CASE c.op = "register" /\ RegisterInvoice(c.order, c.invoice)
  <2>1. <<"order", c.order>> \notin Held(u) /\ <<"new payment", c.invoice>> \notin Held(u)
    BY <1>2, <1>4, DoneHolds
  <2>2. payments[c.invoice].status = "absent" BY <1>1, <1>4 DEF Knows
  <2>3. \A p \in Orders : p # c.order => orders'[p] = orders[p]
    BY <1>3, <1>4 DEF RegisterInvoice, SetStatus, StoreTypeOK
  <2>4. \A i \in Invoices : i # c.invoice => payments'[i] = payments[i]
    BY <1>3, <1>4 DEF RegisterInvoice, StoreTypeOK
  <2>5. jobs' = jobs /\ recorded' = recorded BY <1>4 DEF RegisterInvoice
  <2>. QED BY <2>1, <2>2, <2>3, <2>4, <2>5 DEF Spares, Claimable
<1>5. CASE c.op = "mark_failed" /\ MarkCreationFailed(c.order)
  <2>1. <<"order", c.order>> \notin Held(u)
    BY <1>2, <1>5, DoneHolds
  <2>2. \A p \in Orders : p # c.order => orders'[p] = orders[p]
    BY <1>3, <1>5 DEF MarkCreationFailed, SetStatus, StoreTypeOK
  <2>3. jobs' = jobs /\ recorded' = recorded /\ payments' = payments BY <1>5 DEF MarkCreationFailed
  <2>. QED BY <2>1, <2>2, <2>3 DEF Spares, Claimable
<1>6. CASE c.op = "record" /\ RecordDelivery(c.delivery)
  <2>1. <<"new delivery", c.delivery>> \notin Held(u)
    BY <1>2, <1>6, DoneHolds
  <2>2. recorded' = recorded \cup {c.delivery} BY <1>6 DEF RecordDelivery
  <2>3. jobs' = jobs /\ orders' = orders /\ payments' = payments BY <1>6 DEF RecordDelivery
  <2>. QED BY <2>1, <2>2, <2>3 DEF Spares, Claimable
<1>7. CASE c.op = "settle" /\ SettlePayment(c.invoice)
  <2>1. <<"order", c.order>> \notin Held(u)
    BY <1>2, <1>7, DoneHolds
  <2>2. payments[c.invoice].order = c.order /\ payments[c.invoice].status # "absent"
    BY <1>1, <1>7, NullAssumption DEF Knows
  <2>3. \A p \in Orders : p # c.order => orders'[p] = orders[p]
    BY <1>3, <1>7, <2>2 DEF SettlePayment, SetStatus, StoreTypeOK
  <2>4. \A p \in Orders : jobs[p].status # "absent" => jobs'[p] = jobs[p]
    BY <1>3, <1>7, <2>2 DEF SettlePayment, StoreTypeOK
  <2>5. recorded' = recorded BY <1>7 DEF SettlePayment
  <2>6. \A i \in Invoices : payments'[i].order = payments[i].order
          /\ payments'[i].status = IF i = c.invoice THEN "paid" ELSE payments[i].status
    BY <1>3, <1>7 DEF SettlePayment, StoreTypeOK, PaymentRow
  <2>. QED BY <2>1, <2>2, <2>3, <2>4, <2>5, <2>6 DEF Spares, Claimable
<1>8. CASE c.op = "claim" /\ TakeJob(c.order, c.worker)
  <2>1. <<"order", c.order>> \notin Held(u) /\ <<"job", c.order>> \notin Held(u)
    BY <1>2, <1>8, DoneHolds
  <2>2. \A p \in Orders : p # c.order => orders'[p] = orders[p] /\ jobs'[p] = jobs[p]
    BY <1>3, <1>8 DEF TakeJob, SetStatus, StoreTypeOK
  <2>3. recorded' = recorded /\ payments' = payments BY <1>8 DEF TakeJob
  <2>. QED BY <2>1, <2>2, <2>3 DEF Spares, Claimable
<1>9. CASE c.op = "finish" /\ FileJob(c.order, Filing(c.result, saw[t].attempts))
  <2>1. <<"order", c.order>> \notin Held(u) /\ <<"job", c.order>> \notin Held(u)
    BY <1>2, <1>9, DoneHolds
  <2>2. \A p \in Orders : p # c.order => orders'[p] = orders[p] /\ jobs'[p] = jobs[p]
    BY <1>3, <1>9 DEF FileJob, SetStatus, StoreTypeOK
  <2>3. recorded' = recorded /\ payments' = payments BY <1>9 DEF FileJob
  <2>. QED BY <2>1, <2>2, <2>3 DEF Spares, Claimable
<1>. QED BY <1>4, <1>5, <1>6, <1>7, <1>8, <1>9 DEF Done, Effect

-----------------------------------------------------------------------------
(* A transaction that is done changes the tables as one atomic step would: *)
(* what it read and tested before still holds.                             *)
LEMMA CommitChanges ==
  ASSUME TxInv, NEW t \in Txs, Done(t)
  PROVE  StoreChange
<1>. DEFINE c == call[t]
<1>1. /\ Knows(t) /\ Arguments(t) /\ c \in Call /\ saw[t] \in Sight
      /\ c.op \in {"register", "claim", "finish"} => stage[t] = 2
      /\ c.op = "record" => stage[t] = 1
      /\ c.op = "settle" => stage[t] = 3
      /\ c.op # "record" => c.order \in Orders
  BY DoneArguments
<1>2. /\ c.op \in {"register", "settle"} => c.invoice \in Invoices
      /\ c.op = "record" => c.delivery \in Deliveries
      /\ c.op = "settle" => c.amount \in Amounts
      /\ c.op \in {"claim", "finish"} => c.worker \in Workers
      /\ c.op = "finish" => c.result \in FulfillmentResult
  BY <1>1 DEF Arguments, Call
<1>3. CASE c.op = "register" /\ RegisterInvoice(c.order, c.invoice)
  <2>1. CanRegister(c.order, c.invoice, orders[c.order].amount)
    BY <1>1, <1>3 DEF Knows, CanRegister
  <2>. QED BY <1>1, <1>2, <1>3, <2>1 DEF StoreChange
<1>4. CASE c.op = "mark_failed" /\ MarkCreationFailed(c.order)
  BY <1>1, <1>4 DEF StoreChange
<1>5. CASE c.op = "record" /\ RecordDelivery(c.delivery)
  <2>1. IsNewDelivery(c.delivery) BY <1>1, <1>5 DEF Knows
  <2>. QED BY <1>2, <1>5, <2>1 DEF StoreChange
<1>6. CASE c.op = "settle" /\ SettlePayment(c.invoice)
  <2>1. /\ payments[c.invoice].status # "absent" /\ payments[c.invoice].order = c.order
        /\ orders[c.order].status = "awaiting_payment" /\ orders[c.order].amount = c.amount
    BY <1>1, <1>6, NullAssumption DEF Knows
  <2>2. VerificationAccepted(c.invoice, TRUE, c.amount) BY <2>1 DEF VerificationAccepted
  <2>3. Settleable(payments[c.invoice].order) BY <2>1 DEF Settleable
  <2>. QED BY <1>2, <1>6, <2>2, <2>3 DEF StoreChange
<1>7. CASE c.op = "claim" /\ TakeJob(c.order, c.worker)
  <2>1. ClaimJob(c.order, c.worker) BY <1>1, <1>7 DEF Knows, ClaimJob
  <2>. QED BY <1>1, <1>2, <1>7, <2>1 DEF StoreChange
<1>8. CASE c.op = "finish" /\ FileJob(c.order, Filing(c.result, saw[t].attempts))
  <2>1. saw[t].attempts = jobs[c.order].attempts /\ claimed[c.worker] = c.order
    BY <1>1, <1>8 DEF Knows
  <2>2. jobs[c.order].status = "processing"
    BY <1>1, <1>2, <1>8, <2>1, NullAssumption DEF TxInv, WorkersKnow
  <2>3. FinishJob(c.order, c.result) BY <1>8, <2>1 DEF FinishJob
  <2>. QED BY <1>1, <1>2, <1>8, <2>2, <2>3 DEF StoreChange
<1>. QED BY <1>3, <1>4, <1>5, <1>6, <1>7, <1>8 DEF Done, Effect

-----------------------------------------------------------------------------
(* The invariant, part by part.                                            *)

(* A step that leaves the tables alone spares every row.                   *)
LEMMA NothingSpares ==
  ASSUME NEW u \in Txs, UNCHANGED storeVars
  PROVE  Spares(u)
  BY DEF Spares, storeVars, Claimable

(* New orders and the passing of time spare every row that is held.        *)
LEMMA OutsideSpares ==
  ASSUME TxInv, NEW u \in Txs, Outside
  PROVE  Spares(u)
<1>1. StoreTypeOK BY DEF TxInv, TxTypeOK
<1>2. ASSUME NEW o \in Orders, NEW a \in Amounts, InsertOrder(o, a) PROVE Spares(u)
  BY <1>1, <1>2 DEF InsertOrder, Spares, StoreTypeOK, Claimable
<1>3. ASSUME NEW o \in Orders, BackoffElapses(o) \/ LeaseAges(o) PROVE Spares(u)
  <2>1. orders' = orders /\ payments' = payments /\ recorded' = recorded
    BY <1>3 DEF BackoffElapses, LeaseAges
  <2>2. \A p \in Orders : (Claimable(p) => Claimable(p)') /\ jobs'[p].attempts = jobs[p].attempts
    <3>1. jobs \in [Orders -> JobRow] BY <1>1 DEF StoreTypeOK
    <3>2. CASE BackoffElapses(o) BY <3>1, <3>2 DEF BackoffElapses, Claimable, JobRow
    <3>3. CASE LeaseAges(o) BY <3>1, <3>3 DEF LeaseAges, Claimable, JobRow
    <3>. QED BY <1>3, <3>2, <3>3
  <2>. QED BY <2>1, <2>2 DEF Spares
<1>. QED BY <1>2, <1>3 DEF Outside

(* Locks stay exclusive when at most one transaction locks one free row.   *)
LEMMA LocksKept ==
  ASSUME LocksExclusive, NEW t \in Txs, NEW row,
         \A u \in Txs \ {t} : Held(u)' = Held(u),
         Held(t)' \subseteq Held(t) \/ (Free(t, row) /\ Held(t)' \subseteq Held(t) \cup {row})
  PROVE  LocksExclusive'
  BY DEF LocksExclusive, Free

(* What a transaction that waits holds stays the same.                     *)
LEMMA WaitsHolds ==
  ASSUME NEW u \in Txs, Waits(u)
  PROVE  Held(u)' = Held(u)
  BY DEF Held, Waits

(* A step of one transaction keeps the invariant if it keeps its own part  *)
(* of it and spares the rows of the others.                                *)
LEMMA OwnPart ==
  ASSUME TxInv, NEW t \in Txs, NEW row,
         \A u \in Txs \ {t} : Waits(u) /\ Spares(u),
         TxTypeOK', Arguments(t)', Knows(t)', WorkersKnow', PaymentsHaveOrders',
         Held(t)' \subseteq Held(t) \/ (Free(t, row) /\ Held(t)' \subseteq Held(t) \cup {row}),
         call'[t].worker \in {NULL, call[t].worker} \/ WorkerFree(call'[t].worker)
  PROVE  TxInv'
<1>1. LocksExclusive' BY WaitsHolds, LocksKept DEF TxInv
<1>2. \A u \in Txs : Arguments(u)' /\ Knows(u)'
  BY StillKnows
<1>3. OneCallPerWorker'
  BY DEF TxInv, OneCallPerWorker, WorkerFree, Waits
<1>. QED BY <1>1, <1>2, <1>3 DEF TxInv

(* No change makes an order go away, and an invoice gets its row with an   *)
(* order's.                                                                *)
LEMMA PaymentsKeepOrders ==
  ASSUME StoreTypeOK, PaymentsHaveOrders, StoreChange
  PROVE  PaymentsHaveOrders'
<1>. DEFINE Stays == \A p \in Orders : orders[p].status # "absent" => orders'[p].status # "absent"
            Same == \A i \in Invoices : /\ payments'[i].order = payments[i].order
                                        /\ payments'[i].status # "absent" => payments[i].status # "absent"
<1>0. /\ orders \in [Orders -> OrderRow] /\ payments \in [Invoices -> PaymentRow]
      /\ \A i \in Invoices : payments[i].status # "absent" => payments[i].order \in Orders
  BY DEF StoreTypeOK, PaymentRow
<1>1. Stays /\ Same => PaymentsHaveOrders' BY <1>0 DEF PaymentsHaveOrders
<1>2. ASSUME NEW o \in Orders, NEW a \in Amounts, InsertOrder(o, a) PROVE Stays /\ Same
  BY <1>0, <1>2 DEF InsertOrder
<1>3. ASSUME NEW o \in Orders, NEW i \in Invoices, CanRegister(o, i, orders[o].amount), RegisterInvoice(o, i)
      PROVE  PaymentsHaveOrders'
  <2>1. orders' = [orders EXCEPT ![o].status = "awaiting_payment"]
        /\ payments' = [payments EXCEPT ![i] = [status |-> "created", order |-> o]]
    BY <1>3 DEF RegisterInvoice, SetStatus
  <2>. QED BY <1>0, <2>1 DEF PaymentsHaveOrders, OrderRow
<1>4. ASSUME NEW o \in Orders, MarkCreationFailed(o) PROVE Stays /\ Same
  BY <1>0, <1>4 DEF MarkCreationFailed, SetStatus, OrderRow
<1>5. ASSUME NEW d \in Deliveries, RecordDelivery(d) PROVE Stays /\ Same
  BY <1>5 DEF RecordDelivery
<1>6. ASSUME NEW i \in Invoices, payments[i].status # "absent", SettlePayment(i) PROVE Stays /\ Same
  <2>1. Stays BY <1>0, <1>6 DEF SettlePayment, SetStatus, OrderRow
  <2>2. Same BY <1>0, <1>6 DEF SettlePayment, PaymentRow
  <2>. QED BY <2>1, <2>2
<1>7. ASSUME NEW o \in Orders, NEW w \in Workers, ClaimJob(o, w) PROVE Stays /\ Same
  BY <1>0, <1>7 DEF ClaimJob, TakeJob, SetStatus, OrderRow
<1>8. ASSUME NEW o \in Orders, NEW result \in FulfillmentResult, FinishJob(o, result) PROVE Stays /\ Same
  <2>. DEFINE f == Filing(result, jobs[o].attempts)
  <2>1. f.order # "absent" BY FilingType DEF StoreTypeOK, JobRow, OrderStatus
  <2>. HIDE DEF f
  <2>2. orders' = orders \/ orders' = [orders EXCEPT ![o].status = f.order]
    BY <1>8 DEF FinishJob, FileJob, SetStatus, f
  <2>3. payments' = payments BY <1>8 DEF FinishJob, FileJob
  <2>. QED BY <1>0, <2>1, <2>2, <2>3 DEF OrderRow
<1>9. ASSUME NEW o \in Orders, BackoffElapses(o) \/ LeaseAges(o) PROVE Stays /\ Same
  BY <1>9 DEF BackoffElapses, LeaseAges
<1>. QED
  BY <1>1, <1>2, <1>3, <1>4, <1>5, <1>6, <1>7, <1>8, <1>9 DEF StoreChange, VerificationAccepted

-----------------------------------------------------------------------------
(* Every step keeps the invariant.                                         *)

(* A transaction that has ended knows and holds nothing.                   *)
LEMMA EndForgets ==
  ASSUME TxTypeOK, NEW t \in Txs, End(t)
  PROVE  /\ call' \in [Txs -> Call] /\ stage' \in [Txs -> 0 .. 3] /\ saw' \in [Txs -> Sight]
         /\ Arguments(t)' /\ Knows(t)' /\ Held(t)' = {} /\ call'[t].worker = NULL
         /\ \A u \in Txs \ {t} : call'[u] = call[u] /\ stage'[u] = stage[u] /\ saw'[u] = saw[u]
<1>1. NoCall \in Call /\ NoSight \in Sight
  BY DEF NoCall, Call, NoSight, Sight, NoOrder, OrderRow, FulfillmentResult
<1>2. call'[t] = NoCall /\ stage'[t] = 0 BY DEF End, TxTypeOK
<1>3. Arguments(t)'
  <2>1. NoCall.op = "none" BY DEF NoCall
  <2>2. Len(Rows(NoCall)) = 0 BY <2>1, RowsAt
  <2>. QED BY <1>2, <2>1, <2>2 DEF Arguments, Searching
<1>4. Knows(t)' BY <1>2 DEF Knows, NoCall
<1>5. Held(t)' = {} BY <1>2 DEF Held
<1>6. call'[t].worker = NULL BY <1>2 DEF NoCall
<1>7. /\ call' \in [Txs -> Call] /\ stage' \in [Txs -> 0 .. 3] /\ saw' \in [Txs -> Sight]
      /\ \A u \in Txs \ {t} : call'[u] = call[u] /\ stage'[u] = stage[u] /\ saw'[u] = saw[u]
  <2>. HIDE DEF NoCall, NoSight
  <2>. QED BY <1>1 DEF End, TxTypeOK
<1>. QED BY <1>3, <1>4, <1>5, <1>6, <1>7

(* A call that ends without a COMMIT.                                      *)
LEMMA EndKeepsInv ==
  ASSUME TxInv, NEW t \in Txs, End(t), Forgets(t), UNCHANGED storeVars
  PROVE  TxInv'
<1>1. TxTypeOK BY DEF TxInv
<1>2. call[t].op = "finish" => call[t].worker \in Workers
  BY DEF TxInv, TxTypeOK, Arguments, Call
<1>3. claimed' \in [Workers -> Orders \cup {NULL}]
      /\ \A w \in Workers : \/ claimed'[w] = claimed[w]
                            \/ claimed'[w] = NULL /\ w = call[t].worker /\ call[t].op = "finish"
  BY <1>1, <1>2 DEF Forgets, Told, TxTypeOK
<1>4. \A u \in Txs \ {t} : Waits(u)
  <2>. SUFFICES ASSUME NEW u \in Txs, u # t, call[u].op = "finish"
                PROVE  claimed'[call[u].worker] = claimed[call[u].worker]
    BY EndForgets, <1>1 DEF Waits
  <2>1. call[u].worker \in Workers BY DEF TxInv, TxTypeOK, Arguments, Call
  <2>2. call[t].worker # call[u].worker BY <2>1, NullAssumption DEF TxInv, OneCallPerWorker
  <2>. QED BY <1>3, <2>1, <2>2
<1>5. TxTypeOK' BY <1>1, <1>3, EndForgets DEF TxTypeOK, storeVars, StoreTypeOK
<1>6. WorkersKnow' BY <1>3 DEF TxInv, WorkersKnow, storeVars
<1>7. PaymentsHaveOrders' BY DEF TxInv, PaymentsHaveOrders, storeVars
<1>. QED BY <1>1, <1>4, <1>5, <1>6, <1>7, EndForgets, NothingSpares, OwnPart

(* After a COMMIT the workers know their jobs, one more or one less.       *)
LEMMA CommitTells ==
  ASSUME TxInv, NEW t \in Txs, Commit(t)
  PROVE  /\ claimed' \in [Workers -> Orders \cup {NULL}]
         /\ \A w \in Workers : claimed'[w] # claimed[w] =>
              call[t].op \in {"claim", "finish"} /\ w = call[t].worker
         /\ WorkersKnow'
<1>. DEFINE c == call[t]
            w == call[t].worker
<1>1. Done(t) BY DEF Commit, Done
<1>2. /\ Knows(t) /\ Arguments(t) /\ c \in Call
      /\ c.op \in {"claim", "finish"} => stage[t] = 2
      /\ c.op # "record" => c.order \in Orders
  BY <1>1, DoneArguments
<1>3. c.op \in {"claim", "finish"} => w \in Workers BY <1>2 DEF Arguments, Call
<1>4. claimed \in [Workers -> Orders \cup {NULL}] /\ StoreTypeOK /\ WorkersKnow
  BY DEF TxInv, TxTypeOK
<1>5. CASE c.op \notin {"claim", "finish"}
  <2>1. claimed' = claimed BY <1>5 DEF Commit, Forgets
  <2>2. \A o \in Orders : jobs[o].status # "absent" => jobs'[o] = jobs[o]
    BY <1>4, <1>5 DEF Commit, Effect, RegisterInvoice, MarkCreationFailed, RecordDelivery,
                     SettlePayment, StoreTypeOK
  <2>. QED BY <1>4, <2>1, <2>2 DEF WorkersKnow
<1>6. CASE c.op = "claim"
  <2>1. claimed' = claimed \/ claimed' = [claimed EXCEPT ![w] = c.order]
    BY <1>6 DEF Commit, Told
  <2>2. jobs[c.order].status # "processing" BY <1>2, <1>6 DEF Knows, Claimable
  <2>3. jobs' = [jobs EXCEPT ![c.order] = [status |-> "processing", attempts |-> @.attempts + 1,
                                           due |-> @.due, lease |-> "fresh", owner |-> w]]
    BY <1>6 DEF Commit, Effect, TakeJob
  <2>4. jobs'[c.order].status = "processing" /\ jobs'[c.order].owner = w
        /\ \A o \in Orders : o # c.order => jobs'[o] = jobs[o]
    BY <1>2, <1>4, <1>6, <2>3 DEF StoreTypeOK
  <2>5. \A v \in Workers : claimed[v] # c.order
    BY <1>2, <1>4, <1>6, <2>2, NullAssumption DEF WorkersKnow
  <2>. HIDE DEF w, c
  <2>6. \A v \in Workers : claimed'[v] = claimed[v] \/ (v = w /\ claimed'[v] = c.order)
    BY <1>4, <2>1
  <2>7. WorkersKnow'
    <3>. SUFFICES ASSUME NEW v \in Workers, claimed'[v] # NULL
                  PROVE  jobs'[claimed'[v]].status = "processing" /\ jobs'[claimed'[v]].owner = v
      BY DEF WorkersKnow
    <3>1. CASE claimed'[v] = claimed[v] BY <1>4, <2>4, <2>5, <3>1 DEF WorkersKnow
    <3>2. CASE v = w /\ claimed'[v] = c.order BY <2>4, <3>2
    <3>. QED BY <2>6, <3>1, <3>2
  <2>8. claimed' \in [Workers -> Orders \cup {NULL}] BY <1>2, <1>4, <1>6, <2>1
  <2>. QED BY <1>6, <2>6, <2>7, <2>8 DEF c, w
<1>7. CASE c.op = "finish"
  <2>1. claimed' = [claimed EXCEPT ![w] = NULL] BY <1>7 DEF Commit, Forgets, Told
  <2>2. claimed[w] = c.order BY <1>2, <1>7 DEF Knows
  <2>3. \A v \in Workers : claimed[v] = c.order => v = w
    BY <1>2, <1>3, <1>4, <1>7, <2>2, NullAssumption DEF WorkersKnow
  <2>4. \A o \in Orders : o # c.order => jobs'[o] = jobs[o]
    BY <1>2, <1>4, <1>7 DEF Commit, Effect, FileJob, StoreTypeOK
  <2>. HIDE DEF w, c
  <2>5. WorkersKnow' BY <1>4, <2>1, <2>3, <2>4 DEF WorkersKnow
  <2>. QED BY <1>3, <1>4, <1>7, <2>1, <2>5 DEF c, w
<1>. QED BY <1>5, <1>6, <1>7

(* A COMMIT.                                                               *)
LEMMA CommitKeepsInv ==
  ASSUME TxInv, NEW t \in Txs, Commit(t)
  PROVE  TxInv' /\ StoreChange
<1>1. Done(t) /\ End(t) BY DEF Commit, Done
<1>2. StoreChange BY <1>1, CommitChanges
<1>3. TxTypeOK BY DEF TxInv
<1>4. TxTypeOK' BY <1>1, <1>2, <1>3, StoreChangeType, EndForgets, CommitTells DEF TxTypeOK
<1>5. PaymentsHaveOrders' BY <1>2, <1>3, PaymentsKeepOrders DEF TxInv, TxTypeOK
<1>6. \A u \in Txs \ {t} : Waits(u)
  <2>. SUFFICES ASSUME NEW u \in Txs, u # t, call[u].op = "finish"
                PROVE  claimed'[call[u].worker] = claimed[call[u].worker]
    BY EndForgets, <1>1, <1>3 DEF Waits
  <2>1. call[u].worker \in Workers BY DEF TxInv, TxTypeOK, Arguments, Call
  <2>2. call[t].worker # call[u].worker BY <2>1, NullAssumption DEF TxInv, OneCallPerWorker
  <2>. QED BY <2>1, <2>2, CommitTells
<1>. QED BY <1>1, <1>2, <1>3, <1>4, <1>5, <1>6, EndForgets, CommitTells, CommitSpares, OwnPart

(* A call that gets its connection.                                        *)
LEMMA BeginKeepsInv ==
  ASSUME TxInv, NEW t \in Txs, NEW c \in Call, Begin(t, c),
         c.op \in {"register", "mark_failed", "finish"} => c.order \in Orders,
         c.op \in {"register", "settle"} => c.invoice \in Invoices,
         c.op = "record" => c.delivery \in Deliveries,
         c.op \in {"settle", "claim"} => c.order = NULL,
         c.op = "settle" => c.amount \in Amounts,
         c.op \in {"claim", "finish"} => c.worker \in Workers,
         c.op = "finish" => c.result \in FulfillmentResult /\ claimed[c.worker] = c.order,
         c.worker = NULL \/ WorkerFree(c.worker)
  PROVE  TxInv'
<1>1. TxTypeOK /\ Arguments(t) BY DEF TxInv
<1>2. stage[t] = 0
  <2>1. call[t].op = "none" BY DEF Begin, Open
  <2>2. Len(Rows(call[t])) = 0 BY <2>1, RowsAt
  <2>3. stage[t] \in 0 .. 3 /\ stage[t] <= 0 BY <1>1, <2>2 DEF TxTypeOK, Arguments
  <2>. QED BY <2>3
<1>3. call'[t] = c /\ call' \in [Txs -> Call] /\ \A u \in Txs \ {t} : call'[u] = call[u]
  BY <1>1 DEF Begin, TxTypeOK
<1>4. UNCHANGED <<storeVars, stage, saw, claimed>> BY DEF Begin
<1>5. TxTypeOK' BY <1>1, <1>3, <1>4 DEF TxTypeOK, storeVars, StoreTypeOK
<1>6. Arguments(t)'
  <2>1. c.op \in Ops \cup {"none"} BY DEF Call
  <2>2. Len(Rows(c)) \in 0 .. 3 BY <2>1, RowsCount
  <2>3. Searching(t)' = (c.op \in {"settle", "claim"} /\ c.order = NULL) BY <1>3 DEF Searching
  <2>4. stage'[t] = 0 BY <1>2, <1>4
  <2>5. /\ c.op \in {"register", "mark_failed", "finish"} => c.order # NULL
        /\ c.op \in {"register", "settle"} => c.invoice # NULL
        /\ c.op = "record" => c.delivery # NULL
        /\ c.op = "settle" => c.amount # NULL
        /\ c.op \in {"claim", "finish"} => c.worker # NULL
    BY NullAssumption
  <2>6. c.op = "finish" => c.result # "none" BY DEF FulfillmentResult
  <2>7. stage'[t] <= Len(Rows(call'[t])) BY <1>3, <2>2, <2>4
  <2>. QED BY <1>3, <2>3, <2>4, <2>5, <2>6, <2>7 DEF Arguments
<1>7. Knows(t)' BY <1>2, <1>3, <1>4 DEF Knows
<1>8. Held(t)' = {} BY <1>2, <1>4 DEF Held
<1>9. WorkersKnow' /\ PaymentsHaveOrders' BY <1>4 DEF TxInv, WorkersKnow, PaymentsHaveOrders, storeVars
<1>10. \A u \in Txs \ {t} : Waits(u) BY <1>3, <1>4 DEF Waits
<1>. QED BY <1>3, <1>4, <1>5, <1>6, <1>7, <1>8, <1>9, <1>10, NothingSpares, OwnPart

(* Every method's call has its arguments.                                  *)
LEMMA StartKeepsInv ==
  ASSUME TxInv, NEW t \in Txs, Start(t)
  PROVE  TxInv'
<1>1. ASSUME NEW o \in Orders, Begin(t, [NoCall EXCEPT !.op = "mark_failed", !.order = o])
      PROVE  TxInv'
  <2>. DEFINE c == [NoCall EXCEPT !.op = "mark_failed", !.order = o]
  <2>1. /\ c \in Call /\ c.op = "mark_failed" /\ c.order = o /\ c.worker = NULL
    BY DEF NoCall, Call, Ops
  <2>. HIDE DEF c
  <2>. QED BY <1>1, <2>1, BeginKeepsInv DEF c
<1>2. ASSUME NEW o \in Orders, NEW i \in Invoices,
             Begin(t, [NoCall EXCEPT !.op = "register", !.order = o, !.invoice = i])
      PROVE  TxInv'
  <2>. DEFINE c == [NoCall EXCEPT !.op = "register", !.order = o, !.invoice = i]
  <2>1. c \in Call /\ c.op = "register" /\ c.order = o /\ c.invoice = i /\ c.worker = NULL
    BY DEF NoCall, Call, Ops
  <2>. HIDE DEF c
  <2>. QED BY <1>2, <2>1, BeginKeepsInv DEF c
<1>3. ASSUME NEW d \in Deliveries, Begin(t, [NoCall EXCEPT !.op = "record", !.delivery = d])
      PROVE  TxInv'
  <2>. DEFINE c == [NoCall EXCEPT !.op = "record", !.delivery = d]
  <2>1. c \in Call /\ c.op = "record" /\ c.delivery = d /\ c.worker = NULL
    BY DEF NoCall, Call, Ops
  <2>. HIDE DEF c
  <2>. QED BY <1>3, <2>1, BeginKeepsInv DEF c
<1>4. ASSUME NEW i \in Invoices, NEW a \in Amounts,
             Begin(t, [NoCall EXCEPT !.op = "settle", !.invoice = i, !.amount = a])
      PROVE  TxInv'
  <2>. DEFINE c == [NoCall EXCEPT !.op = "settle", !.invoice = i, !.amount = a]
  <2>1. /\ c \in Call /\ c.op = "settle" /\ c.invoice = i /\ c.amount = a /\ c.worker = NULL
        /\ c.order = NULL
    BY DEF NoCall, Call, Ops
  <2>. HIDE DEF c
  <2>. QED BY <1>4, <2>1, BeginKeepsInv DEF c
<1>5. ASSUME NEW w \in Workers, WorkerFree(w), Begin(t, [NoCall EXCEPT !.op = "claim", !.worker = w])
      PROVE  TxInv'
  <2>. DEFINE c == [NoCall EXCEPT !.op = "claim", !.worker = w]
  <2>1. c \in Call /\ c.op = "claim" /\ c.worker = w /\ c.order = NULL
    BY DEF NoCall, Call, Ops
  <2>. HIDE DEF c
  <2>. QED BY <1>5, <2>1, BeginKeepsInv DEF c
<1>6. ASSUME NEW w \in Workers, NEW r \in FulfillmentResult, WorkerFree(w), claimed[w] # NULL,
             Begin(t, [NoCall EXCEPT !.op = "finish", !.worker = w, !.order = claimed[w], !.result = r])
      PROVE  TxInv'
  <2>. DEFINE c == [NoCall EXCEPT !.op = "finish", !.worker = w, !.order = claimed[w], !.result = r]
  <2>1. claimed[w] \in Orders BY <1>6 DEF TxInv, TxTypeOK
  <2>2. c \in Call /\ c.op = "finish" /\ c.worker = w /\ c.order = claimed[w] /\ c.result = r
    BY <2>1 DEF NoCall, Call, Ops
  <2>. HIDE DEF c
  <2>. QED BY <1>6, <2>1, <2>2, BeginKeepsInv DEF c
<1>. QED BY <1>1, <1>2, <1>3, <1>4, <1>5, <1>6 DEF Start

(* What a lock adds to what is held.                                       *)
LEMMA LockHolds ==
  ASSUME NEW t \in Txs, stage[t] \in 0 .. 3, stage'[t] = stage[t] + 1, NEW row,
         Rows(call'[t])[stage'[t]] = row,
         \A k \in 1 .. stage[t] : Rows(call'[t])[k] = Rows(call[t])[k]
  PROVE  Held(t)' \subseteq Held(t) \cup {row}
<1>. SUFFICES ASSUME NEW k \in 1 .. stage'[t]
              PROVE  Rows(call'[t])[k] \in Held(t) \cup {row}
  BY DEF Held
<1>1. CASE k = stage'[t] BY <1>1
<1>2. CASE k # stage'[t]
  <2>1. k \in 1 .. stage[t] BY <1>2
  <2>. QED BY <2>1 DEF Held
<1>. QED BY <1>1, <1>2

(* The next row, once it is free and qualifies.                            *)
LEMMA LockKeepsInv ==
  ASSUME TxInv, NEW t \in Txs, Lock(t)
  PROVE  TxInv'
<1>. DEFINE c == call[t]
            k == stage[t]
            o == call[t].order
<1>1. /\ TxTypeOK /\ Arguments(t) /\ Knows(t) /\ c \in Call /\ k \in 0 .. 3 /\ saw[t] \in Sight
      /\ StoreTypeOK /\ saw \in [Txs -> Sight] /\ stage \in [Txs -> 0 .. 3]
  BY DEF TxInv, TxTypeOK
<1>2. call' = call /\ UNCHANGED <<storeVars, claimed>> /\ ~Searching(t) /\ c.op \in Ops
  BY <1>1 DEF Lock, Advance, Wants, Open, Call
<1>3. Len(Rows(c)) \in 0 .. 3 /\ k < Len(Rows(c)) BY <1>2, RowsCount DEF Lock, Wants
<1>4. stage' = [stage EXCEPT ![t] = k + 1] /\ stage'[t] = k + 1 /\ stage' \in [Txs -> 0 .. 3]
  BY <1>1, <1>3 DEF Lock, Advance
<1>5. c.op \in {"settle", "finish"} => o \in Orders
  BY <1>1, <1>2 DEF Arguments, Searching, Call
<1>6. /\ Reads(c.op, k + 1) => saw' = [saw EXCEPT ![t] = [order |-> orders[o], attempts |-> jobs[o].attempts]]
      /\ ~Reads(c.op, k + 1) => saw' = saw
  BY DEF Lock, Advance
<1>7. /\ Reads(c.op, k + 1) <=> (c.op = "settle" /\ k + 1 = 2) \/ (c.op = "finish" /\ k + 1 = 1)
  BY DEF Reads
<1>8. saw' \in [Txs -> Sight]
  <2>1. Reads(c.op, k + 1) => [order |-> orders[o], attempts |-> jobs[o].attempts] \in Sight
    BY <1>1, <1>5, <1>7 DEF StoreTypeOK, JobRow, Sight
  <2>. QED BY <1>1, <1>6, <2>1
<1>9. TxTypeOK' BY <1>1, <1>2, <1>4, <1>8 DEF TxTypeOK, storeVars, StoreTypeOK
<1>10. Arguments(t)' BY <1>1, <1>2, <1>3, <1>4 DEF Arguments, Searching
<1>11. \A u \in Txs \ {t} : Waits(u) BY <1>1, <1>2, <1>4, <1>6 DEF Waits
<1>12. WorkersKnow' /\ PaymentsHaveOrders' BY <1>2 DEF TxInv, WorkersKnow, PaymentsHaveOrders, storeVars
<1>13. Held(t)' \subseteq Held(t) \cup {Rows(c)[k + 1]} BY <1>1, <1>2, <1>4, LockHolds
<1>14. Free(t, Rows(c)[k + 1]) BY DEF Lock
<1>15. Qualifies(t) BY DEF Lock
<1>16. /\ c.op = "register" => orders'[o].status = "payment_creating"
       /\ c.op = "register" /\ k + 1 > 1 => payments'[c.invoice].status = "absent"
  BY <1>1, <1>2, <1>3, <1>15 DEF Qualifies, Knows, storeVars
<1>17. c.op = "record" => IsNewDelivery(c.delivery)'
  BY <1>1, <1>2, <1>15 DEF Qualifies, IsNewDelivery, storeVars
<1>18. c.op = "settle" /\ o # NULL => payments'[c.invoice].status # "absent" /\ payments'[c.invoice].order = o
  BY <1>1, <1>2 DEF Knows, storeVars
<1>19. c.op = "settle" /\ k + 1 > 1 => orders'[o].status # "absent" /\ saw'[t].order = orders'[o]
  <2>1. CASE c.op = "settle" /\ k = 1
    <3>1. orders[o].status # "absent"
      BY <1>1, <1>5, <2>1, NullAssumption DEF Knows, TxInv, PaymentsHaveOrders, Arguments, Call
    <3>2. saw'[t].order = orders[o] BY <1>1, <1>6, <1>7, <2>1
    <3>. QED BY <1>2, <3>1, <3>2 DEF storeVars
  <2>2. CASE c.op = "settle" /\ k > 1
    BY <1>1, <1>2, <1>6, <1>7, <2>2 DEF Knows, storeVars
  <2>. QED BY <1>1, <2>1, <2>2
<1>20. c.op = "settle" /\ k + 1 > 2 => saw'[t].order.status = "awaiting_payment" /\ saw'[t].order.amount = c.amount
  <2>. SUFFICES ASSUME c.op = "settle", k + 1 > 2
                PROVE  saw'[t].order.status = "awaiting_payment" /\ saw'[t].order.amount = c.amount
    OBVIOUS
  <2>1. k = 2
    <3>1. Len(Rows(c)) = 3 BY RowsAt
    <3>. QED BY <1>1, <1>3, <3>1
  <2>2. saw' = saw BY <1>6, <1>7, <2>1
  <2>. QED BY <1>15, <2>1, <2>2 DEF Qualifies
<1>21. c.op = "claim" => Claimable(o)'
  BY <1>1, <1>2 DEF Knows, Arguments, Claimable, storeVars
<1>22. c.op = "finish" => claimed'[c.worker] = o /\ saw'[t].attempts = jobs'[o].attempts
  BY <1>1, <1>2, <1>6, <1>7 DEF Knows, storeVars
<1>23. Knows(t)' BY <1>1, <1>2, <1>4, <1>16, <1>17, <1>18, <1>19, <1>20, <1>21, <1>22 DEF Knows
<1>. QED BY <1>2, <1>9, <1>10, <1>11, <1>12, <1>13, <1>14, <1>23, NothingSpares, OwnPart DEF Call

(* The order and payment that a settlement finds.                          *)
LEMMA FindPaymentKeepsInv ==
  ASSUME TxInv, NEW t \in Txs, FindPayment(t)
  PROVE  TxInv'
<1>. DEFINE i == call[t].invoice
            o == payments[i].order
<1>1. /\ TxTypeOK /\ Arguments(t) /\ call[t] \in Call /\ call \in [Txs -> Call]
      /\ payments \in [Invoices -> PaymentRow] /\ Searching(t) /\ call[t].op = "settle"
      /\ payments[i].status # "absent"
  BY DEF TxInv, TxTypeOK, StoreTypeOK, FindPayment
<1>2. stage[t] = 0 /\ i \in Invoices BY <1>1 DEF Arguments, Call
<1>3. o \in Orders BY <1>1, <1>2 DEF PaymentRow
<1>4. call' = [call EXCEPT ![t] = [call[t] EXCEPT !.order = o]]
      /\ UNCHANGED <<storeVars, stage, saw, claimed>>
  BY DEF FindPayment
<1>. DEFINE c == [call[t] EXCEPT !.order = o]
<1>5. /\ c \in Call /\ c.op = "settle" /\ c.order = o /\ c.invoice = i
      /\ c.amount = call[t].amount /\ c.worker = call[t].worker
  BY <1>1, <1>3 DEF Call
<1>6. call'[t] = c /\ call' \in [Txs -> Call] /\ \A u \in Txs \ {t} : call'[u] = call[u]
  BY <1>1, <1>4, <1>5
<1>. HIDE DEF c
<1>7. TxTypeOK' BY <1>1, <1>4, <1>6 DEF TxTypeOK, storeVars, StoreTypeOK
<1>8. Arguments(t)'
  <2>1. Len(Rows(c)) \in 0 .. 3 BY <1>5, RowsCount DEF Ops
  <2>2. i # NULL /\ call[t].amount # NULL BY <1>1 DEF Arguments
  <2>3. stage'[t] = 0 /\ stage'[t] <= Len(Rows(call'[t])) BY <1>2, <1>4, <1>6, <2>1
  <2>. QED BY <1>5, <1>6, <2>2, <2>3 DEF Arguments
<1>9. Knows(t)' BY <1>1, <1>2, <1>4, <1>5, <1>6 DEF Knows, storeVars
<1>10. Held(t)' = {} BY <1>2, <1>4 DEF Held
<1>11. WorkersKnow' /\ PaymentsHaveOrders' BY <1>4 DEF TxInv, WorkersKnow, PaymentsHaveOrders, storeVars
<1>12. \A u \in Txs \ {t} : Waits(u) BY <1>4, <1>6 DEF Waits
<1>. QED BY <1>4, <1>5, <1>6, <1>7, <1>8, <1>9, <1>10, <1>11, <1>12, NothingSpares, OwnPart

(* The job that a claim picks.                                             *)
LEMMA PickJobKeepsInv ==
  ASSUME TxInv, NEW t \in Txs, PickJob(t)
  PROVE  TxInv'
<1>1. /\ TxTypeOK /\ Arguments(t) /\ call[t] \in Call /\ call \in [Txs -> Call]
      /\ Searching(t) /\ call[t].op = "claim" /\ stage \in [Txs -> 0 .. 3]
  BY DEF TxInv, TxTypeOK, PickJob
<1>2. stage[t] = 0 BY <1>1 DEF Arguments
<1>3. PICK o \in Orders : /\ Claimable(o) /\ Free(t, <<"job", o>>)
                          /\ call' = [call EXCEPT ![t] = [call[t] EXCEPT !.order = o]]
                          /\ Advance(t, o)
  BY DEF PickJob, Candidates
<1>. DEFINE c == [call[t] EXCEPT !.order = o]
<1>4. c \in Call /\ c.op = "claim" /\ c.order = o /\ c.worker = call[t].worker
  BY <1>1, <1>3 DEF Call
<1>5. call'[t] = c /\ call' \in [Txs -> Call] /\ \A u \in Txs \ {t} : call'[u] = call[u]
  BY <1>1, <1>3, <1>4
<1>. HIDE DEF c
<1>6. /\ UNCHANGED <<storeVars, claimed, saw>> /\ stage' = [stage EXCEPT ![t] = 1]
      /\ stage'[t] = 1 /\ stage' \in [Txs -> 0 .. 3]
  BY <1>1, <1>2, <1>3 DEF Advance, Reads
<1>7. TxTypeOK' BY <1>1, <1>5, <1>6 DEF TxTypeOK, storeVars, StoreTypeOK
<1>8. Arguments(t)'
  <2>1. Len(Rows(c)) = 2 BY <1>4, RowsAt
  <2>2. c.order # NULL /\ call[t].worker # NULL BY <1>1, <1>3, <1>4, NullAssumption DEF Arguments
  <2>3. stage'[t] > 0 /\ stage'[t] <= Len(Rows(call'[t])) BY <1>5, <1>6, <2>1
  <2>. QED BY <1>4, <1>5, <2>2, <2>3 DEF Arguments, Searching
<1>9. Knows(t)' BY <1>3, <1>4, <1>5, <1>6 DEF Knows, Claimable, storeVars
<1>10. Held(t)' \subseteq Held(t) \cup {<<"job", o>>}
  <2>1. Rows(c)[1] = <<"job", o>> BY <1>4, RowsAt
  <2>2. Held(t)' = {Rows(c)[k] : k \in 1 .. 1} BY <1>5, <1>6 DEF Held
  <2>. QED BY <2>1, <2>2
<1>11. WorkersKnow' /\ PaymentsHaveOrders' BY <1>6 DEF TxInv, WorkersKnow, PaymentsHaveOrders, storeVars
<1>12. \A u \in Txs \ {t} : Waits(u) BY <1>1, <1>5, <1>6 DEF Waits
<1>. QED BY <1>3, <1>4, <1>5, <1>6, <1>7, <1>8, <1>9, <1>10, <1>11, <1>12, NothingSpares, OwnPart

(* Everything that is no transaction's step.                               *)
LEMMA OtherStepsKeepInv ==
  ASSUME TxInv, Outside \/ (\E w \in Workers : WorkerLost(w)) \/ UNCHANGED vars
  PROVE  TxInv' /\ (StoreChange \/ UNCHANGED storeVars)
<1>1. TxTypeOK BY DEF TxInv
<1>2. ASSUME UNCHANGED <<call, stage, saw>>,
             \A u \in Txs : Spares(u) /\ (call[u].op = "finish" => claimed'[call[u].worker] = claimed[call[u].worker]),
             TxTypeOK', WorkersKnow', PaymentsHaveOrders'
      PROVE  TxInv'
  <2>1. \A u \in Txs : Waits(u) BY <1>2 DEF Waits
  <2>2. \A u \in Txs : Arguments(u)' /\ Knows(u)' BY <1>2, <2>1, StillKnows
  <2>3. LocksExclusive' BY <1>2 DEF TxInv, LocksExclusive, Held
  <2>4. OneCallPerWorker' BY <1>2 DEF TxInv, OneCallPerWorker
  <2>. QED BY <1>2, <2>2, <2>3, <2>4 DEF TxInv
<1>3. CASE Outside
  <2>1. StoreChange BY <1>3 DEF Outside, StoreChange
  <2>2. UNCHANGED txVars BY <1>3 DEF Outside
  <2>3. TxTypeOK' BY <1>1, <2>1, <2>2, StoreChangeType DEF TxTypeOK, txVars
  <2>4. PaymentsHaveOrders' BY <1>1, <2>1, PaymentsKeepOrders DEF TxInv, TxTypeOK
  <2>5. WorkersKnow'
    <3>1. jobs \in [Orders -> JobRow] BY <1>1 DEF TxTypeOK, StoreTypeOK
    <3>2. \A p \in Orders : jobs'[p].status = jobs[p].status /\ jobs'[p].owner = jobs[p].owner
      <4>1. ASSUME NEW o \in Orders, NEW a \in Amounts, InsertOrder(o, a) PROVE jobs' = jobs
        BY <4>1 DEF InsertOrder
      <4>2. ASSUME NEW o \in Orders, BackoffElapses(o)
            PROVE  \A p \in Orders : jobs'[p].status = jobs[p].status /\ jobs'[p].owner = jobs[p].owner
        BY <3>1, <4>2 DEF BackoffElapses, JobRow
      <4>3. ASSUME NEW o \in Orders, LeaseAges(o)
            PROVE  \A p \in Orders : jobs'[p].status = jobs[p].status /\ jobs'[p].owner = jobs[p].owner
        BY <3>1, <4>3 DEF LeaseAges, JobRow
      <4>. QED BY <1>3, <4>1, <4>2, <4>3 DEF Outside
    <3>. QED BY <1>1, <2>2, <3>2 DEF TxInv, WorkersKnow, TxTypeOK, txVars
  <2>. QED BY <1>2, <1>3, <2>1, <2>2, <2>3, <2>4, <2>5, OutsideSpares DEF txVars
<1>4. ASSUME NEW w \in Workers, WorkerLost(w) PROVE TxInv' /\ UNCHANGED storeVars
  <2>1. UNCHANGED <<storeVars, call, stage, saw>> /\ claimed' = [claimed EXCEPT ![w] = NULL] /\ WorkerFree(w)
    BY <1>4 DEF WorkerLost, Told
  <2>2. TxTypeOK' BY <1>1, <2>1 DEF TxTypeOK, storeVars, StoreTypeOK
  <2>3. WorkersKnow' BY <1>1, <2>1 DEF TxInv, WorkersKnow, TxTypeOK, storeVars
  <2>4. PaymentsHaveOrders' BY <2>1 DEF TxInv, PaymentsHaveOrders, storeVars
  <2>5. \A u \in Txs : claimed'[call[u].worker] = claimed[call[u].worker]
    BY <1>1, <2>1 DEF WorkerFree, TxTypeOK
  <2>. QED BY <1>2, <2>1, <2>2, <2>3, <2>4, <2>5, NothingSpares
<1>5. CASE UNCHANGED vars
  <2>1. UNCHANGED <<storeVars, call, stage, saw, claimed>> BY <1>5 DEF vars, txVars
  <2>2. TxTypeOK' /\ WorkersKnow' /\ PaymentsHaveOrders'
    BY <2>1 DEF TxInv, TxTypeOK, WorkersKnow, PaymentsHaveOrders, storeVars, StoreTypeOK
  <2>. QED BY <1>2, <2>1, <2>2, NothingSpares
<1>. QED BY <1>3, <1>4, <1>5

(* A step keeps the invariant, and the tables change atomically or not.    *)
LEMMA TxStep ==
  ASSUME TxInv, [TxNext]_vars
  PROVE  TxInv' /\ (StoreChange \/ UNCHANGED storeVars)
<1>1. ASSUME NEW t \in Txs, Start(t) PROVE TxInv' /\ UNCHANGED storeVars
  BY <1>1, StartKeepsInv DEF Start, Begin
<1>2. ASSUME NEW t \in Txs, Lock(t) PROVE TxInv' /\ UNCHANGED storeVars
  BY <1>2, LockKeepsInv DEF Lock, Advance
<1>3. ASSUME NEW t \in Txs, FindPayment(t) PROVE TxInv' /\ UNCHANGED storeVars
  BY <1>3, FindPaymentKeepsInv DEF FindPayment
<1>4. ASSUME NEW t \in Txs, PickJob(t) PROVE TxInv' /\ UNCHANGED storeVars
  BY <1>4, PickJobKeepsInv DEF PickJob, Advance
<1>5. ASSUME NEW t \in Txs, GiveUp(t) \/ Rollback(t) PROVE TxInv' /\ UNCHANGED storeVars
  BY <1>5, EndKeepsInv DEF GiveUp, Rollback
<1>. QED BY <1>1, <1>2, <1>3, <1>4, <1>5, CommitKeepsInv, OtherStepsKeepInv DEF TxNext, Proceed

-----------------------------------------------------------------------------
(* At the start nothing is open.                                           *)
LEMMA TxInitInv == TxInit => TxInv
<1>. SUFFICES ASSUME TxInit PROVE TxInv OBVIOUS
<1>1. NoCall \in Call /\ NoSight \in Sight /\ NoCall.op = "none" /\ NoCall.worker = NULL
  BY DEF NoCall, Call, NoSight, Sight, NoOrder, OrderRow, FulfillmentResult
<1>2. StoreTypeOK BY DEF TxInit, StoreInit, StoreTypeOK, NoOrder, OrderRow, NoPayment, PaymentRow, NoJob, JobRow
<1>. HIDE DEF NoCall, NoSight
<1>3. TxTypeOK BY <1>1, <1>2 DEF TxInit, TxTypeOK
<1>4. LocksExclusive BY HoldsNothing DEF TxInit, LocksExclusive
<1>5. \A t \in Txs : Arguments(t) /\ Knows(t)
  <2>1. Len(Rows(NoCall)) = 0 BY <1>1, RowsAt
  <2>. QED BY <1>1, <2>1 DEF TxInit, Arguments, Searching, Knows
<1>6. OneCallPerWorker /\ WorkersKnow BY <1>1 DEF TxInit, OneCallPerWorker, WorkersKnow
<1>7. PaymentsHaveOrders BY DEF TxInit, StoreInit, NoPayment, PaymentsHaveOrders
<1>. QED BY <1>3, <1>4, <1>5, <1>6, <1>7 DEF TxInv

(* Locks have one holder, and what a transaction read or tested under them *)
(* is still so when it commits (src/db/mod.rs, every method that locks).   *)
THEOREM TxInvariant == TxSpec => []TxInv
<1>1. TxInv /\ [TxNext]_vars => TxInv' BY TxStep
<1>. QED BY <1>1, TxInitInv, PTL DEF TxSpec

(* The transactions of src/db/mod.rs, statement by statement, implement    *)
(* the store whose transactions are atomic.                                *)
THEOREM TransactionsSerialise == TxSpec => Serial
<1>1. TxInit => StoreInit BY DEF TxInit
<1>2. TxInv /\ [TxNext]_vars => [StoreChange]_storeVars BY TxStep
<1>. QED BY <1>1, <1>2, TxInvariant, PTL DEF TxSpec, Serial, StoreSpec

(* So what holds after any sequence of whole transactions holds of the     *)
(* methods of src/db/mod.rs as they interleave, crash and commit without   *)
(* knowing it: the five tables agree,                                      *)
THEOREM TransactionsAgree == TxSpec => []TablesAgree
<1>1. TableInv => TablesAgree BY DEF TableInv
<1>. QED BY <1>1, TransactionsSerialise, TablesAlwaysAgree, PTL DEF Serial

(* no order leaves the chain of docs/architecture.md:24, and no job goes   *)
(* back to where it was.                                                   *)
THEOREM TransactionsMoveOn == TxSpec => [][MovesAlong /\ JobMovesOn]_storeVars
<1>1. StoreSpec => [][JobMovesOn]_storeVars BY JobsMoveOn, PTL
<1>. QED BY <1>1, TransactionsSerialise, StoreKeepsToTheChain, PTL DEF Serial

-----------------------------------------------------------------------------
(* Every method locks its rows upwards: a payment or a job before its      *)
(* order, and that before the key of a row it inserts.                     *)
Level(row) == IF row[1] \in {"payment", "job"} THEN 1 ELSE IF row[1] = "order" THEN 2 ELSE 3

LEMMA LocksUpwards ==
  ASSUME NEW c, c.op \in Ops \cup {"none"}, NEW k \in 1 .. Len(Rows(c)), NEW l \in 1 .. Len(Rows(c)), k < l
  PROVE  Level(Rows(c)[k]) < Level(Rows(c)[l])
<1>1. CASE c.op = "register"
  <2>1. Len(Rows(c)) = 2 BY <1>1, RowsAt
  <2>2. Level(Rows(c)[1]) = 2
    <3>1. Level(<<"order", c.order>>) = 2 BY DEF Level
    <3>2. Rows(c)[1] = <<"order", c.order>> BY <1>1, RowsAt
    <3>. QED BY <3>1, <3>2
  <2>3. Level(Rows(c)[2]) = 3
    <3>1. Level(<<"new payment", c.invoice>>) = 3 BY DEF Level
    <3>2. Rows(c)[2] = <<"new payment", c.invoice>> BY <1>1, RowsAt
    <3>. QED BY <3>1, <3>2
  <2>4. k = 1 /\ l = 2 BY <2>1
  <2>. QED BY <2>2, <2>3, <2>4
<1>2. CASE c.op \in {"none", "mark_failed", "record"}
  <2>1. c.op = "none" => Len(Rows(c)) = 0 BY RowsAt
  <2>2. c.op = "mark_failed" => Len(Rows(c)) = 1 BY RowsAt
  <2>3. c.op = "record" => Len(Rows(c)) = 1 BY RowsAt
  <2>. QED BY <1>2, <2>1, <2>2, <2>3
<1>3. CASE c.op = "settle"
  <2>1. Len(Rows(c)) = 3 BY <1>3, RowsAt
  <2>2. /\ Rows(c)[1] = <<"payment", c.invoice>> /\ Rows(c)[2] = <<"order", c.order>>
        /\ Rows(c)[3] = <<"new job", c.order>>
    BY <1>3 DEF Rows, SettlementRows
  <2>3. /\ Level(<<"payment", c.invoice>>) = 1 /\ Level(<<"order", c.order>>) = 2
        /\ Level(<<"new job", c.order>>) = 3
    BY DEF Level
  <2>4. Level(Rows(c)[1]) = 1 /\ Level(Rows(c)[2]) = 2 /\ Level(Rows(c)[3]) = 3 BY <2>2, <2>3
  <2>5. <<k, l>> \in {<<1, 2>>, <<1, 3>>, <<2, 3>>} BY <2>1
  <2>. QED BY <2>4, <2>5
<1>4. CASE c.op \in {"claim", "finish"}
  <2>1. c.op = "claim" => /\ Len(Rows(c)) = 2 /\ Rows(c)[1] = <<"job", c.order>>
                          /\ Rows(c)[2] = <<"order", c.order>>
    BY RowsAt
  <2>2. c.op = "finish" => /\ Len(Rows(c)) = 2 /\ Rows(c)[1] = <<"job", c.order>>
                           /\ Rows(c)[2] = <<"order", c.order>>
    BY RowsAt
  <2>3. Len(Rows(c)) = 2 /\ Rows(c)[1] = <<"job", c.order>> /\ Rows(c)[2] = <<"order", c.order>>
    BY <1>4, <2>1, <2>2
  <2>4. k = 1 /\ l = 2 BY <2>3
  <2>5. Level(<<"job", c.order>>) = 1 /\ Level(<<"order", c.order>>) = 2 BY DEF Level
  <2>. QED BY <2>3, <2>4, <2>5
<1>. QED BY <1>1, <1>2, <1>3, <1>4 DEF Ops

Wanted(t) == Rows(call[t])[stage[t] + 1]

(* Who is waited for and waits himself, waits for a row further up.        *)
LEMMA WaitsUpwards ==
  ASSUME TxInv, NEW t \in Txs, NEW u \in Txs, NEW v \in Txs, WaitsFor(t, u), WaitsFor(u, v)
  PROVE  Level(Wanted(t)) < Level(Wanted(u))
<1>1. call[u].op \in Ops \cup {"none"} /\ stage[u] \in 0 .. 3 BY DEF TxInv, TxTypeOK, Call
<1>2. Len(Rows(call[u])) \in 0 .. 3 BY <1>1, RowsCount
<1>3. stage[u] < Len(Rows(call[u])) BY DEF WaitsFor, Wants
<1>4. PICK k \in 1 .. stage[u] : Wanted(t) = Rows(call[u])[k] BY DEF WaitsFor, Held, Wanted
<1>5. k \in 1 .. Len(Rows(call[u])) /\ stage[u] + 1 \in 1 .. Len(Rows(call[u])) /\ k < stage[u] + 1
  BY <1>1, <1>2, <1>3
<1>6. Level(Rows(call[u])[k]) < Level(Rows(call[u])[stage[u] + 1])
  BY <1>1, <1>5, LocksUpwards
<1>. QED BY <1>4, <1>6 DEF Wanted

(* In whatever order they come, the methods of src/db/mod.rs never wait    *)
(* for each other in a circle: they all lock upwards.                      *)
THEOREM NoDeadlock == TxSpec => []NoWaitCycle
<1>1. ASSUME TxInv PROVE NoWaitCycle
  <2>. SUFFICES ASSUME NEW S \in (SUBSET Txs) \ {{}}
                PROVE  \E t \in S : \A u \in S : ~WaitsFor(t, u)
    BY DEF NoWaitCycle
  <2>. S \subseteq Txs /\ S # {} OBVIOUS
  <2>0. SUFFICES ASSUME \A t \in S : \E u \in S : WaitsFor(t, u) PROVE FALSE OBVIOUS
  <2>1. \A t \in S : \E u \in S : Level(Wanted(t)) < Level(Wanted(u))
    <3>. TAKE t \in S
    <3>1. PICK u \in S : WaitsFor(t, u) BY <2>0
    <3>2. PICK v \in S : WaitsFor(u, v) BY <2>0
    <3>. QED BY <1>1, <2>0, <3>1, <3>2, WaitsUpwards
  <2>2. \A t \in S : Level(Wanted(t)) \in 1 .. 3 BY DEF Level
  <2>. DEFINE Height(t) == Level(Wanted(t))
  <2>3. /\ \A t \in S : \E u \in S : Height(t) < Height(u)
        /\ \A t \in S : Height(t) \in 1 .. 3
    BY <2>1, <2>2
  <2>. HIDE DEF Height
  <2>4. PICK t \in S : TRUE BY <2>0
  <2>5. PICK u \in S : Height(t) < Height(u) BY <2>3
  <2>6. PICK v \in S : Height(u) < Height(v) BY <2>3
  <2>7. PICK w \in S : Height(v) < Height(w) BY <2>3
  <2>. QED BY <2>3, <2>5, <2>6, <2>7
<1>. QED BY <1>1, TxInvariant, PTL
===============================================================================
