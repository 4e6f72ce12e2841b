----------------------------- MODULE PromiseProofs -----------------------------
(***************************************************************************)
(* What customers are told of goods is true, and the shop implements       *)
(* OrderPromise, for any number of orders, invoices, handlers and workers, *)
(* whatever fails: the refinement, step by step.                           *)
(***************************************************************************)
EXTENDS MoneyProofs

-----------------------------------------------------------------------------
(* The goods.                                                              *)

(* What the payment side can do to an order and its job.                   *)
PayMoves(o) ==
    /\ orders'[o].status \in {orders[o].status, "payment_creating", "awaiting_payment", "paid", "failed"}
    /\ orders'[o].status = "failed" => orders[o].status \in {"payment_creating", "failed"}
    /\ jobs'[o].status \in {jobs[o].status, "queued"}

LEMMA PayStepMoves ==
  ASSUME StoreTypeOK, NewOrder \/ PayStep, NEW o \in Orders
  PROVE  PayMoves(o)
<1>1. CASE UNCHANGED <<orders, jobs>> BY <1>1 DEF PayMoves
<1>2. ASSUME NEW p \in Orders, NEW a \in Amounts, InsertOrder(p, a) PROVE PayMoves(o)
  BY <1>2 DEF InsertOrder, StoreTypeOK, PayMoves
<1>3. ASSUME NEW p \in Orders, NEW i, RegisterInvoice(p, i) PROVE PayMoves(o)
  BY <1>3 DEF RegisterInvoice, SetStatus, StoreTypeOK, OrderRow, PayMoves
<1>4. ASSUME NEW p \in Orders, MarkCreationFailed(p) PROVE PayMoves(o)
  BY <1>4 DEF MarkCreationFailed, SetStatus, StoreTypeOK, OrderRow, PayMoves
<1>5. ASSUME NEW i, SettlePayment(i) PROVE PayMoves(o)
  <2>1. orders'[o].status \in {orders[o].status, "paid"}
    BY <1>5 DEF SettlePayment, SetStatus, StoreTypeOK, OrderRow
  <2>2. jobs'[o].status \in {jobs[o].status, "queued"}
    BY <1>5 DEF SettlePayment, StoreTypeOK, JobRow, QueuedJob
  <2>. QED BY <2>1, <2>2 DEF PayMoves
<1>6. CASE NewOrder BY <1>2, <1>6 DEF NewOrder, PlaceOrder
<1>7. ASSUME NEW p \in Orders, CreatorStep(p) PROVE PayMoves(o)
  BY <1>1, <1>3, <1>4, <1>7
     DEF CreatorStep, CreateInvoice, RegisterCreatedInvoice, FailCreation, SendLink, storeVars
<1>8. ASSUME NEW r \in Requests, RequestStep(r) PROVE PayMoves(o)
  BY <1>1, <1>5, <1>8 DEF RequestStep, Record, RecordDelivery, Verify, Settle, storeVars
<1>9. CASE OutsideStep
  BY <1>1, <1>9 DEF OutsideStep, CustomerPays, InvoiceExpires, Notify, Deliver, storeVars
<1>. QED BY <1>6, <1>7, <1>8, <1>9 DEF PayStep

(* It reports no goods.                                                    *)
LEMMA PayStepGoods ==
  ASSUME WellFormed, Goods, NewOrder \/ PayStep, UNCHANGED workOwnVars
  PROVE  Goods'
<1>1. \A o \in Orders : PayMoves(o) BY PayStepMoves DEF WellFormed
<1>2. \A o \in Orders : FiledTruly(o)' BY <1>1 DEF PayMoves, Goods, FiledTruly, workOwnVars
<1>. QED BY <1>2 DEF Goods, ConnectorKeeps, WorkerTold, workOwnVars

(* Nor does a step that moves neither the tables nor the connector, and    *)
(* whose worker, if one has finished, was told so.                         *)
LEMMA GoodsKept ==
  ASSUME WellFormed, Goods, UNCHANGED <<orders, jobs, verdict, delivered>>,
         \A o \in Orders : answer'[o] \in Final => verdict[o] = answer'[o],
         \A w \in Workers : worker'[w] = worker[w] \/ WorkerTold(w)'
  PROVE  Goods'
<1>1. \A o \in Orders : ConnectorKeeps(o)' /\ FiledTruly(o)'
  BY DEF Goods, ConnectorKeeps, FiledTruly
<1>2. \A w \in Workers : WorkerTold(w)' BY DEF Goods, WorkerTold
<1>. QED BY <1>1, <1>2 DEF Goods

(* The worker only moves on.                                               *)
LEMMA WorkerAt ==
  ASSUME WorkWellFormed, NEW w \in Workers, NEW row, worker' = [worker EXCEPT ![w] = row]
  PROVE  worker'[w] = row /\ \A v \in Workers \ {w} : worker'[v] = worker[v]
  BY DEF WorkWellFormed, WorkOwnTypeOK

(* A claim takes a job that nothing was said about.                        *)
LEMMA ClaimGoods ==
  ASSUME WellFormed, Queue, Goods, NEW w \in Workers, Claim(w)
  PROVE  Goods'
<1>1. PICK o \in Orders : ClaimJob(o, w) /\ (WorkerGoes(w, "claimed", o, "none") \/ UNCHANGED worker)
  BY DEF Claim
<1>2. /\ orders'[o].status = "fulfillment_processing"
      /\ \A p \in Orders \ {o} : orders'[p] = orders[p] /\ jobs'[p] = jobs[p]
  BY <1>1, ClaimEffect
<1>3. jobs'[o].status = "processing" BY <1>1 DEF ClaimJob, TakeJob, WellFormed, StoreTypeOK
<1>4. \A p \in Orders : FiledTruly(p)'
  BY <1>2, <1>3 DEF Claim, connectorVars, Goods, FiledTruly
<1>5. \A v \in Workers : worker'[v] = worker[v] \/ worker'[v].pc = "claimed"
  <2>1. CASE WorkerGoes(w, "claimed", o, "none")
    BY <2>1, WorkerAt DEF WorkerGoes, WellFormed
  <2>. QED BY <1>1, <2>1
<1>6. \A v \in Workers : WorkerTold(v)'
  BY <1>5 DEF Claim, connectorVars, Goods, WorkerTold
<1>. QED BY <1>4, <1>6 DEF Claim, connectorVars, Goods, ConnectorKeeps

(* What the worker takes for a success or a refusal is the connector's     *)
(* word; its own guesses are neither.                                      *)
LEMMA CallGoods ==
  ASSUME WellFormed, Goods, NEW w \in Workers,
         FulfillManually(w) \/ Post(w) \/ ReadAnswer(w) \/ LoseAnswer(w) \/ WorkerCrash(w)
  PROVE  Goods'
<1>1. UNCHANGED <<orders, jobs, verdict, delivered>>
  BY DEF FulfillManually, Post, ReadAnswer, LoseAnswer, WorkerCrash, storeVars, connectorVars
<1>2. \A o \in Orders : answer'[o] \in Final => verdict[o] = answer'[o]
  <2>1. CASE Post(w)
    BY <2>1 DEF Post, Goods, ConnectorKeeps, Final, WellFormed, WorkWellFormed, WorkOwnTypeOK
  <2>2. CASE UNCHANGED answer BY <2>2 DEF Goods, ConnectorKeeps
  <2>. QED BY <2>1, <2>2 DEF FulfillManually, ReadAnswer, LoseAnswer, WorkerCrash, connectorVars
<1>3. WorkWellFormed BY DEF WellFormed
<1>4. ASSUME NEW pc, NEW o, NEW result, WorkerGoes(w, pc, o, result),
             pc = "finishing" /\ result \in Final => verdict'[o] = result
      PROVE  Goods'
  <2>1. \A v \in Workers : worker'[v] = worker[v] \/ WorkerTold(v)'
    BY <1>3, <1>4, WorkerAt DEF WorkerGoes, WorkerTold
  <2>. QED BY <1>1, <1>2, <2>1, GoodsKept
<1>5. CASE FulfillManually(w) BY <1>4, <1>5 DEF FulfillManually, Final
<1>6. CASE Post(w) BY <1>4, <1>6 DEF Post
<1>7. CASE ReadAnswer(w)
  <2>1. worker[w].job \in Orders
    BY <1>3, <1>7 DEF ReadAnswer, WorkWellFormed, WorkHandles, WorkerHolds
  <2>2. answer[worker[w].job] \in Final => verdict'[worker[w].job] = answer[worker[w].job]
    BY <1>1, <2>1 DEF Goods, ConnectorKeeps
  <2>. QED BY <1>4, <1>7, <2>2 DEF ReadAnswer
<1>8. CASE LoseAnswer(w) BY <1>4, <1>8 DEF LoseAnswer, ResultOfNoAnswer, Final
<1>9. CASE WorkerCrash(w)
  <2>1. \A v \in Workers : worker'[v] = worker[v] \/ WorkerTold(v)'
    BY <1>3, <1>9, WorkerAt DEF WorkerCrash, WorkerIdles, IdleWorker, WorkerTold
  <2>. QED BY <1>1, <1>2, <2>1, GoodsKept
<1>. QED BY <1>5, <1>6, <1>7, <1>8, <1>9

(* Success and refusal are filed as what they are, and what is filed so is *)
(* not claimed again.                                                      *)
LEMMA FinishGoods ==
  ASSUME WellFormed, Queue, Goods, NEW w \in Workers, Finish(w)
  PROVE  Goods'
<1>. DEFINE result == worker[w].result
<1>1. PICK o \in Orders : o = worker[w].job
  BY DEF Finish, WellFormed, WorkWellFormed, WorkHandles, WorkerHolds
<1>2. UNCHANGED <<verdict, answer, delivered>> /\ worker[w].pc = "finishing"
  BY DEF Finish, connectorVars
<1>3. \A v \in Workers : worker'[v] = worker[v] \/ WorkerTold(v)'
  BY WorkerAt DEF Finish, WorkerIdles, IdleWorker, WorkerTold, WellFormed
<1>4. \A v \in Workers : WorkerTold(v)' BY <1>2, <1>3 DEF Goods, WorkerTold
<1>5. ASSUME FinishJob(o, result) PROVE \A p \in Orders : FiledTruly(p)'
  <2>. DEFINE f == Filing(result, jobs[o].attempts)
  <2>1. result \in FulfillmentResult /\ jobs[o].attempts \in Nat
    BY <1>2 DEF WellFormed, WorkWellFormed, WorkHandles, WorkerHolds, StoreTypeOK, JobRow
  <2>2. f.order = "fulfilled" => result = "succeeded"
    BY <2>1 DEF Filing, Exhausted, FulfillmentResult
  <2>3. f.job = "failed" => result = "permanent_failure"
    BY <2>1 DEF Filing, Exhausted, FulfillmentResult
  <2>4. orders[o].status = "fulfillment_processing"
    BY <1>1, <1>2 DEF Queue, ClaimExclusive, HoldsClaim, OrderFollowsJob, JobWithOrder
  <2>. HIDE DEF f
  <2>5. FileJob(o, f) BY <1>5 DEF FinishJob, f
  <2>6. jobs'[o].status = f.job /\ \A p \in Orders \ {o} : jobs'[p] = jobs[p]
    BY <2>5 DEF FileJob, WellFormed, StoreTypeOK
  <2>7. /\ orders'[o].status \in {"fulfillment_processing", f.order}
        /\ \A p \in Orders \ {o} : orders'[p] = orders[p]
    BY <2>4, <2>5, SetStatusEffect DEF FileJob, WellFormed
  <2>8. result \in Final => verdict'[o] = result
    BY <1>1, <1>2 DEF Goods, WorkerTold
  <2>. HIDE DEF result
  <2>. QED BY <1>2, <2>2, <2>3, <2>6, <2>7, <2>8 DEF Goods, FiledTruly, Final
<1>6. ASSUME UNCHANGED storeVars PROVE \A p \in Orders : FiledTruly(p)'
  BY <1>2, <1>6 DEF storeVars, Goods, FiledTruly
<1>. QED BY <1>1, <1>2, <1>4, <1>5, <1>6 DEF Finish, Goods, ConnectorKeeps

(* The connector decides once.                                             *)
LEMMA ServeGoods ==
  ASSUME WellFormed, Goods, NEW o \in Orders, Serve(o)
  PROVE  /\ Goods'
         /\ delivered' = delivered \/ (verdict[o] = "none" /\ delivered' = delivered \cup {o})
<1>1. PICK n \in 1 .. posted[o], v \in FulfillmentResult :
        /\ \/ Decided(o) /\ v = verdict[o] /\ UNCHANGED <<verdict, delivered>>
           \/ ~Decided(o) /\ \E goods \in BOOLEAN : Decide(o, v, goods)
        /\ answer' = IF n = posted[o] THEN [answer EXCEPT ![o] = v] ELSE answer
        /\ UNCHANGED <<storeVars, worker, posted, unanswered>>
  BY DEF Serve
<1>2. /\ verdict \in [Orders -> Decisions \cup {"none"}]
      /\ answer \in [Orders -> FulfillmentResult \cup {"none"}]
  BY DEF WellFormed, WorkWellFormed, WorkOwnTypeOK
<1>3. delivered' = delivered \/ (verdict[o] = "none" /\ delivered' = delivered \cup {o})
  BY <1>1 DEF Decided, Decide
<1>4. /\ \A p \in Orders : verdict[p] # "none" => verdict'[p] = verdict[p]
      /\ \A p \in Orders \ {o} : verdict'[p] = verdict[p] /\ (p \in delivered' <=> p \in delivered)
  BY <1>1, <1>2 DEF Decided, Decide
<1>5. v \in Final => verdict'[o] = v
  BY <1>1, <1>2 DEF Decided, Decide, Decisions, Final
<1>6. /\ verdict'[o] = "succeeded" => o \in delivered'
      /\ verdict'[o] \in {"none", "permanent_failure"} => o \notin delivered'
  <2>1. CASE Decided(o) BY <1>1, <2>1 DEF Decided, Goods, ConnectorKeeps
  <2>2. ASSUME ~Decided(o), NEW goods \in BOOLEAN, Decide(o, v, goods) 
      PROVE  /\ verdict'[o] = "succeeded" => o \in delivered'
             /\ verdict'[o] \in {"none", "permanent_failure"} => o \notin delivered'
    <3>1. o \notin delivered BY <2>2 DEF Decided, Goods, ConnectorKeeps
    <3>2. verdict'[o] = (IF v \in Decisions THEN v ELSE "none") /\ (o \in delivered' <=> goods)
      BY <1>2, <2>2, <3>1 DEF Decided, Decide
    <3>. QED BY <2>2, <3>2 DEF Decide, Decisions, FulfillmentResult
  <2>. QED BY <1>1, <2>1, <2>2
<1>7. answer'[o] \in Final => verdict'[o] = answer'[o]
  <2>1. CASE n = posted[o] BY <1>1, <1>2, <1>5, <2>1
  <2>2. CASE n # posted[o] BY <1>1, <1>4, <2>2 DEF Goods, ConnectorKeeps, Final
  <2>. QED BY <2>1, <2>2
<1>8. ASSUME NEW p \in Orders PROVE ConnectorKeeps(p)'
  <2>1. CASE p = o BY <1>6, <1>7, <2>1 DEF ConnectorKeeps
  <2>2. CASE p # o
    <3>1. answer'[p] = answer[p] BY <1>1, <1>2, <2>2
    <3>. QED BY <1>4, <2>2, <3>1 DEF Goods, ConnectorKeeps
  <2>. QED BY <2>1, <2>2
<1>9. \A p \in Orders : FiledTruly(p)' BY <1>1, <1>4 DEF storeVars, Goods, FiledTruly
<1>10. \A w \in Workers : WorkerTold(w)'
  BY <1>1, <1>4 DEF Goods, WorkerTold, Final, WellFormed, WorkWellFormed, WorkHandles, WorkerHolds
<1>. QED BY <1>3, <1>8, <1>9, <1>10 DEF Goods

(* Backoff and lock change no status.                                      *)
LEMMA TimeMoves ==
  ASSUME StoreTypeOK, NEW o \in Orders, TimePasses(o)
  PROVE  /\ UNCHANGED <<orders, payments, workOwnVars>>
         /\ \A p \in Orders : jobs'[p].status = jobs[p].status
<1>1. UNCHANGED <<orders, payments, workOwnVars>> /\ jobs[o] \in JobRow
  BY DEF TimePasses, BackoffElapses, LeaseAges, StoreTypeOK
<1>2. CASE BackoffElapses(o)
  <2>1. jobs' = [jobs EXCEPT ![o] = [jobs[o] EXCEPT !.due = TRUE]]
    BY <1>2 DEF BackoffElapses, StoreTypeOK
  <2>. QED BY <1>1, <2>1 DEF JobRow, StoreTypeOK
<1>3. CASE LeaseAges(o)
  <2>1. jobs' = [jobs EXCEPT ![o] = [jobs[o] EXCEPT !.lease = "stale"]]
    BY <1>3 DEF LeaseAges, StoreTypeOK
  <2>. QED BY <1>1, <2>1 DEF JobRow, StoreTypeOK
<1>. QED BY <1>2, <1>3 DEF TimePasses

(* A step of the connector or of the worker.                               *)
LEMMA WorkStepGoods ==
  ASSUME WellFormed, Queue, Goods, WorkStep \/ \E w \in Workers : WorkerCrash(w)
  PROVE  Goods'
<1>1. ASSUME NEW w \in Workers, WorkerStep(w) \/ WorkerCrash(w) PROVE Goods'
  BY <1>1, ClaimGoods, CallGoods, FinishGoods DEF WorkerStep
<1>2. ASSUME NEW o \in Orders, Hang(o) PROVE Goods'
  <2>1. UNCHANGED <<orders, jobs, verdict, delivered, answer, worker>> BY <1>2 DEF Hang, storeVars
  <2>. QED BY <2>1, GoodsKept DEF Goods, ConnectorKeeps
<1>3. ASSUME NEW o \in Orders, TimePasses(o) PROVE Goods'
  <2>1. UNCHANGED <<orders, workOwnVars>> /\ \A p \in Orders : jobs'[p].status = jobs[p].status
    BY <1>3, TimeMoves DEF WellFormed
  <2>. QED BY <2>1 DEF Goods, ConnectorKeeps, FiledTruly, WorkerTold, workOwnVars
<1>. QED BY <1>1, <1>2, <1>3, ServeGoods DEF WorkStep

-----------------------------------------------------------------------------
(* What a step of the payment side is to one who sees the rows and the     *)
(* gateway's money, but neither handlers nor deliveries.                   *)
Only(o) == \A p \in Orders \ {o} : orders'[p] = orders[p] /\ jobs'[p] = jobs[p]

Turns(o, from, to) ==
    /\ orders[o].status = from
    /\ orders'[o].status = to
    /\ Only(o)

SameMoney ==
    \A i \in Invoices : /\ IsPaid(i)' <=> IsPaid(i)
                        /\ IsPaid(i) => gateway'[i].amount = gateway[i].amount

Rests == UNCHANGED <<orders, jobs, payments>> /\ SameMoney

Placed(o) == Turns(o, "absent", "payment_creating") /\ UNCHANGED <<jobs, payments, gateway>>

Registered(o, i) ==
    /\ Turns(o, "payment_creating", "awaiting_payment")
    /\ orders'[o].amount = orders[o].amount
    /\ payments[i].status = "absent"
    /\ payments' = [payments EXCEPT ![i] = [status |-> "created", order |-> o]]
    /\ UNCHANGED <<jobs, gateway>>

Dropped(o) ==
    /\ Turns(o, "payment_creating", "failed")
    /\ orders'[o].amount = orders[o].amount
    /\ UNCHANGED <<jobs, payments, gateway>>

Paid(i) ==
    /\ payments[i].status # "absent"
    /\ gateway[i].state = "open"
    /\ gateway'[i].state = "paid"
    /\ \A j \in Invoices \ {i} : gateway'[j] = gateway[j]
    /\ UNCHANGED <<orders, jobs, payments>>

Settled(o, i) ==
    /\ Turns(o, "awaiting_payment", "paid")
    /\ orders'[o].amount = orders[o].amount
    /\ payments[i].order = o
    /\ gateway[i].state = "verified" /\ gateway[i].amount = orders[o].amount
    /\ \A j \in Invoices : /\ payments'[j].order = payments[j].order
                           /\ payments'[j].status = "absent" <=> payments[j].status = "absent"
    /\ jobs[o].status = "absent" /\ jobs'[o].status = "queued"
    /\ UNCHANGED gateway

PayView ==
    \/ Rests
    \/ \E o \in Orders : Placed(o) \/ Dropped(o)
    \/ \E o \in Orders, i \in Invoices : Registered(o, i) \/ Settled(o, i)
    \/ \E i \in Invoices : Paid(i)

(* A payment's row names an order.                                         *)
LEMMA PaymentNamesOrder ==
  ASSUME StoreTypeOK, NEW i \in Invoices
  PROVE  payments[i].status # "absent" <=> payments[i].order \in Orders
<1>1. payments[i] \in PaymentRow BY DEF StoreTypeOK
<1>. QED BY <1>1, NullAssumption DEF PaymentRow

(* Making an invoice, verifying and expiring one moves no money.           *)
LEMMA GatewayRests ==
  ASSUME PayWellFormed, NEW i \in Invoices,
         \/ \E o \in Orders : OpenInvoice(o, i)
         \/ InvoiceExpires(i) \/ UseUp(i)
  PROVE  SameMoney
<1>0. gateway \in [Invoices -> InvoiceState] BY DEF PayWellFormed, PayOwnTypeOK
<1>. DEFINE Same == (IsPaid(i)' <=> IsPaid(i)) /\ (IsPaid(i) => gateway'[i].amount = gateway[i].amount)
<1>1. \A j \in Invoices \ {i} : gateway'[j] = gateway[j]
  BY <1>0 DEF OpenInvoice, InvoiceExpires, UseUp
<1>2. Same
  <2>1. ASSUME NEW o \in Orders, OpenInvoice(o, i) PROVE Same
    BY <1>0, <2>1 DEF OpenInvoice, IsPaid
  <2>2. CASE InvoiceExpires(i)
    <3>1. gateway[i].state = "open" /\ gateway'[i].state = "expired"
      BY <1>0, <2>2 DEF InvoiceExpires, InvoiceState
    <3>. QED BY <3>1 DEF IsPaid
  <2>3. CASE UseUp(i)
    <3>1. gateway'[i] = [gateway[i] EXCEPT !.state = IF @ = "paid" THEN "verified" ELSE @]
      BY <1>0, <2>3 DEF UseUp
    <3>2. gateway[i] \in InvoiceState BY <1>0
    <3>. QED BY <3>1, <3>2 DEF IsPaid, InvoiceState
  <2>. QED BY <2>1, <2>2, <2>3
<1>. QED BY <1>1, <1>2 DEF SameMoney, IsPaid

LEMMA CreatorView ==
  ASSUME WellFormed, HandlersKnow, NEW o \in Orders, CreatorStep(o)
  PROVE  PayView
<1>. USE DEF WellFormed
<1>1. CASE CreateInvoice(o)
  <2>1. UNCHANGED <<orders, jobs, payments>> BY <1>1 DEF CreateInvoice, storeVars
  <2>2. SameMoney
    <3>1. CASE UNCHANGED gateway BY <3>1 DEF SameMoney, IsPaid
    <3>. QED BY <1>1, <3>1, GatewayRests DEF CreateInvoice
  <2>. QED BY <2>1, <2>2 DEF PayView, Rests
<1>2. ASSUME UNCHANGED <<storeVars, gateway>> PROVE PayView
  BY <1>2 DEF storeVars, PayView, Rests, SameMoney, IsPaid
<1>3. ASSUME NEW i \in Invoices, CanRegister(o, i, gateway[i].amount), RegisterInvoice(o, i),
             UNCHANGED gateway
      PROVE  PayView
  <2>1. Turns(o, "payment_creating", "awaiting_payment") /\ orders'[o].amount = orders[o].amount
    BY <1>3 DEF CanRegister, RegisterInvoice, SetStatus, StoreTypeOK, OrderRow, Turns, Only
  <2>2. Registered(o, i) BY <1>3, <2>1 DEF CanRegister, RegisterInvoice, Registered
  <2>. QED BY <2>2 DEF PayView
<1>4. CASE RegisterCreatedInvoice(o)
  <2>1. creator[o].invoice \in Invoices
    BY <1>4 DEF RegisterCreatedInvoice, PayWellFormed, PayHandles, CreatorHolds
  <2>. QED BY <1>2, <1>3, <1>4, <2>1 DEF RegisterCreatedInvoice
<1>5. CASE FailCreation(o)
  <2>1. orders[o].status = "payment_creating" /\ UNCHANGED gateway
    BY <1>5 DEF FailCreation, HandlersKnow, CreatorKnows
  <2>2. CASE MarkCreationFailed(o)
    <3>1. Turns(o, "payment_creating", "failed") /\ orders'[o].amount = orders[o].amount
      BY <2>1, <2>2 DEF MarkCreationFailed, SetStatus, StoreTypeOK, OrderRow, Turns, Only
    <3>2. Dropped(o) BY <2>1, <2>2, <3>1 DEF MarkCreationFailed, Dropped
    <3>. QED BY <3>2 DEF PayView
  <2>. QED BY <1>2, <1>5, <2>1, <2>2 DEF FailCreation
<1>6. CASE SendLink(o) BY <1>2, <1>6 DEF SendLink
<1>. QED BY <1>1, <1>4, <1>5, <1>6 DEF CreatorStep

LEMMA RequestView ==
  ASSUME WellFormed, OrderFollowsJob, HandlersKnow, NEW r \in Requests, RequestStep(r)
  PROVE  PayView
<1>. DEFINE i == notices[requests[r].delivery].invoice
            o == payments[i].order
<1>. USE DEF WellFormed
<1>1. ASSUME UNCHANGED <<orders, jobs, payments, gateway>> PROVE PayView
  BY <1>1 DEF PayView, Rests, SameMoney, IsPaid
<1>2. CASE Record(r) BY <1>1, <1>2 DEF Record, RecordDelivery, storeVars
<1>3. CASE Verify(r)
  <2>1. i \in Invoices
    BY <1>3 DEF Verify, PayWellFormed, PayHandles, RequestHolds, NoticeHolds
  <2>2. UNCHANGED <<orders, jobs, payments>> BY <1>3 DEF Verify, storeVars
  <2>3. CASE UseUp(i) BY <2>1, <2>2, <2>3, GatewayRests DEF PayView, Rests
  <2>. QED BY <1>1, <1>3, <2>2, <2>3 DEF Verify
<1>4. CASE Settle(r)
  <2>1. UNCHANGED gateway /\ requests[r].pc = "settling" BY <1>4 DEF Settle
  <2>2. ASSUME VerificationAccepted(i, requests[r].verified, requests[r].amount),
               Settleable(o), SettlePayment(i)
        PROVE  PayView
    <3>1. i \in Invoices /\ o \in Orders BY <2>1, <2>2, SettlesAnOrder DEF VerificationAccepted
    <3>2. gateway[i].state = "verified" /\ gateway[i].amount = orders[o].amount
      BY <2>1, <2>2 DEF VerificationAccepted, HandlersKnow, RequestKnows
    <3>3. jobs[o].status = "absent"
      BY <2>2, <3>1 DEF Settleable, OrderFollowsJob, JobWithOrder
    <3>. HIDE DEF i
    <3>4. jobs'[o].status = "queued" BY <2>2, <3>1, <3>3 DEF SettlePayment, StoreTypeOK, QueuedJob
    <3>5. Turns(o, "awaiting_payment", "paid") /\ orders'[o].amount = orders[o].amount
      BY <2>2, <3>1 DEF Settleable, SettlePayment, SetStatus, StoreTypeOK, OrderRow, Turns, Only
    <3>6. ASSUME NEW j \in Invoices
          PROVE  /\ payments'[j].order = payments[j].order
                 /\ payments'[j].status = "absent" <=> payments[j].status = "absent"
      <4>1. payments[j] \in PaymentRow /\ payments[i].status # "absent"
        BY <2>2 DEF VerificationAccepted, StoreTypeOK
      <4>2. payments' = [payments EXCEPT ![i] = [payments[i] EXCEPT !.status = "paid"]]
        BY <2>2 DEF SettlePayment
      <4>. QED BY <3>1, <4>1, <4>2 DEF PaymentRow, StoreTypeOK
    <3>7. Settled(o, i) BY <2>1, <3>2, <3>3, <3>4, <3>5, <3>6 DEF Settled
    <3>. QED BY <3>1, <3>7 DEF PayView
  <2>. QED BY <1>1, <1>4, <2>1, <2>2 DEF Settle, storeVars
<1>. QED BY <1>2, <1>3, <1>4 DEF RequestStep

LEMMA PayStepView ==
  ASSUME WellFormed, OrderFollowsJob, HandlersKnow, NewOrder \/ PayStep
  PROVE  PayView
<1>. USE DEF WellFormed
<1>1. ASSUME NEW o \in Orders, NEW a \in Amounts, PlaceOrder(o, a) PROVE PayView
  <2>1. Turns(o, "absent", "payment_creating")
    BY <1>1 DEF PlaceOrder, InsertOrder, StoreTypeOK, Turns, Only
  <2>2. Placed(o) BY <1>1, <2>1 DEF PlaceOrder, InsertOrder, Placed
  <2>. QED BY <2>2 DEF PayView
<1>2. ASSUME NEW i \in Invoices, CustomerPays(i) PROVE PayView
  <2>1. Paid(i)
    BY <1>2 DEF CustomerPays, Paid, HandlersKnow, LinksRegistered, storeVars, PayWellFormed,
                PayOwnTypeOK, InvoiceState
  <2>. QED BY <2>1 DEF PayView
<1>3. ASSUME NEW i \in Invoices, InvoiceExpires(i) PROVE PayView
  BY <1>3, GatewayRests DEF InvoiceExpires, storeVars, PayView, Rests
<1>4. ASSUME UNCHANGED <<storeVars, gateway>> PROVE PayView
  BY <1>4 DEF storeVars, PayView, Rests, SameMoney, IsPaid
<1>5. CASE OutsideStep BY <1>2, <1>3, <1>4, <1>5 DEF OutsideStep, Notify, Deliver
<1>. QED BY <1>1, <1>5, CreatorView, RequestView DEF NewOrder, PayStep

-----------------------------------------------------------------------------
(* The purses.                                                             *)

(* A step that registers nothing keeps them, if who pays has an invoice    *)
(* and who is given up has none.                                           *)
LEMMA PursesKept ==
  ASSUME Purses,
         \A i \in Invoices : /\ payments'[i].order = payments[i].order
                             /\ payments'[i].status = "absent" <=> payments[i].status = "absent",
         \A i \in Invoices : IsPaid(i)' => IsPaid(i) \/ payments[i].status # "absent",
         \A o \in Orders : orders'[o].status = "failed" /\ jobs'[o].status = "absent"
                             => \/ orders[o].status = "failed" /\ jobs[o].status = "absent"
                                \/ ~Invoiced(o)
  PROVE  Purses'
<1>1. \A o \in Orders : Invoiced(o)' <=> Invoiced(o) BY DEF Invoiced
<1>2. ClosedIsUnpaid' BY <1>1 DEF Purses, ClosedIsUnpaid
<1>3. PaidIsRegistered' BY DEF Purses, PaidIsRegistered
<1>. QED BY <1>2, <1>3 DEF Purses, OneInvoiceEach

(* An order that still waits for its invoice has none.                     *)
LEMMA NotYetInvoiced ==
  ASSUME StoreTypeOK, Accounts, NEW o \in Orders,
         orders[o].status \in {"absent", "payment_creating"}
  PROVE  ~Invoiced(o)
  BY DEF Accounts, PaymentKnown, Invoiced

(* Registration is an order's first.                                       *)
LEMMA RegisterPurses ==
  ASSUME StoreTypeOK, Accounts, Purses, NEW o \in Orders, NEW i \in Invoices, Registered(o, i)
  PROVE  Purses'
<1>1. ~Invoiced(o) BY NotYetInvoiced DEF Registered, Turns
<1>2. /\ payments'[i] = [status |-> "created", order |-> o]
      /\ \A j \in Invoices \ {i} : payments'[j] = payments[j]
  BY DEF Registered, StoreTypeOK
<1>3. OneInvoiceEach' BY <1>1, <1>2 DEF Purses, OneInvoiceEach, Invoiced
<1>4. PaidIsRegistered' BY <1>2 DEF Registered, Purses, PaidIsRegistered, IsPaid
<1>5. ASSUME NEW p \in Orders, orders'[p].status = "failed", jobs'[p].status = "absent"
      PROVE  ~Invoiced(p)'
  <2>1. p # o BY <1>5 DEF Registered, Turns
  <2>2. ~Invoiced(p) BY <1>5, <2>1 DEF Registered, Turns, Only, Purses, ClosedIsUnpaid
  <2>. QED BY <1>2, <2>1, <2>2 DEF Invoiced
<1>6. ClosedIsUnpaid' BY <1>5 DEF ClosedIsUnpaid
<1>. QED BY <1>3, <1>4, <1>6 DEF Purses

LEMMA PayPurses ==
  ASSUME StoreTypeOK, Accounts, Purses, PayView
  PROVE  Purses'
<1>1. CASE Rests BY <1>1, PursesKept DEF Rests, SameMoney
<1>2. ASSUME NEW o \in Orders, Placed(o) PROVE Purses'
  <2>1. \A i \in Invoices : IsPaid(i)' => IsPaid(i) BY <1>2 DEF Placed, IsPaid
  <2>2. \A p \in Orders : orders'[p].status = "failed" /\ jobs'[p].status = "absent"
                            => orders[p].status = "failed" /\ jobs[p].status = "absent"
    BY <1>2 DEF Placed, Turns, Only
  <2>. QED BY <1>2, <2>1, <2>2, PursesKept DEF Placed
<1>3. ASSUME NEW o \in Orders, Dropped(o) PROVE Purses'
  <2>1. \A i \in Invoices : IsPaid(i)' => IsPaid(i) BY <1>3 DEF Dropped, IsPaid
  <2>2. ~Invoiced(o) BY <1>3, NotYetInvoiced DEF Dropped, Turns
  <2>3. \A p \in Orders : orders'[p].status = "failed" /\ jobs'[p].status = "absent"
                            => (orders[p].status = "failed" /\ jobs[p].status = "absent") \/ p = o
    BY <1>3 DEF Dropped, Turns, Only
  <2>. QED BY <1>3, <2>1, <2>2, <2>3, PursesKept DEF Dropped
<1>4. ASSUME NEW o \in Orders, NEW i \in Invoices, Settled(o, i) PROVE Purses'
  <2>1. \A j \in Invoices : IsPaid(j)' => IsPaid(j) BY <1>4 DEF Settled, IsPaid
  <2>2. \A p \in Orders : orders'[p].status = "failed" /\ jobs'[p].status = "absent"
                            => orders[p].status = "failed" /\ jobs[p].status = "absent"
    BY <1>4 DEF Settled, Turns, Only
  <2>. QED BY <1>4, <2>1, <2>2, PursesKept DEF Settled
<1>5. ASSUME NEW i \in Invoices, Paid(i) PROVE Purses'
  <2>1. \A j \in Invoices : IsPaid(j)' => IsPaid(j) \/ payments[j].status # "absent"
    BY <1>5 DEF Paid, IsPaid
  <2>. QED BY <1>5, <2>1, PursesKept DEF Paid
<1>. QED BY <1>1, <1>2, <1>3, <1>4, <1>5, RegisterPurses DEF PayView

-----------------------------------------------------------------------------
(* What a step of the worker or the connector is to the same observer:     *)
(* rows of orders that are queued change, money and prices do not.         *)
WorkKeeps ==
    /\ UNCHANGED <<payments, gateway>>
    /\ \A o \in Orders :
         /\ orders'[o].amount = orders[o].amount
         /\ jobs'[o].status = "absent" <=> jobs[o].status = "absent"
         /\ jobs[o].status = "absent" => orders'[o].status = orders[o].status

InHand == {"paid", "fulfillment_processing"}

(* Only an order in hand, and that only as the connector decided, changes  *)
(* its stage; goods arrive for an order in hand or in review.              *)
Filed(o) ==
    /\ orders[o].status \in InHand /\ jobs[o].status # "absent"
    /\ orders'[o].status \in InHand \cup {"fulfilled", "failed", "requires_review"}
    /\ orders'[o].status = "fulfilled" => o \in delivered
    /\ orders'[o].status = "failed" => o \notin delivered
    /\ Only(o)
    /\ UNCHANGED delivered

GoodsCome(o) ==
    /\ orders[o].status \in InHand \cup {"requires_review"}
    /\ delivered' = delivered \cup {o}
    /\ UNCHANGED orders

WorkView ==
    \/ (\A o \in Orders : orders'[o].status = orders[o].status) /\ UNCHANGED delivered
    \/ \E o \in Orders : Filed(o) \/ GoodsCome(o)

(* A claim and a result that is filed.                                     *)
LEMMA ClaimView ==
  ASSUME WellFormed, Queue, NEW w \in Workers, Claim(w), UNCHANGED payOwnVars
  PROVE  WorkKeeps /\ WorkView
<1>1. PICK o \in Orders : ClaimJob(o, w) BY DEF Claim
<1>2. /\ orders[o].status \in InHand
      /\ orders'[o].status = "fulfillment_processing" /\ orders'[o].amount = orders[o].amount
      /\ \A p \in Orders \ {o} : orders'[p] = orders[p]
      /\ jobs[o].status # "absent" /\ \A p \in Orders \ {o} : jobs'[p] = jobs[p]
      /\ UNCHANGED payments
  BY <1>1, ClaimEffect DEF InHand
<1>3. jobs'[o].status = "processing" BY <1>1 DEF ClaimJob, TakeJob, WellFormed, StoreTypeOK
<1>4. WorkKeeps BY <1>2, <1>3 DEF WorkKeeps, payOwnVars
<1>5. Filed(o) BY <1>2 DEF Claim, connectorVars, Filed, InHand, Only
<1>. QED BY <1>4, <1>5 DEF WorkView

LEMMA FinishedJob ==
  ASSUME WellFormed, Queue, NEW w \in Workers, worker[w].pc = "finishing",
         NEW o \in Orders, o = worker[w].job, FinishJob(o, worker[w].result)
  PROVE  jobs'[o].status # "absent" /\ (orders'[o].status = "failed" => jobs'[o].status = "failed")
<1>. DEFINE f == Filing(worker[w].result, jobs[o].attempts)
<1>1. worker[w].result \in FulfillmentResult /\ jobs[o].attempts \in Nat
  BY DEF WellFormed, WorkWellFormed, WorkHandles, WorkerHolds, StoreTypeOK, JobRow
<1>2. f.job # "absent" /\ (f.order = "failed" => f.job = "failed")
  BY <1>1 DEF Filing, Exhausted, FulfillmentResult
<1>3. orders[o].status = "fulfillment_processing"
  BY DEF Queue, ClaimExclusive, HoldsClaim, OrderFollowsJob, JobWithOrder
<1>. HIDE DEF f
<1>4. FileJob(o, f) BY DEF FinishJob, f
<1>5. jobs'[o].status = f.job BY <1>4 DEF FileJob, WellFormed, StoreTypeOK
<1>6. orders'[o].status \in {"fulfillment_processing", f.order}
  BY <1>3, <1>4, SetStatusEffect DEF FileJob, WellFormed
<1>. QED BY <1>2, <1>5, <1>6

LEMMA FinishView ==
  ASSUME WellFormed, Queue, Goods, NEW w \in Workers, Finish(w), UNCHANGED payOwnVars
  PROVE  WorkKeeps /\ WorkView
<1>0. UNCHANGED <<gateway, delivered>> BY DEF Finish, connectorVars, payOwnVars
<1>1. PICK o \in Orders : o = worker[w].job
  BY DEF Finish, WellFormed, WorkWellFormed, WorkHandles, WorkerHolds
<1>2. CASE UNCHANGED storeVars BY <1>0, <1>2 DEF storeVars, WorkKeeps, WorkView
<1>3. CASE FinishJob(o, worker[w].result)
  <2>1. /\ orders[o].status = "fulfillment_processing" /\ orders'[o].amount = orders[o].amount
        /\ orders'[o].status \in InHand \cup {"fulfilled", "failed", "requires_review"}
        /\ \A p \in Orders \ {o} : orders'[p] = orders[p]
        /\ jobs[o].status # "absent" /\ \A p \in Orders \ {o} : jobs'[p] = jobs[p]
        /\ UNCHANGED payments
    BY <1>1, <1>3, FinishEffect DEF Finish, FiledAs, InHand
  <2>2. Goods' BY FinishGoods
  <2>4. jobs'[o].status # "absent" /\ (orders'[o].status = "failed" => jobs'[o].status = "failed")
    BY <1>1, <1>3, FinishedJob DEF Finish
  <2>5. /\ orders'[o].status = "fulfilled" => o \in delivered
        /\ orders'[o].status = "failed" => o \notin delivered
    BY <1>0, <2>2, <2>4 DEF Goods, FiledTruly, ConnectorKeeps
  <2>6. WorkKeeps BY <1>0, <2>1, <2>4 DEF WorkKeeps
  <2>7. Filed(o) BY <1>0, <2>1, <2>5 DEF Filed, InHand, Only
  <2>. QED BY <2>6, <2>7 DEF WorkView
<1>. QED BY <1>1, <1>2, <1>3 DEF Finish

(* The connector delivers for an order that was posted and is not decided: *)
(* it is in hand or, after exhausted attempts, in review.                  *)
LEMMA ServeView ==
  ASSUME WellFormed, Queue, Goods, NEW o \in Orders, Serve(o), UNCHANGED payOwnVars
  PROVE  WorkKeeps /\ WorkView
<1>1. UNCHANGED <<orders, jobs, payments, gateway>> BY DEF Serve, storeVars, payOwnVars
<1>2. WorkKeeps BY <1>1 DEF WorkKeeps
<1>3. CASE delivered' = delivered BY <1>1, <1>2, <1>3 DEF WorkView
<1>4. CASE verdict[o] = "none" /\ delivered' = delivered \cup {o}
  <2>1. posted[o] \in Nat /\ jobs[o].attempts \in Nat /\ posted[o] <= jobs[o].attempts
    BY DEF Queue, PostsCounted, WellFormed, WorkWellFormed, WorkOwnTypeOK, StoreTypeOK, JobRow
  <2>2. 1 .. posted[o] # {} BY DEF Serve
  <2>3. jobs[o].attempts # 0 BY <2>1, <2>2
  <2>4. jobs[o].status \notin {"absent", "queued"} BY <2>3 DEF Queue, JobConsistent
  <2>5. orders[o].status \in {"fulfillment_processing", "requires_review", "fulfilled", "failed"}
        /\ (orders[o].status = "failed" => jobs[o].status = "failed")
    BY <2>4 DEF Queue, OrderFollowsJob, JobWithOrder
  <2>6. orders[o].status # "fulfilled" /\ jobs[o].status # "failed"
    BY <1>4 DEF Goods, FiledTruly
  <2>7. GoodsCome(o) BY <1>1, <1>4, <2>5, <2>6 DEF GoodsCome, InHand
  <2>. QED BY <1>2, <2>7 DEF WorkView
<1>. QED BY <1>2, <1>3, <1>4, ServeGoods

LEMMA WorkStepView ==
  ASSUME WellFormed, Queue, Goods, WorkStep \/ \E w \in Workers : WorkerCrash(w),
         UNCHANGED payOwnVars
  PROVE  WorkKeeps /\ WorkView
<1>1. ASSUME UNCHANGED <<storeVars, delivered>> PROVE WorkKeeps /\ WorkView
  BY <1>1 DEF storeVars, payOwnVars, WorkKeeps, WorkView
<1>2. ASSUME NEW w \in Workers, WorkerStep(w) \/ WorkerCrash(w) PROVE WorkKeeps /\ WorkView
  <2>1. CASE FulfillManually(w) \/ Post(w) \/ ReadAnswer(w) \/ LoseAnswer(w) \/ WorkerCrash(w)
    BY <1>1, <2>1 DEF FulfillManually, Post, ReadAnswer, LoseAnswer, WorkerCrash, connectorVars
  <2>. QED BY <1>2, <2>1, ClaimView, FinishView DEF WorkerStep
<1>3. ASSUME NEW o \in Orders, TimePasses(o) PROVE WorkKeeps /\ WorkView
  <2>1. /\ UNCHANGED <<orders, payments, workOwnVars>>
        /\ \A p \in Orders : jobs'[p].status = jobs[p].status
    BY <1>3, TimeMoves DEF WellFormed
  <2>. QED BY <2>1 DEF workOwnVars, payOwnVars, WorkKeeps, WorkView
<1>4. ASSUME NEW o \in Orders, Hang(o) PROVE WorkKeeps /\ WorkView
  BY <1>1, <1>4 DEF Hang
<1>. QED BY <1>2, <1>3, <1>4, ServeView DEF WorkStep

LEMMA WorkPurses ==
  ASSUME Purses, WorkKeeps
  PROVE  Purses'
<1>1. \A i \in Invoices : IsPaid(i)' => IsPaid(i) BY DEF WorkKeeps, IsPaid
<1>. QED BY <1>1, PursesKept DEF WorkKeeps

-----------------------------------------------------------------------------
(* The invariant.                                                          *)

(* An empty shop satisfies the invariant of the goods and the purses.      *)
THEOREM InitPromise == Init => PromiseInv
<1>. SUFFICES ASSUME Init PROVE PromiseInv OBVIOUS
<1>1. MoneyInv BY InitMoney
<1>2. Goods
  BY DEF Init, StoreInit, WorkOwnInit, NoOrder, NoJob, IdleWorker, Goods, ConnectorKeeps, FiledTruly,
         WorkerTold, Final
<1>3. Purses
  BY DEF Init, StoreInit, PayOwnInit, NoOrder, NoPayment, NoInvoice, Purses, PaidIsRegistered,
         OneInvoiceEach, ClosedIsUnpaid, IsPaid
<1>. QED BY <1>1, <1>2, <1>3 DEF PromiseInv

(* A crash touches neither tables nor connector; its workers know nothing. *)
LEMMA CrashPromise ==
  ASSUME WellFormed, Goods, Purses, Crash \/ UNCHANGED vars
  PROVE  Goods' /\ Purses'
<1>1. UNCHANGED <<orders, jobs, payments, gateway, verdict, answer, delivered>>
  BY DEF Crash, LoseHandlers, connectorVars, vars, storeVars, payOwnVars, workOwnVars
<1>2. \A w \in Workers : worker'[w] = worker[w] \/ WorkerTold(w)'
  BY DEF Crash, IdleWorker, WorkerTold, vars, workOwnVars
<1>3. Goods' BY <1>1, <1>2, GoodsKept DEF Goods, ConnectorKeeps
<1>4. Purses' BY <1>1, PursesKept DEF IsPaid
<1>. QED BY <1>3, <1>4

(* Every step of the handlers, the worker and the connector keeps it.      *)
THEOREM NextPromise == PromiseInv /\ [Next]_vars => PromiseInv'
<1>. SUFFICES ASSUME PromiseInv, [Next]_vars PROVE Goods' /\ Purses'
  BY NextMoney DEF PromiseInv
<1>0. /\ WellFormed /\ StoreTypeOK /\ Queue /\ OrderFollowsJob
      /\ HandlersKnow /\ Accounts /\ Goods /\ Purses
  BY DEF PromiseInv, MoneyInv, QueueInv, WellFormed, Queue
<1>1. CASE (NewOrder \/ PayStep) /\ UNCHANGED workOwnVars
  BY <1>0, <1>1, PayStepGoods, PayStepView, PayPurses
<1>2. CASE (WorkStep \/ \E w \in Workers : WorkerCrash(w)) /\ UNCHANGED payOwnVars
  BY <1>0, <1>2, WorkStepGoods, WorkStepView, WorkPurses
<1>. QED BY <1>0, <1>1, <1>2, CrashPromise DEF Next

(* So it holds throughout, for any number of orders and any faults.        *)
THEOREM PromiseInvariant == Spec => []PromiseInv
  BY InitPromise, NextPromise, PTL DEF Spec

(* "fulfilled" is said only of goods that were delivered, and goods of a   *)
(* job that is filed as failed never come, however late the connector      *)
(* serves an earlier request.                                              *)
THEOREM GoodsAreAsTold == Spec => []GoodsAgree
<1>1. PromiseInv => GoodsAgree
  BY DEF PromiseInv, Goods, ConnectorKeeps, FiledTruly, GoodsAgree
<1>. QED BY PromiseInvariant, <1>1, PTL

-----------------------------------------------------------------------------
(* The refinement.  Stages and money as OrderPromise sees them, and the    *)
(* frame of a step that moves one order's stage, or none.                  *)
stages == [o \in Orders |-> StageOf(o)]
purse == {o \in Orders : MoneyFor(o)}

SamePurse == \A o \in Orders : MoneyFor(o)' <=> MoneyFor(o)

PromiseStep == Promise!Next \/ UNCHANGED <<stages, purse, delivered>>

LEMMA StageStays ==
  ASSUME \A o \in Orders : StageOf(o)' = StageOf(o), SamePurse, UNCHANGED delivered
  PROVE  PromiseStep
<1>1. stages' = stages /\ purse' = purse BY DEF stages, purse, SamePurse
<1>. QED BY <1>1 DEF PromiseStep

LEMMA StageMoves ==
  ASSUME NEW o \in Orders, NEW from, NEW to, StageOf(o) = from, StageOf(o)' = to,
         \A p \in Orders \ {o} : StageOf(p)' = StageOf(p), SamePurse, UNCHANGED delivered
  PROVE  Promise!Moves(o, from, to)
<1>1. purse' = purse BY DEF purse, SamePurse
<1>2. stages[o] = from /\ stages' = [stages EXCEPT ![o] = to] BY DEF stages
<1>. QED BY <1>1, <1>2 DEF Promise!Moves, stages, purse

LEMMA StepOfOne ==
  ASSUME NEW o \in Orders, Promise!Step(o)
  PROVE  PromiseStep
  BY DEF PromiseStep, Promise!Next

(* Other orders than the one that turns keep their stage.                  *)
LEMMA OtherStages ==
  ASSUME NEW o \in Orders, Only(o)
  PROVE  \A p \in Orders \ {o} : StageOf(p)' = StageOf(p)
  BY DEF Only, StageOf

(* Whose money is there does not change when neither payments' orders, nor *)
(* paid amounts, nor prices do.                                            *)
LEMMA PurseKept ==
  ASSUME SameMoney,
         \A i \in Invoices : IsPaid(i) => payments'[i].order = payments[i].order,
         \A o \in Orders : orders'[o].amount = orders[o].amount
  PROVE  SamePurse
  BY DEF SameMoney, SamePurse, MoneyFor

(* An order that has no invoice has no money.                              *)
LEMMA NoInvoiceNoMoney ==
  ASSUME StoreTypeOK, Accounts, NEW o \in Orders, orders[o].status \in {"absent", "payment_creating"}
  PROVE  ~MoneyFor(o)
<1>1. ~Invoiced(o) BY NotYetInvoiced
<1>. QED BY <1>1, PaymentNamesOrder DEF Invoiced, MoneyFor

(* An order is placed, or closed before it got an invoice.                 *)
LEMMA PlacedPromise ==
  ASSUME StoreTypeOK, OrderFollowsJob, Accounts, NEW o \in Orders, Placed(o), UNCHANGED delivered
  PROVE  PromiseStep
<1>1. StageOf(o) = "none" /\ StageOf(o)' = "open" BY DEF Placed, Turns, StageOf
<1>2. ~MoneyFor(o) BY NoInvoiceNoMoney DEF Placed, Turns
<1>3. ~MoneyFor(o)'
  <2>1. ~Invoiced(o) BY NotYetInvoiced DEF Placed, Turns
  <2>. QED BY <2>1, PaymentNamesOrder DEF Placed, Invoiced, MoneyFor
<1>4. \A p \in Orders \ {o} : MoneyFor(p)' <=> MoneyFor(p)
  BY DEF Placed, Turns, Only, MoneyFor, IsPaid
<1>5. SamePurse BY <1>2, <1>3, <1>4 DEF SamePurse
<1>6. \A p \in Orders \ {o} : StageOf(p)' = StageOf(p) BY OtherStages DEF Placed, Turns
<1>7. Promise!Moves(o, "none", "open") BY <1>1, <1>5, <1>6, StageMoves
<1>. QED BY <1>7, StepOfOne DEF Promise!Step, Promise!Place

LEMMA DroppedPromise ==
  ASSUME StoreTypeOK, OrderFollowsJob, Accounts, NEW o \in Orders, Dropped(o), UNCHANGED delivered
  PROVE  PromiseStep
<1>1. jobs[o].status = "absent" BY DEF Dropped, Turns, OrderFollowsJob, JobWithOrder
<1>2. StageOf(o) = "open" /\ StageOf(o)' = "closed" BY <1>1 DEF Dropped, Turns, StageOf
<1>3. ~MoneyFor(o) BY NoInvoiceNoMoney DEF Dropped, Turns
<1>4. \A p \in Orders : MoneyFor(p)' <=> MoneyFor(p)
  BY DEF Dropped, Turns, Only, MoneyFor, IsPaid
<1>5. SamePurse BY <1>4 DEF SamePurse
<1>6. \A p \in Orders \ {o} : StageOf(p)' = StageOf(p) BY OtherStages DEF Dropped, Turns
<1>7. Promise!Moves(o, "open", "closed") BY <1>2, <1>5, <1>6, StageMoves
<1>. QED BY <1>3, <1>7, StepOfOne DEF Promise!Step, Promise!Close, purse

(* A registered order waits for its money, and no money was waiting for it.*)
LEMMA RegisteredPromise ==
  ASSUME StoreTypeOK, Purses, NEW o \in Orders, NEW i \in Invoices, Registered(o, i),
         UNCHANGED delivered
  PROVE  PromiseStep
<1>1. StageOf(o)' = StageOf(o) BY DEF Registered, Turns, StageOf
<1>2. \A p \in Orders \ {o} : StageOf(p)' = StageOf(p) BY OtherStages DEF Registered, Turns
<1>3. ~IsPaid(i) BY DEF Registered, Purses, PaidIsRegistered
<1>4. SameMoney BY DEF Registered, SameMoney, IsPaid
<1>5. \A j \in Invoices \ {i} : payments'[j] = payments[j] BY DEF Registered, StoreTypeOK
<1>6. \A p \in Orders : orders'[p].amount = orders[p].amount BY DEF Registered, Turns, Only
<1>7. SamePurse BY <1>3, <1>4, <1>5, <1>6, PurseKept
<1>. QED BY <1>1, <1>2, <1>7, StageStays

(* Money comes for the order of the invoice.  It is open: had it been      *)
(* settled, then with this very invoice, which would be verified; had it   *)
(* been closed, it would have none.                                        *)
LEMMA PaidPromise ==
  ASSUME StoreTypeOK, OrderFollowsJob, Accounts, Purses, NEW i \in Invoices, Paid(i),
         UNCHANGED delivered
  PROVE  PromiseStep
<1>1. PICK o \in Orders : o = payments[i].order BY PaymentNamesOrder DEF Paid
<1>2. orders[o].status \notin {"absent", "payment_creating"}
  BY <1>1 DEF Paid, Accounts, PaymentKnown
<1>3. jobs[o].status = "absent"
  <2>. SUFFICES ASSUME jobs[o].status # "absent" PROVE FALSE OBVIOUS
  <2>1. PICK j \in Invoices : /\ payments[j] = [status |-> "paid", order |-> o]
                              /\ gateway[j].state = "verified"
    BY DEF Accounts, SettledOrder, PaidInFull
  <2>2. j = i BY <1>1, <2>1 DEF Paid, Purses, OneInvoiceEach
  <2>. QED BY <2>1, <2>2 DEF Paid
<1>4. ~(orders[o].status = "failed")
  BY <1>1, <1>3 DEF Paid, Purses, ClosedIsUnpaid, Invoiced
<1>5. orders[o].status = "awaiting_payment"
  BY <1>2, <1>3, <1>4 DEF OrderFollowsJob, JobWithOrder
<1>6. \A p \in Orders \ {o} : MoneyFor(p)' <=> MoneyFor(p)
  BY <1>1 DEF Paid, MoneyFor, IsPaid
<1>7. MoneyFor(o) => MoneyFor(o)' BY DEF Paid, MoneyFor, IsPaid
<1>8. stages' = stages BY DEF Paid, stages, StageOf
<1>9. purse' = purse \/ purse' = purse \cup {o} BY <1>6, <1>7 DEF purse
<1>10. stages[o] = "open" BY <1>5 DEF stages, StageOf
<1>11. purse' = purse \cup {o} => Promise!Receive(o)
  BY <1>8, <1>10 DEF Promise!Receive, stages, purse
<1>12. purse' = purse => PromiseStep BY <1>8 DEF PromiseStep
<1>. QED BY <1>9, <1>11, <1>12, StepOfOne DEF Promise!Step

LEMMA SettledPromise ==
  ASSUME StoreTypeOK, NEW o \in Orders, NEW i \in Invoices, Settled(o, i), UNCHANGED delivered
  PROVE  PromiseStep
<1>1. StageOf(o) = "open" /\ StageOf(o)' = "settled" BY DEF Settled, Turns, StageOf
<1>2. \A p \in Orders \ {o} : StageOf(p)' = StageOf(p) BY OtherStages DEF Settled, Turns
<1>3. MoneyFor(o) BY DEF Settled, MoneyFor, IsPaid
<1>4. SameMoney BY DEF Settled, SameMoney, IsPaid
<1>5. \A p \in Orders : orders'[p].amount = orders[p].amount BY DEF Settled, Turns, Only
<1>6. SamePurse BY <1>4, <1>5, PurseKept DEF Settled
<1>7. Promise!Moves(o, "open", "settled") BY <1>1, <1>2, <1>6, StageMoves
<1>. QED BY <1>3, <1>7, StepOfOne DEF Promise!Step, Promise!Settle, purse

(* The payment side, whole.                                                *)
LEMMA PayPromise ==
  ASSUME StoreTypeOK, OrderFollowsJob, Accounts, Purses, PayView, UNCHANGED delivered
  PROVE  PromiseStep
<1>1. CASE Rests
  <2>1. \A o \in Orders : StageOf(o)' = StageOf(o) BY <1>1 DEF Rests, StageOf
  <2>2. SamePurse BY <1>1, PurseKept DEF Rests
  <2>. QED BY <2>1, <2>2, StageStays
<1>. QED BY <1>1, PlacedPromise, DroppedPromise, RegisteredPromise, PaidPromise, SettledPromise
     DEF PayView

(* What is filed of an order in hand is that it stays there, or one of the *)
(* three ends of the promise.                                              *)
LEMMA FiledPromise ==
  ASSUME WorkKeeps, NEW o \in Orders, Filed(o)
  PROVE  PromiseStep
<1>1. SamePurse BY PurseKept DEF WorkKeeps, SameMoney, IsPaid
<1>2. \A p \in Orders \ {o} : StageOf(p)' = StageOf(p) BY OtherStages DEF Filed
<1>3. StageOf(o) = "settled" BY DEF Filed, InHand, StageOf
<1>4. jobs'[o].status # "absent" /\ UNCHANGED delivered BY DEF Filed, WorkKeeps
<1>5. CASE orders'[o].status \in InHand
  <2>1. StageOf(o)' = StageOf(o) BY <1>3, <1>5 DEF InHand, StageOf
  <2>. QED BY <1>1, <1>2, <1>4, <2>1, StageStays
<1>6. CASE orders'[o].status = "fulfilled"
  <2>1. StageOf(o)' = "fulfilled" BY <1>6 DEF StageOf
  <2>2. Promise!Moves(o, "settled", "fulfilled") BY <1>1, <1>2, <1>3, <1>4, <2>1, StageMoves
  <2>. QED BY <1>6, <2>2, StepOfOne DEF Filed, Promise!Step, Promise!Fulfill
<1>7. CASE orders'[o].status = "failed"
  <2>1. StageOf(o)' = "refused" BY <1>4, <1>7 DEF StageOf
  <2>2. Promise!Moves(o, "settled", "refused") BY <1>1, <1>2, <1>3, <1>4, <2>1, StageMoves
  <2>. QED BY <1>7, <2>2, StepOfOne DEF Filed, Promise!Step, Promise!Refuse
<1>8. CASE orders'[o].status = "requires_review"
  <2>1. StageOf(o)' = "review" BY <1>8 DEF StageOf
  <2>2. Promise!Moves(o, "settled", "review") BY <1>1, <1>2, <1>3, <1>4, <2>1, StageMoves
  <2>. QED BY <2>2, StepOfOne DEF Promise!Step, Promise!Review
<1>. QED BY <1>5, <1>6, <1>7, <1>8 DEF Filed

LEMMA WorkPromise ==
  ASSUME WorkKeeps, WorkView
  PROVE  PromiseStep
<1>1. SamePurse BY PurseKept DEF WorkKeeps, SameMoney, IsPaid
<1>2. CASE (\A o \in Orders : orders'[o].status = orders[o].status) /\ UNCHANGED delivered
  <2>1. \A o \in Orders : StageOf(o)' = StageOf(o) BY <1>2 DEF WorkKeeps, StageOf
  <2>. QED BY <1>1, <1>2, <2>1, StageStays
<1>3. ASSUME NEW o \in Orders, GoodsCome(o) PROVE PromiseStep
  <2>1. \A p \in Orders : StageOf(p)' = StageOf(p) BY <1>3 DEF GoodsCome, WorkKeeps, StageOf
  <2>2. stages' = stages /\ purse' = purse BY <1>1, <2>1 DEF stages, purse, SamePurse
  <2>3. stages[o] \in {"settled", "review"} BY <1>3 DEF GoodsCome, InHand, stages, StageOf
  <2>4. Promise!Deliver(o) BY <1>3, <2>2, <2>3 DEF GoodsCome, Promise!Deliver, stages, purse
  <2>. QED BY <2>4, StepOfOne DEF Promise!Step
<1>. QED BY <1>2, <1>3, FiledPromise DEF WorkView

(* docs/architecture.md:24-26, README.md:9-10: whatever the handlers, the  *)
(* gateway, the worker, the connector and failures do, step by step the    *)
(* shop keeps its promise about every order.                               *)
THEOREM ShopKeepsItsPromise == Spec => PromiseKept
<1>1. Init => Promise!Init
  <2>. SUFFICES ASSUME Init PROVE Promise!Init OBVIOUS
  <2>1. \A o \in Orders : StageOf(o) = "none" BY DEF Init, StoreInit, NoOrder, StageOf
  <2>2. \A o \in Orders : ~MoneyFor(o) BY DEF Init, PayOwnInit, NoInvoice, MoneyFor, IsPaid
  <2>3. delivered = {} BY DEF Init, WorkOwnInit
  <2>. QED BY <2>1, <2>2, <2>3 DEF Promise!Init
<1>2. PromiseInv /\ [Next]_vars => PromiseStep
  <2>. SUFFICES ASSUME PromiseInv, [Next]_vars PROVE PromiseStep OBVIOUS
  <2>0. /\ WellFormed /\ StoreTypeOK /\ Queue /\ OrderFollowsJob
        /\ HandlersKnow /\ Accounts /\ Goods /\ Purses
    BY DEF PromiseInv, MoneyInv, QueueInv, WellFormed, Queue
  <2>1. CASE (NewOrder \/ PayStep) /\ UNCHANGED workOwnVars
    BY <2>0, <2>1, PayStepView, PayPromise DEF workOwnVars
  <2>2. CASE (WorkStep \/ \E w \in Workers : WorkerCrash(w)) /\ UNCHANGED payOwnVars
    BY <2>0, <2>2, WorkStepView, WorkPromise
  <2>3. CASE Crash \/ UNCHANGED vars
    <3>1. UNCHANGED <<orders, jobs, payments, gateway, delivered>>
      BY <2>3 DEF Crash, LoseHandlers, connectorVars, vars, storeVars, payOwnVars, workOwnVars
    <3>. QED BY <3>1 DEF PromiseStep, stages, purse, StageOf, MoneyFor, IsPaid
  <2>. QED BY <2>1, <2>2, <2>3 DEF Next
<1>3. PromiseInv /\ [Next]_vars =>
        [Promise!Next]_<<[o \in Orders |-> StageOf(o)], {o \in Orders : MoneyFor(o)}, delivered>>
  BY <1>2 DEF PromiseStep, stages, purse
<1>. QED BY PromiseInvariant, <1>1, <1>3, PTL DEF Spec, PromiseKept, Promise!Spec
================================================================================
