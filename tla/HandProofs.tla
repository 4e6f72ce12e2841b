------------------------------ MODULE HandProofs ------------------------------
(***************************************************************************)
(* Nothing is forgotten, for any number of orders, invoices, handlers and  *)
(* workers: whatever waits for somebody is in somebody's hands.            *)
(***************************************************************************)
EXTENDS PromiseProofs

-----------------------------------------------------------------------------
(* A price is for ever, and so is money that came.                         *)
PricesKeep ==
    \A o \in Orders : orders[o].status # "absent" =>
        orders'[o].status # "absent" /\ orders'[o].amount = orders[o].amount

MoneyStays == \A i \in Invoices : IsPaid(i) => IsPaid(i)'

LEMMA PayKeeps ==
  ASSUME PayView
  PROVE  PricesKeep /\ MoneyStays
<1>. USE DEF PricesKeep, MoneyStays
<1>1. CASE Rests BY <1>1 DEF Rests, SameMoney
<1>2. ASSUME NEW o \in Orders, Placed(o) \/ Dropped(o) PROVE PricesKeep /\ MoneyStays
  BY <1>2 DEF Placed, Dropped, Turns, Only, IsPaid
<1>3. ASSUME NEW o \in Orders, NEW i \in Invoices, Registered(o, i) \/ Settled(o, i)
      PROVE  PricesKeep /\ MoneyStays
  BY <1>3 DEF Registered, Settled, Turns, Only, IsPaid
<1>4. ASSUME NEW i \in Invoices, Paid(i) PROVE PricesKeep /\ MoneyStays
  <2>1. gateway'[i].state = "paid" /\ \A j \in Invoices \ {i} : gateway'[j] = gateway[j]
    BY <1>4 DEF Paid
  <2>2. MoneyStays BY <2>1 DEF IsPaid
  <2>. QED BY <1>4, <2>2 DEF Paid
<1>. QED BY <1>1, <1>2, <1>3, <1>4 DEF PayView

(* A paid invoice's row stays as it is.                                    *)
PaidStays == \A i \in Invoices : payments[i].status = "paid" => payments'[i].status = "paid"

LEMMA SettleEffect ==
  ASSUME StoreTypeOK, NEW i \in Invoices, payments[i].status # "absent", SettlePayment(i)
  PROVE  payments'[i].status = "paid" /\ \A j \in Invoices \ {i} : payments'[j] = payments[j]
<1>1. payments[i] \in PaymentRow BY DEF StoreTypeOK
<1>2. payments' = [payments EXCEPT ![i] = [payments[i] EXCEPT !.status = "paid"]]
  BY DEF SettlePayment
<1>. QED BY <1>1, <1>2 DEF PaymentRow, StoreTypeOK

-----------------------------------------------------------------------------
(* Prices.                                                                 *)
LEMMA PricesKept ==
  ASSUME Prices, PricesKeep,
         "misprice" \notin Faults => \A i \in Invoices :
           \/ Priced(i)'
           \/ gateway'[i].state = "none"
           \/ /\ gateway[i].state # "none"
              /\ gateway'[i].order = gateway[i].order
              /\ gateway'[i].amount = gateway[i].amount
  PROVE  Prices'
  BY DEF Prices, Priced, PricesKeep

(* Nothing but the gateway's answer to create_invoice sets one.            *)
LEMMA PayPrices ==
  ASSUME WellFormed, HandlersKnow, Prices, PricesKeep, NewOrder \/ PayStep
  PROVE  Prices'
<1>0. gateway \in [Invoices -> InvoiceState] BY DEF WellFormed, PayWellFormed, PayOwnTypeOK
<1>1. CASE UNCHANGED gateway BY <1>1, PricesKept
<1>2. ASSUME NEW o \in Orders, creator[o].pc = "invoicing", NEW i \in Invoices, OpenInvoice(o, i),
             UNCHANGED orders
      PROVE  Prices'
  <2>1. orders[o].status = "payment_creating" BY <1>2 DEF HandlersKnow, CreatorKnows
  <2>2. \A j \in Invoices \ {i} : gateway'[j] = gateway[j] BY <1>0, <1>2 DEF OpenInvoice
  <2>3. "misprice" \notin Faults => Priced(i)'
    BY <1>0, <1>2, <2>1 DEF OpenInvoice, QuotedAmounts, Priced
  <2>. QED BY <2>2, <2>3, PricesKept
<1>3. ASSUME NEW i \in Invoices, CustomerPays(i) \/ InvoiceExpires(i) \/ UseUp(i) PROVE Prices'
  <2>1. \A j \in Invoices \ {i} : gateway'[j] = gateway[j]
    BY <1>0, <1>3 DEF CustomerPays, InvoiceExpires, UseUp
  <2>2. CASE CustomerPays(i)
    <3>1. /\ gateway[i].state # "none" /\ gateway'[i].order = gateway[i].order
          /\ "misprice" \notin Faults => gateway'[i].amount = gateway[i].amount
      BY <1>0, <2>2 DEF CustomerPays, InvoiceState
    <3>. QED BY <2>1, <3>1, PricesKept
  <2>3. CASE InvoiceExpires(i) \/ UseUp(i)
    <3>1. /\ gateway'[i].state = "none" \/ gateway[i].state # "none"
          /\ gateway'[i].order = gateway[i].order /\ gateway'[i].amount = gateway[i].amount
      BY <1>0, <2>3 DEF InvoiceExpires, UseUp, InvoiceState
    <3>. QED BY <2>1, <3>1, PricesKept
  <2>. QED BY <1>3, <2>2, <2>3
<1>4. CASE NewOrder BY <1>1, <1>4 DEF NewOrder, PlaceOrder
<1>5. ASSUME NEW o \in Orders, CreatorStep(o) PROVE Prices'
  BY <1>1, <1>2, <1>5
     DEF CreatorStep, CreateInvoice, RegisterCreatedInvoice, FailCreation, SendLink, storeVars
<1>6. ASSUME NEW r \in Requests, RequestStep(r) PROVE Prices'
  <2>1. CASE Verify(r)
    <3>1. notices[requests[r].delivery].invoice \in Invoices
      BY <2>1 DEF Verify, WellFormed, PayWellFormed, PayHandles, RequestHolds, NoticeHolds
    <3>. QED BY <1>1, <1>3, <2>1, <3>1 DEF Verify
  <2>. QED BY <1>1, <1>6, <2>1 DEF RequestStep, Record, Settle
<1>7. CASE OutsideStep BY <1>1, <1>3, <1>7 DEF OutsideStep, Notify, Deliver
<1>. QED BY <1>4, <1>5, <1>6, <1>7 DEF PayStep
-----------------------------------------------------------------------------
(* Creation: a handler lets go of an order only when it has taken it out   *)
(* of payment_creating, since registration cannot be refused.              *)
LEMMA Registers ==
  ASSUME WellFormed, HandlersKnow, Accounts, Prices, CreationUndisturbed,
         NEW o \in Orders, creator[o].pc = "registering"
  PROVE  CanRegister(o, creator[o].invoice, gateway[creator[o].invoice].amount)
<1>. DEFINE i == creator[o].invoice
<1>1. i \in Invoices BY DEF WellFormed, PayWellFormed, PayHandles, CreatorHolds
<1>2. /\ orders[o].status = "payment_creating"
      /\ gateway[i].state # "none" /\ gateway[i].order = o
  BY DEF HandlersKnow, CreatorKnows
<1>3. gateway[i].amount = orders[o].amount
  BY <1>1, <1>2 DEF CreationUndisturbed, Prices, Priced
<1>4. payments[i].status = "absent"
  BY <1>1, <1>2 DEF Accounts, PaymentKnown
<1>. QED BY <1>2, <1>3, <1>4 DEF CanRegister

LEMMA PayCreation ==
  ASSUME WellFormed, HandlersKnow, Accounts, Prices, CreationUndisturbed, CreationInHand,
         NewOrder \/ PayStep
  PROVE  CreationInHand'
<1>. USE DEF WellFormed
<1>0. StoreTypeOK /\ PayWellFormed OBVIOUS
<1>1. ASSUME NEW o \in Orders, \A p \in Orders \ {o} : creator'[p] = creator[p],
             \A p \in Orders \ {o} : orders'[p].status = orders[p].status,
             \/ orders'[o].status # "payment_creating"
             \/ creator'[o].pc \in {"invoicing", "registering", "failing"}
      PROVE  CreationInHand'
  BY <1>1 DEF CreationInHand
<1>2. ASSUME UNCHANGED <<creator, orders>> PROVE CreationInHand' BY <1>2 DEF CreationInHand
<1>3. ASSUME NEW o \in Orders, NEW a \in Amounts, PlaceOrder(o, a) PROVE CreationInHand'
  <2>1. CreatorGoes(o, "invoicing", NULL) BY <1>3 DEF PlaceOrder, CreationUndisturbed
  <2>2. creator'[o].pc = "invoicing" /\ \A p \in Orders \ {o} : creator'[p] = creator[p]
    BY <1>0, <2>1 DEF CreatorGoes, PayWellFormed, PayOwnTypeOK
  <2>3. \A p \in Orders \ {o} : orders'[p] = orders[p]
    BY <1>0, <1>3 DEF PlaceOrder, InsertOrder, StoreTypeOK
  <2>. QED BY <1>1, <2>2, <2>3
<1>4. ASSUME NEW o \in Orders, CreateInvoice(o) PROVE CreationInHand'
  <2>1. PICK pc \in {"registering", "failing"} : \E i : CreatorGoes(o, pc, i)
    BY <1>4 DEF CreateInvoice
  <2>2. creator'[o].pc = pc /\ \A p \in Orders \ {o} : creator'[p] = creator[p]
    BY <1>0, <2>1 DEF CreatorGoes, PayWellFormed, PayOwnTypeOK
  <2>. QED BY <1>1, <1>4, <2>2 DEF CreateInvoice, storeVars
<1>5. ASSUME NEW o \in Orders, RegisterCreatedInvoice(o) PROVE CreationInHand'
  <2>1. RegisterInvoice(o, creator[o].invoice)
    BY <1>5, Registers DEF RegisterCreatedInvoice, CreationUndisturbed, DbFails
  <2>2. /\ orders'[o].status = "awaiting_payment"
        /\ \A p \in Orders \ {o} : orders'[p] = orders[p]
    BY <1>0, <2>1 DEF RegisterInvoice, SetStatus, StoreTypeOK, OrderRow
  <2>3. \A p \in Orders \ {o} : creator'[p] = creator[p]
    BY <1>0, <1>5, OtherCreators DEF RegisterCreatedInvoice
  <2>. QED BY <1>1, <2>2, <2>3
<1>6. ASSUME NEW o \in Orders, FailCreation(o) PROVE CreationInHand'
  <2>1. orders[o].status = "payment_creating" /\ MarkCreationFailed(o)
    BY <1>6 DEF FailCreation, CreationUndisturbed, DbFails, HandlersKnow, CreatorKnows
  <2>2. /\ orders'[o].status = "failed"
        /\ \A p \in Orders \ {o} : orders'[p] = orders[p]
    BY <1>0, <2>1 DEF MarkCreationFailed, SetStatus, StoreTypeOK, OrderRow
  <2>3. \A p \in Orders \ {o} : creator'[p] = creator[p]
    BY <1>0, <1>6, OtherCreators DEF FailCreation
  <2>. QED BY <1>1, <2>2, <2>3
<1>7. ASSUME NEW o \in Orders, SendLink(o) PROVE CreationInHand'
  <2>1. UNCHANGED orders /\ creator[o].pc = "sending" BY <1>7 DEF SendLink, storeVars
  <2>2. \A p \in Orders \ {o} : creator'[p] = creator[p]
    BY <1>0, <1>7, OtherCreators DEF SendLink
  <2>3. orders[o].status # "payment_creating" BY <2>1 DEF CreationInHand
  <2>. QED BY <1>1, <2>1, <2>2, <2>3
<1>8. ASSUME NEW r \in Requests, RequestStep(r) PROVE CreationInHand'
  <2>1. ASSUME Settle(r), SettlePayment(notices[requests[r].delivery].invoice)
        PROVE  CreationInHand'
    <3>1. \A o \in Orders : orders'[o].status \in {orders[o].status, "paid"}
      BY <1>0, <2>1 DEF SettlePayment, SetStatus, StoreTypeOK, OrderRow
    <3>2. UNCHANGED creator BY <2>1 DEF Settle
    <3>. QED BY <3>1, <3>2 DEF CreationInHand
  <2>2. CASE Settle(r) BY <1>2, <2>1, <2>2 DEF Settle, storeVars
  <2>. QED BY <1>2, <1>8, <2>2 DEF RequestStep, Record, RecordDelivery, Verify, storeVars
<1>9. CASE OutsideStep
  BY <1>2, <1>9 DEF OutsideStep, CustomerPays, InvoiceExpires, Notify, Deliver, storeVars
<1>. QED BY <1>3, <1>4, <1>5, <1>6, <1>7, <1>8, <1>9 DEF NewOrder, PayStep, CreatorStep

-----------------------------------------------------------------------------
(* The worker: it lets go of a job only when it has filed a result.        *)
LEMMA WorkJobs ==
  ASSUME WellFormed, Queue, WorkUndisturbed, JobInHand, WorkStep \/ \E w \in Workers : WorkerCrash(w)
  PROVE  JobInHand'
<1>. USE DEF WellFormed
<1>0. WorkWellFormed /\ StoreTypeOK OBVIOUS
<1>1. ASSUME \A o \in Orders : jobs'[o].status = jobs[o].status,
             \A w \in Workers : worker[w].pc # "idle"
                => worker'[w].pc # "idle" /\ worker'[w].job = worker[w].job
      PROVE  JobInHand'
  BY <1>1 DEF JobInHand
<1>2. ASSUME NEW w \in Workers, NEW pc, pc # "idle", NEW result,
             WorkerGoes(w, pc, worker[w].job, result), UNCHANGED jobs
      PROVE  JobInHand'
  <2>1. /\ worker'[w].pc # "idle" /\ worker'[w].job = worker[w].job
        /\ \A v \in Workers \ {w} : worker'[v] = worker[v]
    BY <1>0, <1>2 DEF WorkerGoes, WorkWellFormed, WorkOwnTypeOK
  <2>. QED BY <1>1, <1>2, <2>1
<1>3. ASSUME NEW w \in Workers, Claim(w) PROVE JobInHand'
  <2>1. PICK o \in Orders : ClaimJob(o, w) /\ WorkerGoes(w, "claimed", o, "none")
    BY <1>3 DEF Claim, WorkUndisturbed, CommitUnknown
  <2>2. \A p \in Orders \ {o} : jobs'[p] = jobs[p] BY <2>1, ClaimEffect
  <2>3. /\ worker'[w].pc # "idle" /\ worker'[w].job = o
        /\ \A v \in Workers \ {w} : worker'[v] = worker[v]
    BY <1>0, <2>1 DEF WorkerGoes, WorkWellFormed, WorkOwnTypeOK
  <2>4. worker[w].pc = "idle" BY <1>3 DEF Claim
  <2>. QED BY <2>2, <2>3, <2>4 DEF JobInHand
<1>4. ASSUME NEW w \in Workers, Finish(w) PROVE JobInHand'
  <2>. DEFINE o == worker[w].job
              f == Filing(worker[w].result, jobs[o].attempts)
  <2>1. o \in Orders /\ worker[w].result \in FulfillmentResult /\ jobs[o].attempts \in Nat
    BY <1>0, <1>4 DEF Finish, WorkWellFormed, WorkHandles, WorkerHolds, StoreTypeOK, JobRow
  <2>2. f.job # "processing" BY <2>1 DEF Filing, Exhausted, FulfillmentResult
  <2>3. FileJob(o, f) BY <1>4 DEF Finish, FinishJob, WorkUndisturbed
  <2>4. \A v \in Workers \ {w} : worker'[v] = worker[v]
    BY <1>0, <1>4, WorkerAt DEF Finish, WorkerIdles
  <2>. HIDE DEF f
  <2>5. jobs'[o].status # "processing" /\ \A p \in Orders \ {o} : jobs'[p] = jobs[p]
    BY <1>0, <2>1, <2>2, <2>3 DEF FileJob, StoreTypeOK
  <2>. QED BY <2>4, <2>5 DEF JobInHand
<1>5. ASSUME NEW w \in Workers, WorkerStep(w) PROVE JobInHand'
  BY <1>2, <1>3, <1>4, <1>5
     DEF WorkerStep, FulfillManually, Post, ReadAnswer, LoseAnswer, storeVars
<1>6. ASSUME NEW o \in Orders, Serve(o) \/ Hang(o) PROVE JobInHand'
  BY <1>1, <1>6 DEF Serve, Hang, storeVars
<1>7. ASSUME NEW o \in Orders, TimePasses(o) PROVE JobInHand'
  BY <1>0, <1>1, <1>7, TimeMoves DEF workOwnVars
<1>8. ~\E w \in Workers : WorkerCrash(w) BY DEF WorkerCrash, WorkUndisturbed
<1>. QED BY <1>5, <1>6, <1>7, <1>8 DEF WorkStep
-----------------------------------------------------------------------------
(* Deliveries.  A request that is answered leaves the others alone, and of *)
(* the notices only the state of its own.                                  *)
LEMMA RespondEffect ==
  ASSUME PayWellFormed, NEW r \in Requests, NEW status, Respond(r, status)
  PROVE  /\ requests'[r].pc = "idle" /\ \A q \in Requests \ {r} : requests'[q] = requests[q]
         /\ \A d \in Deliveries : /\ notices'[d].invoice = notices[d].invoice
                                  /\ notices'[d].event = notices[d].event
                                  /\ \/ notices'[d].state = notices[d].state
                                     \/ /\ status = OK /\ d = requests[r].delivery
                                        /\ notices'[d].state = "acked"
<1>1. requests'[r].pc = "idle" /\ \A q \in Requests \ {r} : requests'[q] = requests[q]
  BY DEF Respond, NoRequest, PayWellFormed, PayOwnTypeOK
<1>. QED BY <1>1 DEF Respond, PayWellFormed, PayOwnTypeOK, NoticeState

LEMMA RespondNotices ==
  ASSUME PayWellFormed, Notices, MoneyStays, NEW r \in Requests, NEW status, Respond(r, status),
         recorded' = recorded \/ recorded' = recorded \cup {requests[r].delivery},
         requests[r].pc # "idle",
         status = OK => requests[r].delivery \in recorded'
  PROVE  Notices'
<1>1. /\ requests[r].delivery \in Deliveries /\ notices[requests[r].delivery].state # "unused"
      /\ \A d \in Deliveries : notices[d].state # "unused" => notices[d].invoice \in Invoices
  BY DEF PayWellFormed, PayHandles, RequestHolds, NoticeHolds
<1>2. ASSUME NEW d \in Deliveries PROVE NoticeTrue(d)'
  <2>1. /\ notices'[d].invoice = notices[d].invoice /\ notices'[d].event = notices[d].event
        /\ \/ notices'[d].state = notices[d].state
           \/ status = OK /\ d = requests[r].delivery /\ notices'[d].state = "acked"
    BY RespondEffect
  <2>2. NoticeTrue(d) BY DEF Notices
  <2>3. notices'[d].event = "invoice.paid" => IsPaid(notices[d].invoice)'
    BY <1>1, <2>1, <2>2 DEF NoticeTrue, MoneyStays
  <2>. QED BY <1>1, <2>1, <2>2, <2>3 DEF NoticeTrue
<1>3. ASSUME NEW q \in Requests PROVE ActsOnPayment(q)'
  <2>1. requests[q].pc # "idle" => requests[q].delivery \in Deliveries
    BY DEF PayWellFormed, PayHandles, RequestHolds
  <2>2. ActsOnPayment(q) BY DEF Notices
  <2>. QED BY <2>1, <2>2, RespondEffect DEF ActsOnPayment
<1>. QED BY <1>2, <1>3 DEF Notices

LEMMA PayNotices ==
  ASSUME WellFormed, Notices, MoneyStays, NewOrder \/ PayStep
  PROVE  Notices'
<1>. USE DEF WellFormed
<1>0. PayWellFormed OBVIOUS
<1>1. /\ \A d \in Deliveries : notices[d].state # "unused" => notices[d].invoice \in Invoices
      /\ \A r \in Requests : requests[r].pc # "idle" => /\ requests[r].delivery \in Deliveries
                                                        /\ notices[requests[r].delivery].state # "unused"
  BY <1>0 DEF PayWellFormed, PayHandles, RequestHolds, NoticeHolds
<1>2. ASSUME UNCHANGED <<notices, recorded>> PROVE \A d \in Deliveries : NoticeTrue(d)'
  <2>1. \A d \in Deliveries : notices[d].event = "invoice.paid" => IsPaid(notices[d].invoice)'
    BY <1>1, <1>2 DEF Notices, NoticeTrue, MoneyStays, IsPaid
  <2>. QED BY <1>2, <2>1 DEF Notices, NoticeTrue
<1>3. ASSUME UNCHANGED <<notices, recorded, requests>> PROVE Notices'
  BY <1>2, <1>3 DEF Notices, ActsOnPayment
<1>4. ASSUME NEW i \in Invoices, Notify(i) PROVE Notices'
  <2>1. PICK d \in Deliveries, e \in EventsOf(i) :
          /\ notices[d].state = "unused"
          /\ notices' = [notices EXCEPT ![d] = [state |-> "pending", invoice |-> i, event |-> e]]
    BY <1>4 DEF Notify
  <2>2. UNCHANGED <<recorded, gateway, requests>> BY <1>4 DEF Notify, storeVars
  <2>3. /\ notices'[d] = [state |-> "pending", invoice |-> i, event |-> e]
        /\ \A c \in Deliveries \ {d} : notices'[c] = notices[c]
    BY <1>0, <2>1 DEF PayWellFormed, PayOwnTypeOK
  <2>4. e = "invoice.paid" => IsPaid(i) BY <2>1 DEF EventsOf
  <2>5. \A c \in Deliveries : NoticeTrue(c)' BY <2>2, <2>3, <2>4 DEF Notices, NoticeTrue, IsPaid
  <2>6. \A r \in Requests : ActsOnPayment(r)'
    BY <1>1, <2>1, <2>2, <2>3 DEF Notices, ActsOnPayment
  <2>. QED BY <2>5, <2>6 DEF Notices
<1>5. ASSUME NEW d \in Deliveries, Deliver(d) PROVE Notices'
  <2>1. PICK r \in Requests : requests' = [requests EXCEPT ![r] = [pc |-> "recording", delivery |-> d,
                                                                   verified |-> FALSE, amount |-> NULL]]
    BY <1>5 DEF Deliver
  <2>2. requests'[r].pc = "recording" /\ \A q \in Requests \ {r} : requests'[q] = requests[q]
    BY <1>0, <2>1 DEF PayWellFormed, PayOwnTypeOK
  <2>3. UNCHANGED <<recorded, notices>> BY <1>5 DEF Deliver, storeVars
  <2>. QED BY <1>2, <2>2, <2>3 DEF Notices, ActsOnPayment
<1>6. CASE OutsideStep
  BY <1>3, <1>4, <1>5, <1>6 DEF OutsideStep, CustomerPays, InvoiceExpires, storeVars
<1>7. ASSUME NEW o \in Orders, CreatorStep(o) PROVE Notices'
  BY <1>3, <1>7 DEF CreatorStep, CreateInvoice, RegisterCreatedInvoice, RegisterInvoice, FailCreation,
                    MarkCreationFailed, SendLink, storeVars
<1>8. CASE NewOrder BY <1>3, <1>8 DEF NewOrder, PlaceOrder, InsertOrder
<1>9. ASSUME NEW r \in Requests, Record(r) PROVE Notices'
  <2>. DEFINE d == requests[r].delivery
  <2>1. requests[r].pc # "idle" /\ d \in Deliveries BY <1>1, <1>9 DEF Record
  <2>2. ASSUME NEW status, Respond(r, status), recorded' = recorded \/ recorded' = recorded \cup {d},
               status = OK => d \in recorded'
        PROVE  Notices'
    BY <1>0, <2>1, <2>2, RespondNotices
  <2>3. ASSUME RecordDelivery(d), notices[d].event = "invoice.paid", UNCHANGED notices,
               RequestGoes(r, "verifying", FALSE, NULL)
        PROVE  Notices'
    <3>1. recorded' = recorded \cup {d} BY <2>3 DEF RecordDelivery
    <3>2. \A c \in Deliveries : NoticeTrue(c)'
      <4>1. \A c \in Deliveries : notices[c].event = "invoice.paid" => IsPaid(notices[c].invoice)'
        BY <1>1, <2>3 DEF Notices, NoticeTrue, MoneyStays, IsPaid
      <4>2. notices[d].state # "unused" BY <1>1, <2>1
      <4>. HIDE DEF d
      <4>. QED BY <2>3, <3>1, <4>1, <4>2 DEF Notices, NoticeTrue
    <3>3. \A q \in Requests : ActsOnPayment(q)'
      <4>1. /\ requests'[r].delivery = d
            /\ \A q \in Requests \ {r} : requests'[q] = requests[q]
        BY <1>0, <2>3 DEF RequestGoes, PayWellFormed, PayOwnTypeOK
      <4>. QED BY <2>3, <3>1, <4>1 DEF Notices, ActsOnPayment
    <3>. QED BY <3>2, <3>3 DEF Notices
  <2>4. InternalError # OK BY DEF InternalError, OK
  <2>5. ASSUME RecordDelivery(d), NEW status, Respond(r, status) PROVE Notices'
    <3>1. recorded' = recorded \cup {d} BY <2>5 DEF RecordDelivery
    <3>. QED BY <2>2, <2>5, <3>1
  <2>6. ASSUME UNCHANGED storeVars, NEW status, Respond(r, status), status = OK => ~IsNewDelivery(d)
        PROVE  Notices'
    <3>1. recorded' = recorded BY <2>6 DEF storeVars
    <3>. QED BY <2>2, <2>6, <3>1 DEF IsNewDelivery
  <2>. QED BY <1>9, <2>3, <2>4, <2>5, <2>6 DEF Record
<1>10. ASSUME NEW r \in Requests, Verify(r) \/ Settle(r) PROVE Notices'
  <2>1. requests[r].pc \in {"verifying", "settling"} /\ UNCHANGED recorded
    BY <1>10 DEF Verify, Settle, SettlePayment, storeVars
  <2>2. requests[r].delivery \in recorded /\ notices[requests[r].delivery].event = "invoice.paid"
    BY <2>1 DEF Notices, ActsOnPayment
  <2>3. ASSUME NEW status, Respond(r, status) PROVE Notices'
    BY <1>0, <2>1, <2>2, <2>3, RespondNotices
  <2>4. ASSUME NEW v, NEW a, RequestGoes(r, "settling", v, a), UNCHANGED notices PROVE Notices'
    <3>1. \A q \in Requests : ActsOnPayment(q)'
      <4>1. /\ requests'[r].delivery = requests[r].delivery
            /\ \A q \in Requests \ {r} : requests'[q] = requests[q]
        BY <1>0, <2>4 DEF RequestGoes, PayWellFormed, PayOwnTypeOK
      <4>. QED BY <2>1, <2>2, <2>4, <4>1 DEF Notices, ActsOnPayment
    <3>. QED BY <1>2, <2>1, <2>4, <3>1 DEF Notices
  <2>. QED BY <1>10, <2>3, <2>4 DEF Verify, Settle
<1>. QED BY <1>6, <1>7, <1>8, <1>9, <1>10 DEF PayStep, RequestStep
-----------------------------------------------------------------------------
(* Payments, from hand to hand: what a step must leave alone, and what it  *)
(* may do to who records, verifies or settles.                             *)
About(r) == notices[requests[r].delivery].invoice

LEMMA SettlingKept ==
  ASSUME WellFormed, Settling, Notices, GatewayKeeps, PaidStays,
         recorded \subseteq recorded',
         \A d \in recorded' \ recorded : RecordedInHand(d)',
         \A i \in Invoices : gateway'[i].state = "verified"
                               => gateway[i].state = "verified" \/ VerifiedInHand(i)',
         \A d \in Deliveries : notices[d].state # "unused"
            => notices'[d].invoice = notices[d].invoice /\ notices'[d].event = notices[d].event,
         \A r \in Requests : \/ requests'[r] = requests[r]
                             \/ requests[r].pc = "verifying" /\ gateway'[About(r)].state = "verified"
                             \/ requests[r].pc = "settling"
                                /\ (requests[r].verified => payments'[About(r)].status = "paid")
                             \/ requests[r].pc \in {"idle", "recording"}
  PROVE  Settling'
<1>. USE DEF WellFormed
<1>1. /\ \A d \in Deliveries : notices[d].state # "unused" => notices[d].invoice \in Invoices
      /\ \A r \in Requests : requests[r].pc # "idle" => /\ requests[r].delivery \in Deliveries
                                                        /\ notices[requests[r].delivery].state # "unused"
  BY DEF PayWellFormed, PayHandles, RequestHolds, NoticeHolds
<1>2. ASSUME NEW d \in Deliveries, d \in recorded PROVE RecordedInHand(d)'
  <2>1. notices[d].state # "unused" BY <1>2 DEF Notices, NoticeTrue
  <2>2. /\ notices[d].invoice \in Invoices
        /\ notices'[d].invoice = notices[d].invoice /\ notices'[d].event = notices[d].event
    BY <1>1, <2>1
  <2>3. CASE gateway[notices[d].invoice].state = "verified"
    BY <2>2, <2>3 DEF GatewayKeeps, RecordedInHand
  <2>4. ASSUME NEW r \in Requests, requests[r].pc = "verifying", About(r) = notices[d].invoice
        PROVE  RecordedInHand(d)'
    <3>1. CASE requests'[r] = requests[r]
      <4>1. requests'[r].pc = "verifying"
            /\ notices'[requests'[r].delivery].invoice = notices'[d].invoice
        BY <1>1, <2>2, <2>4, <3>1 DEF About
      <4>. QED BY <4>1 DEF RecordedInHand, Handled
    <3>2. CASE gateway'[About(r)].state = "verified" BY <2>2, <2>4, <3>2 DEF RecordedInHand
    <3>. QED BY <2>4, <3>1, <3>2
  <2>5. CASE notices[d].event # "invoice.paid" BY <2>2, <2>5 DEF RecordedInHand
  <2>. QED BY <1>2, <2>3, <2>4, <2>5 DEF Settling, RecordedInHand, Handled, About
<1>3. ASSUME NEW i \in Invoices, gateway[i].state = "verified" PROVE VerifiedInHand(i)'
  <2>1. CASE payments[i].status = "paid" BY <2>1 DEF PaidStays, VerifiedInHand
  <2>2. ASSUME NEW r \in Requests, requests[r].pc = "settling", requests[r].verified, About(r) = i
        PROVE  VerifiedInHand(i)'
    <3>1. CASE requests'[r] = requests[r]
      <4>1. /\ requests'[r].pc = "settling" /\ requests'[r].verified
            /\ notices'[requests'[r].delivery].invoice = i
        BY <1>1, <2>2, <3>1 DEF About
      <4>. QED BY <4>1 DEF VerifiedInHand
    <3>2. CASE payments'[About(r)].status = "paid" BY <2>2, <3>2 DEF VerifiedInHand
    <3>. QED BY <2>2, <3>1, <3>2
  <2>. QED BY <1>3, <2>1, <2>2 DEF Settling, VerifiedInHand, About
<1>4. \A d \in Deliveries : RecordedInHand(d)' BY <1>2 DEF RecordedInHand
<1>5. \A i \in Invoices : VerifiedInHand(i)' BY <1>3 DEF VerifiedInHand
<1>. QED BY <1>4, <1>5 DEF Settling

(* A paid order's invoice that is verified once more was settled before.   *)
LEMMA OnceSettled ==
  ASSUME OrderFollowsJob, Accounts, Purses, NEW i \in Invoices, NEW o \in Orders,
         payments[i].status # "absent", payments[i].order = o, ~Settleable(o)
  PROVE  payments[i].status = "paid"
<1>1. orders[o].status \notin {"absent", "payment_creating", "awaiting_payment"}
  BY DEF Accounts, PaymentKnown, Settleable
<1>2. jobs[o].status # "absent"
  <2>1. ~(orders[o].status = "failed" /\ jobs[o].status = "absent")
    BY DEF Purses, ClosedIsUnpaid, Invoiced
  <2>. QED BY <1>1, <2>1 DEF OrderFollowsJob, JobWithOrder
<1>3. PICK j \in Invoices : payments[j] = [status |-> "paid", order |-> o]
  BY <1>2 DEF Accounts, SettledOrder, PaidInFull
<1>4. j = i BY <1>3 DEF Purses, OneInvoiceEach
<1>. QED BY <1>3, <1>4

LEMMA SettleHands ==
  ASSUME PromiseInv, Prices, Notices, SettlingUndisturbed, Settling, NEW r \in Requests, Settle(r)
  PROVE  Settling'
<1>0. /\ WellFormed /\ StoreTypeOK /\ PayWellFormed /\ OrderFollowsJob
      /\ HandlersKnow /\ Accounts /\ Purses
  BY DEF PromiseInv, MoneyInv, QueueInv, WellFormed, Queue
<1>. DEFINE i == About(r)
            o == payments[i].order
            v == requests[r].verified
            accepted == VerificationAccepted(i, v, requests[r].amount)
<1>1. /\ requests[r].pc = "settling" /\ UNCHANGED gateway
      /\ \/ accepted /\ Settleable(o) /\ SettlePayment(i)
         \/ UNCHANGED storeVars /\ (accepted => ~Settleable(o))
  BY DEF Settle, About, SettlingUndisturbed, DbFails
<1>2. i \in Invoices
  BY <1>0, <1>1 DEF About, PayWellFormed, PayHandles, RequestHolds, NoticeHolds
<1>3. recorded' = recorded BY <1>1 DEF SettlePayment, storeVars
<1>4. PICK status : Respond(r, status) BY DEF Settle
<1>5. v => accepted
  <2>. SUFFICES ASSUME v PROVE accepted OBVIOUS
  <2>1. gateway[i].state = "verified" /\ requests[r].amount = gateway[i].amount
    BY <1>0, <1>1 DEF HandlersKnow, RequestKnows, About
  <2>2. payments[i].status # "absent" BY <1>0, <1>2, <2>1 DEF Purses, PaidIsRegistered, IsPaid
  <2>3. gateway[i].order = o BY <1>0, <1>2, <2>2 DEF Accounts, PaymentKnown
  <2>4. gateway[i].amount = orders[o].amount
    BY <1>2, <2>1, <2>3 DEF SettlingUndisturbed, Prices, Priced
  <2>. QED BY <2>1, <2>2, <2>4 DEF VerificationAccepted
<1>. HIDE DEF i
<1>6. PaidStays /\ (v => payments'[i].status = "paid")
  <2>1. CASE accepted /\ Settleable(o) /\ SettlePayment(i)
    <3>1. payments[i].status # "absent" BY <2>1 DEF VerificationAccepted
    <3>. QED BY <1>0, <1>2, <2>1, <3>1, SettleEffect DEF PaidStays
  <2>2. CASE UNCHANGED storeVars /\ (accepted => ~Settleable(o))
    <3>1. PaidStays BY <2>2 DEF storeVars, PaidStays
    <3>2. ASSUME v PROVE payments[i].status = "paid"
      <4>1. payments[i].status # "absent" BY <1>5, <3>2 DEF VerificationAccepted
      <4>2. o \in Orders BY <1>0, <1>2, <4>1, PaymentNamesOrder
      <4>. QED BY <1>0, <1>2, <1>5, <2>2, <3>2, <4>1, <4>2, OnceSettled
    <3>. QED BY <2>2, <3>1, <3>2 DEF storeVars
  <2>. QED BY <1>1, <2>1, <2>2
<1>7. GatewayKeeps BY <1>1 DEF GatewayKeeps
<1>8. /\ \A q \in Requests \ {r} : requests'[q] = requests[q]
      /\ \A d \in Deliveries : /\ notices'[d].invoice = notices[d].invoice
                               /\ notices'[d].event = notices[d].event
  BY <1>0, <1>4, RespondEffect
<1>. QED BY <1>0, <1>1, <1>3, <1>6, <1>7, <1>8, SettlingKept DEF i

LEMMA VerifyHands ==
  ASSUME WellFormed, Notices, SettlingUndisturbed, Settling, NEW r \in Requests, Verify(r)
  PROVE  Settling'
<1>0. PayWellFormed BY DEF WellFormed
<1>1. PICK i \in Invoices : i = About(r) /\ IsPaid(i)
  BY <1>0 DEF Verify, About, PayWellFormed, PayHandles, RequestHolds, NoticeHolds, Notices,
              ActsOnPayment, NoticeTrue
<1>2. /\ requests[r].pc = "verifying" /\ UNCHANGED <<storeVars, notices>> /\ UseUp(i)
      /\ \E v \in BOOLEAN : /\ gateway[i].state = "paid" => v
                            /\ RequestGoes(r, "settling", v, gateway[i].amount)
  BY <1>1 DEF Verify, About, SettlingUndisturbed
<1>3. PICK v \in BOOLEAN : /\ gateway[i].state = "paid" => v
                           /\ RequestGoes(r, "settling", v, gateway[i].amount)
  BY <1>2
<1>4. /\ requests'[r].pc = "settling" /\ requests'[r].verified = v
      /\ requests'[r].delivery = requests[r].delivery
      /\ \A q \in Requests \ {r} : requests'[q] = requests[q]
  BY <1>0, <1>3 DEF RequestGoes, PayWellFormed, PayOwnTypeOK
<1>5. GatewayKeeps BY <1>0, <1>1, <1>2, GatewaySteps
<1>6. /\ gateway'[i].state = "verified"
      /\ \A j \in Invoices \ {i} : gateway'[j] = gateway[j]
  BY <1>0, <1>1, <1>2 DEF UseUp, IsPaid, PayWellFormed, PayOwnTypeOK, InvoiceState
<1>7. gateway[i].state # "verified" => VerifiedInHand(i)'
  <2>1. notices'[requests'[r].delivery].invoice = i BY <1>1, <1>2, <1>4 DEF About
  <2>. QED BY <1>1, <1>3, <1>4, <2>1 DEF VerifiedInHand, IsPaid
<1>8. UNCHANGED <<payments, recorded, notices>> BY <1>2 DEF storeVars
<1>9. PaidStays BY <1>8 DEF PaidStays
<1>10. \A j \in Invoices : gateway'[j].state = "verified"
                             => gateway[j].state = "verified" \/ VerifiedInHand(j)'
  BY <1>6, <1>7
<1>11. \A q \in Requests : \/ requests'[q] = requests[q]
                           \/ requests[q].pc = "verifying" /\ gateway'[About(q)].state = "verified"
  BY <1>1, <1>2, <1>4, <1>6
<1>. QED BY <1>5, <1>8, <1>9, <1>10, <1>11, SettlingKept
(* record_webhook.  Who records a payment goes on to verify it.            *)
LEMMA RecordHands ==
  ASSUME WellFormed, Notices, SettlingUndisturbed, Settling, NEW r \in Requests, Record(r)
  PROVE  Settling'
<1>0. PayWellFormed BY DEF WellFormed
<1>1. PICK d \in Deliveries : d = requests[r].delivery
  BY <1>0 DEF Record, PayWellFormed, PayHandles, RequestHolds
<1>2. requests[r].pc = "recording" /\ UNCHANGED <<payments, gateway>> BY DEF Record, RecordDelivery, storeVars
<1>3. GatewayKeeps /\ PaidStays BY <1>2 DEF GatewayKeeps, PaidStays
<1>. DEFINE OthersStay == /\ \A q \in Requests \ {r} : requests'[q] = requests[q]
                          /\ \A c \in Deliveries : /\ notices'[c].invoice = notices[c].invoice
                                                   /\ notices'[c].event = notices[c].event
<1>4. OthersStay
  <2>1. ASSUME NEW status, Respond(r, status) PROVE OthersStay
    BY <1>0, <2>1, RespondEffect
  <2>2. ASSUME NEW pc, NEW v, NEW a, RequestGoes(r, pc, v, a), UNCHANGED notices PROVE OthersStay
    BY <1>0, <2>2 DEF RequestGoes, PayWellFormed, PayOwnTypeOK
  <2>. QED BY <2>1, <2>2 DEF Record
<1>5. recorded \subseteq recorded' /\ recorded' \ recorded \subseteq {d}
  BY <1>1 DEF Record, RecordDelivery, storeVars
<1>6. d \in recorded' \ recorded => RecordedInHand(d)'
  <2>. SUFFICES ASSUME d \in recorded' \ recorded, notices[d].event = "invoice.paid"
                PROVE  RecordedInHand(d)'
    BY <1>4 DEF RecordedInHand
  <2>1. RequestGoes(r, "verifying", FALSE, NULL) /\ UNCHANGED notices
    BY <1>1 DEF Record, SettlingUndisturbed, storeVars
  <2>2. requests'[r].pc = "verifying" /\ notices'[requests'[r].delivery].invoice = notices'[d].invoice
    BY <1>0, <1>1, <2>1 DEF RequestGoes, PayWellFormed, PayOwnTypeOK
  <2>. QED BY <2>2 DEF RecordedInHand, Handled
<1>. QED BY <1>2, <1>3, <1>4, <1>5, <1>6, SettlingKept

(* Everybody else on the payment side leaves requests on payments alone.   *)
LEMMA PaySettling ==
  ASSUME PromiseInv, Prices, Notices, SettlingUndisturbed, Settling, NewOrder \/ PayStep
  PROVE  Settling'
<1>0. WellFormed /\ PayWellFormed /\ StoreTypeOK BY DEF PromiseInv, MoneyInv, QueueInv, WellFormed
<1>. USE DEF PayWellFormed, PayOwnTypeOK
<1>1. ASSUME UNCHANGED recorded, PaidStays, GatewayKeeps,
             \A i \in Invoices : gateway'[i].state = "verified" => gateway[i].state = "verified",
             \A d \in Deliveries : notices[d].state # "unused" => notices'[d] = notices[d],
             \A r \in Requests : requests'[r] = requests[r] \/ requests[r].pc = "idle"
      PROVE  Settling'
  BY <1>0, <1>1, SettlingKept
<1>2. ASSUME UNCHANGED <<recorded, gateway, requests, notices>>, PaidStays PROVE Settling'
  BY <1>1, <1>2 DEF GatewayKeeps
<1>3. ASSUME UNCHANGED <<recorded, payments, requests, notices>>, NEW i \in Invoices,
             \/ \E o \in Orders : OpenInvoice(o, i)
             \/ CustomerPays(i) \/ InvoiceExpires(i) \/ UNCHANGED gateway
      PROVE  Settling'
  <2>1. GatewayKeeps BY <1>0, <1>3, GatewaySteps
  <2>2. \A j \in Invoices : gateway'[j].state = "verified" => gateway[j].state = "verified"
    BY <1>0, <1>3 DEF OpenInvoice, CustomerPays, InvoiceExpires, InvoiceState
  <2>. QED BY <1>1, <1>3, <2>1, <2>2 DEF PaidStays
<1>4. ASSUME NEW o \in Orders, RegisterCreatedInvoice(o) PROVE Settling'
  <2>1. UNCHANGED <<recorded, gateway, requests, notices>>
    BY <1>4 DEF RegisterCreatedInvoice, RegisterInvoice, storeVars
  <2>2. PaidStays
    <3>1. CASE UNCHANGED payments BY <3>1 DEF PaidStays
    <3>2. CASE RegisterInvoice(o, creator[o].invoice)
               /\ CanRegister(o, creator[o].invoice, gateway[creator[o].invoice].amount)
      BY <1>0, <3>2 DEF RegisterInvoice, CanRegister, PaidStays, StoreTypeOK
    <3>. QED BY <1>4, <3>1, <3>2 DEF RegisterCreatedInvoice, storeVars
  <2>. QED BY <1>2, <2>1, <2>2
<1>5. ASSUME NEW o \in Orders, CreateInvoice(o) PROVE Settling'
  <2>1. UNCHANGED <<recorded, payments, requests, notices>> BY <1>5 DEF CreateInvoice, storeVars
  <2>2. CASE UNCHANGED gateway BY <1>2, <2>1, <2>2 DEF PaidStays
  <2>. QED BY <1>3, <1>5, <2>1, <2>2 DEF CreateInvoice
<1>6. ASSUME NEW o \in Orders, FailCreation(o) \/ SendLink(o) PROVE Settling'
  BY <1>2, <1>6 DEF FailCreation, MarkCreationFailed, SendLink, storeVars, PaidStays
<1>7. CASE NewOrder BY <1>2, <1>7 DEF NewOrder, PlaceOrder, InsertOrder, PaidStays
<1>8. ASSUME NEW i \in Invoices, CustomerPays(i) \/ InvoiceExpires(i) PROVE Settling'
  BY <1>3, <1>8 DEF CustomerPays, InvoiceExpires, storeVars
<1>9. ASSUME NEW i \in Invoices, Notify(i) PROVE Settling'
  <2>1. UNCHANGED <<recorded, payments, gateway, requests>> BY <1>9 DEF Notify, storeVars
  <2>2. \A d \in Deliveries : notices[d].state # "unused" => notices'[d] = notices[d]
    BY <1>0, <1>9 DEF Notify
  <2>. QED BY <1>1, <2>1, <2>2 DEF PaidStays, GatewayKeeps
<1>10. ASSUME NEW d \in Deliveries, Deliver(d) PROVE Settling'
  <2>1. UNCHANGED <<recorded, payments, gateway, notices>> BY <1>10 DEF Deliver, storeVars
  <2>2. \A q \in Requests : requests'[q] = requests[q] \/ requests[q].pc = "idle"
    BY <1>0, <1>10 DEF Deliver
  <2>. QED BY <1>1, <2>1, <2>2 DEF PaidStays, GatewayKeeps
<1>11. ASSUME NEW r \in Requests, RequestStep(r) PROVE Settling'
  BY <1>0, <1>11, RecordHands, VerifyHands, SettleHands DEF RequestStep
<1>. QED BY <1>4, <1>5, <1>6, <1>7, <1>8, <1>9, <1>10, <1>11 DEF PayStep, CreatorStep, OutsideStep
-----------------------------------------------------------------------------
(* Both sides and the crash.                                               *)
LEMMA WorkHands ==
  ASSUME PromiseInv, PromiseInv', Hands,
         WorkStep \/ \E w \in Workers : WorkerCrash(w), UNCHANGED payOwnVars
  PROVE  Hands'
<1>0. WellFormed /\ StoreTypeOK /\ Queue /\ Goods /\ OrderFollowsJob /\ OrderFollowsJob'
  BY DEF PromiseInv, MoneyInv, QueueInv, Queue, WellFormed
<1>1. WorkKeeps BY <1>0, WorkStepView
<1>2. /\ \A o \in Orders : orders'[o].status = "payment_creating" => orders[o].status = "payment_creating"
      /\ PricesKeep
  BY <1>0, <1>1 DEF WorkKeeps, OrderFollowsJob, JobWithOrder, PricesKeep
<1>3. UNCHANGED <<gateway, creator, requests, notices, payments>> BY <1>1 DEF WorkKeeps, payOwnVars
<1>4. UNCHANGED recorded
  BY DEF WorkStep, WorkerStep, WorkerCrash, Claim, ClaimJob, TakeJob, FulfillManually, Post, ReadAnswer,
         LoseAnswer, Finish, FinishJob, FileJob, Serve, Hang, TimePasses, BackoffElapses, LeaseAges,
         storeVars
<1>5. Prices' BY <1>2, <1>3, PricesKept DEF Hands
<1>6. Notices'
  BY <1>3, <1>4 DEF Hands, Notices, NoticeTrue, ActsOnPayment, IsPaid
<1>7. CreationUndisturbed => CreationInHand' BY <1>2, <1>3 DEF Hands, CreationInHand
<1>8. SettlingUndisturbed => Settling'
  BY <1>3, <1>4 DEF Hands, Settling, RecordedInHand, VerifiedInHand, Handled
<1>9. WorkUndisturbed => JobInHand' BY <1>0, WorkJobs DEF Hands
<1>. QED BY <1>5, <1>6, <1>7, <1>8, <1>9 DEF Hands, CreationUndisturbed, SettlingUndisturbed,
                                             WorkUndisturbed, CommitUnknown

LEMMA PayHands ==
  ASSUME PromiseInv, Hands, NewOrder \/ PayStep, UNCHANGED workOwnVars
  PROVE  Hands'
<1>0. WellFormed /\ StoreTypeOK /\ OrderFollowsJob /\ HandlersKnow /\ Accounts
  BY DEF PromiseInv, MoneyInv, QueueInv, Queue, WellFormed
<1>1. PricesKeep /\ MoneyStays BY <1>0, PayStepView, PayKeeps
<1>2. Prices' BY <1>0, <1>1, PayPrices DEF Hands
<1>3. Notices' BY <1>0, <1>1, PayNotices DEF Hands
<1>4. CreationUndisturbed => CreationInHand' BY <1>0, PayCreation DEF Hands
<1>5. SettlingUndisturbed => Settling' BY PaySettling DEF Hands
<1>6. WorkUndisturbed => JobInHand'
  <2>1. \A o \in Orders : jobs'[o].status \in {jobs[o].status, "queued"}
    BY <1>0, PayStepMoves DEF PayMoves
  <2>. QED BY <2>1 DEF Hands, JobInHand, workOwnVars
<1>. QED BY <1>2, <1>3, <1>4, <1>5, <1>6 DEF Hands, CreationUndisturbed, SettlingUndisturbed,
                                             WorkUndisturbed, CommitUnknown

(* After a crash nobody has anything in hand.                              *)
LEMMA CrashHands ==
  ASSUME Hands, Crash \/ UNCHANGED vars
  PROVE  Hands'
<1>1. CASE UNCHANGED vars
  BY <1>1 DEF vars, storeVars, payOwnVars, workOwnVars, Hands, Prices, Priced, Notices, NoticeTrue,
              ActsOnPayment, IsPaid, CreationUndisturbed, CreationInHand, SettlingUndisturbed, Settling,
              RecordedInHand, VerifiedInHand, Handled, WorkUndisturbed, JobInHand, CommitUnknown
<1>2. CASE Crash
  <2>1. UNCHANGED <<orders, gateway, notices, recorded>>
    BY <1>2 DEF Crash, LoseHandlers, storeVars
  <2>2. Prices' BY <2>1 DEF Hands, Prices, Priced
  <2>3. \A r \in Requests : requests'[r].pc = "idle" BY <1>2 DEF Crash, LoseHandlers, NoRequest
  <2>4. Notices' BY <2>1, <2>3 DEF Hands, Notices, NoticeTrue, ActsOnPayment, IsPaid
  <2>. QED BY <1>2, <2>2, <2>4 DEF Crash, Hands, CreationUndisturbed, SettlingUndisturbed, WorkUndisturbed
<1>. QED BY <1>1, <1>2

(* The invariant of who has what in hand holds of the handlers and         *)
(* workers, whatever faults occur: what each of them drops is named in     *)
(* Hands.                                                                  *)
THEOREM HandInvariant == Spec => []HandInv
<1>1. Init => HandInv
  <2>. SUFFICES ASSUME Init PROVE Hands BY InitPromise DEF HandInv
  <2>. QED BY DEF Init, StoreInit, PayOwnInit, WorkOwnInit, NoOrder, NoPayment, NoJob, NoInvoice, NoNotice,
                  NoRequest, Hands, Prices, Priced, Notices, NoticeTrue, ActsOnPayment, CreationInHand,
                  Settling, RecordedInHand, VerifiedInHand, JobInHand
<1>2. HandInv /\ [Next]_vars => HandInv'
  <2>. SUFFICES ASSUME PromiseInv, Hands, [Next]_vars PROVE Hands'
    BY NextPromise DEF HandInv
  <2>1. PromiseInv' BY NextPromise
  <2>. QED BY <2>1, WorkHands, PayHands, CrashHands DEF Next
<1>. QED BY <1>1, <1>2, PTL DEF Spec

(* README.md:9-10: an order in payment_creating, a payment that was        *)
(* recorded and a job in processing are always in the hands of a handler   *)
(* or a worker who goes on with them, unless one of the named faults made  *)
(* it drop them; and the gateway is told 200 only of what was recorded.    *)
THEOREM NothingIsForgotten == Spec => []NothingForgotten
<1>1. HandInv => NothingForgotten
  <2>. SUFFICES ASSUME PromiseInv, Hands PROVE NothingForgotten BY DEF HandInv
  <2>1. \A d \in Deliveries : notices[d].state = "acked" => d \in recorded
    BY DEF Hands, Notices, NoticeTrue
  <2>2. SettlingUndisturbed => PaymentInHand
    <3>. SUFFICES ASSUME Settling, NEW d \in recorded, notices[d].event = "invoice.paid",
                         payments[notices[d].invoice].status # "paid"
                  PROVE  Handled(notices[d].invoice, {"verifying", "settling"})
      BY DEF Hands, PaymentInHand
    <3>1. d \in Deliveries /\ notices[d].invoice \in Invoices
      BY DEF Hands, Notices, NoticeTrue, PromiseInv, MoneyInv, QueueInv, WellFormed, StoreTypeOK,
             PayWellFormed, PayHandles, NoticeHolds
    <3>. QED BY <3>1 DEF Settling, RecordedInHand, VerifiedInHand, Handled
  <2>. QED BY <2>1, <2>2 DEF Hands, NothingForgotten
<1>. QED BY HandInvariant, <1>1, PTL

-----------------------------------------------------------------------------
(* What a fault made a hand drop, nobody picks up.                         *)
OrderDropped(o) == orders[o].status = "payment_creating" /\ creator[o].pc = "idle"

DeliveryDropped(d) ==
    /\ d \in recorded
    /\ \A r \in Requests : requests[r].pc \in {"verifying", "settling"} => requests[r].delivery # d

JobDropped(o) ==
    /\ jobs[o].status = "processing"
    /\ \A w \in Workers : worker[w].pc # "idle" => worker[w].job # o

(* Only its own handler moves an order on from payment_creating, and only  *)
(* placing it starts that handler.                                         *)
LEMMA OrderStaysDropped ==
  ASSUME QueueInv, [Next]_vars, NEW o \in Orders, OrderDropped(o)
  PROVE  OrderDropped(o)'
<1>0. orders \in [Orders -> OrderRow] /\ payments \in [Invoices -> PaymentRow]
      /\ creator \in [Orders -> CreatorState]
  BY DEF QueueInv, WellFormed, StoreTypeOK, PayWellFormed, PayOwnTypeOK
<1>1. ASSUME NEW p \in Orders \ {o}, NEW s, SetStatus(p, s) PROVE orders'[o] = orders[o]
  BY <1>0, <1>1 DEF SetStatus
<1>2. ASSUME orders'[o] = orders[o], UNCHANGED creator PROVE OrderDropped(o)'
  BY <1>2 DEF OrderDropped
<1>3. ASSUME NEW p \in Orders, NEW a \in Amounts, PlaceOrder(p, a) PROVE OrderDropped(o)'
  <2>1. p # o BY <1>3 DEF PlaceOrder, InsertOrder, OrderDropped
  <2>. QED BY <1>0, <1>3, <2>1 DEF PlaceOrder, InsertOrder, CreatorGoes, OrderDropped
<1>4. ASSUME NEW p \in Orders, CreatorStep(p) PROVE OrderDropped(o)'
  <2>1. p # o
    BY <1>4 DEF CreatorStep, CreateInvoice, RegisterCreatedInvoice, FailCreation, SendLink, OrderDropped
  <2>2. creator'[o] = creator[o]
    BY <1>0, <1>4, <2>1 DEF CreatorStep, CreateInvoice, RegisterCreatedInvoice, FailCreation, SendLink,
                            CreatorGoes, CreatorEnds
  <2>3. orders'[o] = orders[o]
    BY <1>1, <1>4, <2>1 DEF CreatorStep, CreateInvoice, RegisterCreatedInvoice, FailCreation, SendLink,
                            RegisterInvoice, MarkCreationFailed, storeVars
  <2>. QED BY <2>2, <2>3 DEF OrderDropped
<1>5. ASSUME NEW r \in Requests, RequestStep(r) PROVE OrderDropped(o)'
  <2>1. UNCHANGED creator BY <1>5 DEF RequestStep, Record, Verify, Settle
  <2>2. CASE Record(r) \/ Verify(r)
    <3>1. UNCHANGED orders BY <2>2 DEF Record, Verify, RecordDelivery, storeVars
    <3>. QED BY <1>2, <2>1, <3>1
  <2>3. CASE Settle(r)
    <3>. DEFINE i == notices[requests[r].delivery].invoice
    <3>1. i \in Invoices
      BY <2>3 DEF Settle, QueueInv, WellFormed, PayWellFormed, PayHandles, NoticeHolds, RequestHolds
    <3>2. CASE UNCHANGED storeVars BY <1>2, <2>1, <3>2 DEF storeVars
    <3>3. CASE /\ payments[i].status # "absent" /\ Settleable(payments[i].order) /\ SettlePayment(i)
      <4>1. payments[i].order \in Orders \ {o}
        BY <1>0, <3>1, <3>3 DEF Settleable, OrderDropped, PaymentRow
      <4>. QED BY <1>1, <1>2, <2>1, <3>3, <4>1 DEF SettlePayment
    <3>. QED BY <2>3, <3>2, <3>3 DEF Settle, VerificationAccepted
  <2>. QED BY <1>5, <2>2, <2>3 DEF RequestStep
<1>6. ASSUME WorkStep \/ \E w \in Workers : WorkerCrash(w), UNCHANGED payOwnVars PROVE OrderDropped(o)'
  <2>0. UNCHANGED creator BY <1>6 DEF payOwnVars
  <2>1. ASSUME NEW w \in Workers, Claim(w) PROVE OrderDropped(o)'
    <3>1. PICK p \in Orders : ClaimJob(p, w) BY <2>1 DEF Claim
    <3>2. CASE p = o BY <1>2, <2>0, <3>1, <3>2 DEF ClaimJob, TakeJob, OrderDropped
    <3>3. CASE p # o BY <1>1, <1>2, <2>0, <3>1, <3>3 DEF ClaimJob, TakeJob
    <3>. QED BY <3>2, <3>3
  <2>2. ASSUME NEW w \in Workers, Finish(w) PROVE OrderDropped(o)'
    <3>1. worker[w].job \in Orders \ {o}
      BY <2>2 DEF Finish, QueueInv, Queue, ClaimExclusive, HoldsClaim, OrderFollowsJob, JobWithOrder,
                  OrderDropped, WellFormed, WorkWellFormed, WorkHandles, WorkerHolds
    <3>. QED BY <1>1, <1>2, <2>0, <2>2, <3>1 DEF Finish, FinishJob, FileJob, storeVars
  <2>3. ASSUME UNCHANGED orders PROVE OrderDropped(o)' BY <1>2, <2>0, <2>3
  <2>. QED BY <1>6, <2>1, <2>2, <2>3
           DEF WorkStep, WorkerStep, WorkerCrash, FulfillManually, Post, ReadAnswer, LoseAnswer, Serve, Hang,
               TimePasses, BackoffElapses, LeaseAges, storeVars
<1>7. CASE Crash BY <1>7 DEF Crash, LoseHandlers, NoCreator, storeVars, OrderDropped
<1>8. CASE UNCHANGED vars BY <1>2, <1>8 DEF vars, storeVars, payOwnVars
<1>9. CASE OutsideStep
  <2>1. UNCHANGED <<orders, creator>>
    BY <1>9 DEF OutsideStep, CustomerPays, InvoiceExpires, Notify, Deliver, storeVars
  <2>. QED BY <1>2, <2>1
<1>. QED BY <1>3, <1>4, <1>5, <1>6, <1>7, <1>8, <1>9 DEF Next, NewOrder, PayStep

(* A request acts on a delivery that it recorded itself, as a new one      *)
(* (web/mod.rs:157-159).                                                   *)
LEMMA DeliveryStaysDropped ==
  ASSUME QueueInv, [Next]_vars, NEW d \in Deliveries, DeliveryDropped(d)
  PROVE  DeliveryDropped(d)'
<1>0. requests \in [Requests -> RequestState]
  BY DEF QueueInv, WellFormed, PayWellFormed, PayOwnTypeOK
<1>1. ASSUME recorded \subseteq recorded', UNCHANGED requests PROVE DeliveryDropped(d)'
  BY <1>1 DEF DeliveryDropped
<1>2. ASSUME NEW r \in Requests, RequestStep(r) PROVE DeliveryDropped(d)'
  <2>1. recorded \subseteq recorded'
    <3>1. CASE Record(r) BY <3>1 DEF Record, RecordDelivery, storeVars
    <3>2. CASE Verify(r) BY <3>2 DEF Verify, storeVars
    <3>3. CASE Settle(r) BY <3>3 DEF Settle, SettlePayment, storeVars
    <3>. QED BY <1>2, <3>1, <3>2, <3>3 DEF RequestStep
  <2>a. ASSUME NEW status, Respond(r, status)
        PROVE  \E q : /\ requests' = [requests EXCEPT ![r] = q]
                      /\ q = NoRequest \/ q.delivery = requests[r].delivery
    BY <2>a DEF Respond
  <2>b. ASSUME NEW pc, NEW verified, NEW amount, RequestGoes(r, pc, verified, amount)
        PROVE  \E q : /\ requests' = [requests EXCEPT ![r] = q]
                      /\ q = NoRequest \/ q.delivery = requests[r].delivery
    <3>1. PICK q : q = [pc |-> pc, delivery |-> requests[r].delivery, verified |-> verified,
                        amount |-> amount]
      OBVIOUS
    <3>2. requests' = [requests EXCEPT ![r] = q] BY <1>0, <2>b, <3>1 DEF RequestGoes
    <3>3. q.delivery = requests[r].delivery BY <3>1
    <3>. QED BY <3>2, <3>3
  <2>c. PICK q : /\ requests' = [requests EXCEPT ![r] = q]
                 /\ q = NoRequest \/ q.delivery = requests[r].delivery
    <3>1. CASE Record(r) BY <2>a, <2>b, <3>1 DEF Record
    <3>2. CASE Verify(r) BY <2>a, <2>b, <3>2 DEF Verify
    <3>3. CASE Settle(r) BY <2>a, <2>b, <3>3 DEF Settle
    <3>. QED BY <1>2, <3>1, <3>2, <3>3 DEF RequestStep
  <2>2. requests'[r] = q /\ \A p \in Requests \ {r} : requests'[p] = requests[p]
    BY <1>0, <2>c
  <2>3. requests'[r].pc \in {"verifying", "settling"} => requests'[r].delivery # d
    <3>1. requests'[r] = NoRequest \/ requests'[r].delivery = requests[r].delivery
      BY <2>2, <2>c
    <3>2. CASE Record(r)
      <4>1. IsNewDelivery(requests[r].delivery) \/ requests'[r] = NoRequest
        BY <1>0, <3>2 DEF Record, Respond
      <4>. QED BY <3>1, <4>1 DEF IsNewDelivery, DeliveryDropped, NoRequest
    <3>3. CASE Verify(r) \/ Settle(r)
      <4>1. requests[r].delivery # d BY <3>3 DEF Verify, Settle, DeliveryDropped
      <4>. QED BY <3>1, <4>1 DEF NoRequest
    <3>. QED BY <1>2, <3>2, <3>3 DEF RequestStep
  <2>. QED BY <2>1, <2>2, <2>3 DEF DeliveryDropped
<1>3. ASSUME NEW e \in Deliveries, Deliver(e) PROVE DeliveryDropped(d)'
  BY <1>0, <1>3 DEF Deliver, DeliveryDropped, storeVars
<1>4. CASE Crash BY <1>4 DEF Crash, LoseHandlers, NoRequest, DeliveryDropped, storeVars
<1>5. CASE UNCHANGED vars BY <1>1, <1>5 DEF vars, storeVars, payOwnVars
<1>6. CASE (WorkStep \/ \E w \in Workers : WorkerCrash(w)) /\ UNCHANGED payOwnVars
  <2>1. UNCHANGED recorded
    BY <1>6 DEF WorkStep, WorkerStep, WorkerCrash, Claim, ClaimJob, TakeJob, FulfillManually, Post,
           ReadAnswer, LoseAnswer, Finish, FinishJob, FileJob, Serve, Hang, TimePasses, BackoffElapses,
           LeaseAges, storeVars
  <2>. QED BY <1>1, <1>6, <2>1 DEF payOwnVars
<1>7. ASSUME NewOrder \/ (\E o \in Orders : CreatorStep(o))
             \/ \E i \in Invoices : CustomerPays(i) \/ InvoiceExpires(i) \/ Notify(i)
      PROVE  DeliveryDropped(d)'
  <2>1. UNCHANGED <<recorded, requests>>
    BY <1>7 DEF NewOrder, PlaceOrder, InsertOrder, CreatorStep, CreateInvoice, RegisterCreatedInvoice,
           RegisterInvoice, FailCreation, MarkCreationFailed, SendLink, CustomerPays, InvoiceExpires,
           Notify, storeVars
  <2>. QED BY <1>1, <2>1
<1>. QED BY <1>2, <1>3, <1>4, <1>5, <1>6, <1>7 DEF Next, PayStep, OutsideStep

(* A claim passes over jobs in processing, and a finish is about the job   *)
(* of a worker who holds it.                                               *)
LEMMA JobStaysDropped ==
  ASSUME QueueInv, [Next]_vars, NEW o \in Orders, JobDropped(o)
  PROVE  JobDropped(o)'
<1>0. /\ jobs \in [Orders -> JobRow] /\ payments \in [Invoices -> PaymentRow]
      /\ worker \in [Workers -> WorkerState]
  BY DEF QueueInv, WellFormed, StoreTypeOK, WorkWellFormed, WorkOwnTypeOK
<1>1. ASSUME jobs'[o].status = jobs[o].status, NEW w \in Workers,
             \A v \in Workers \ {w} : worker'[v] = worker[v],
             worker'[w].pc # "idle" => worker'[w].job # o
      PROVE  JobDropped(o)'
  BY <1>1 DEF JobDropped
<1>2. ASSUME jobs'[o].status = jobs[o].status, UNCHANGED worker PROVE JobDropped(o)'
  BY <1>2 DEF JobDropped
<1>3. CASE (NewOrder \/ PayStep) /\ UNCHANGED workOwnVars
  <2>1. ASSUME NEW i, SettlePayment(i) PROVE jobs'[o].status = jobs[o].status
    BY <1>0, <2>1 DEF SettlePayment, JobDropped
  <2>2. ASSUME NEW r \in Requests, RequestStep(r) PROVE jobs'[o].status = jobs[o].status
    <3>1. CASE Record(r) BY <3>1 DEF Record, RecordDelivery, storeVars
    <3>2. CASE Verify(r) BY <3>2 DEF Verify, storeVars
    <3>3. CASE Settle(r) BY <2>1, <3>3 DEF Settle, storeVars
    <3>. QED BY <2>2, <3>1, <3>2, <3>3 DEF RequestStep
  <2>3. ASSUME NewOrder \/ OutsideStep \/ \E p \in Orders : CreatorStep(p)
        PROVE  jobs'[o].status = jobs[o].status
    BY <2>3 DEF NewOrder, PlaceOrder, InsertOrder, CreatorStep, CreateInvoice, RegisterCreatedInvoice,
           RegisterInvoice, FailCreation, MarkCreationFailed, SendLink, OutsideStep, CustomerPays,
           InvoiceExpires, Notify, Deliver, storeVars
  <2>. QED BY <1>2, <1>3, <2>2, <2>3 DEF PayStep, workOwnVars
<1>4. ASSUME NEW w \in Workers, WorkerStep(w) PROVE JobDropped(o)'
  <2>0. worker[w].pc # "idle" => worker[w].job \in Orders \ {o}
    BY DEF JobDropped, QueueInv, WellFormed, WorkWellFormed, WorkHandles, WorkerHolds
  <2>1. CASE Claim(w)
    <3>1. PICK p \in Orders : ClaimJob(p, w) /\ (WorkerGoes(w, "claimed", p, "none") \/ UNCHANGED worker)
      BY <2>1 DEF Claim
    <3>2. p # o BY <3>1 DEF ClaimJob, Claimable, JobDropped
    <3>3. jobs'[o].status = jobs[o].status BY <1>0, <3>1, <3>2 DEF ClaimJob, TakeJob
    <3>4. CASE WorkerGoes(w, "claimed", p, "none")
      <4>1. worker'[w].job = p /\ \A v \in Workers \ {w} : worker'[v] = worker[v]
        BY <1>0, <3>4 DEF WorkerGoes
      <4>. QED BY <1>1, <3>2, <3>3, <4>1
    <3>. QED BY <1>2, <3>1, <3>3, <3>4
  <2>2. CASE Finish(w)
    <3>1. worker[w].job \in Orders \ {o} BY <2>0, <2>2 DEF Finish
    <3>2. jobs'[o] = jobs[o] BY <1>0, <2>2, <3>1 DEF Finish, FinishJob, FileJob, storeVars
    <3>3. worker'[w] = IdleWorker /\ \A v \in Workers \ {w} : worker'[v] = worker[v]
      BY <1>0, <2>2 DEF Finish, WorkerIdles
    <3>. QED BY <1>1, <3>2, <3>3 DEF IdleWorker
  <2>3. CASE FulfillManually(w) \/ Post(w) \/ ReadAnswer(w) \/ LoseAnswer(w)
    <3>1. UNCHANGED jobs
      BY <2>3 DEF FulfillManually, Post, ReadAnswer, LoseAnswer, storeVars
    <3>2. worker'[w].job = worker[w].job /\ \A v \in Workers \ {w} : worker'[v] = worker[v]
      BY <1>0, <2>3 DEF FulfillManually, Post, ReadAnswer, LoseAnswer, WorkerGoes
    <3>3. worker[w].job # o BY <2>0, <2>3 DEF FulfillManually, Post, ReadAnswer, LoseAnswer
    <3>. QED BY <1>1, <3>1, <3>2, <3>3
  <2>. QED BY <1>4, <2>1, <2>2, <2>3 DEF WorkerStep
<1>5. ASSUME NEW p \in Orders, Serve(p) \/ Hang(p) PROVE JobDropped(o)'
  BY <1>2, <1>5 DEF Serve, Hang, storeVars
<1>6. ASSUME NEW p \in Orders, TimePasses(p) PROVE JobDropped(o)'
  <2>1. CASE p = o
    <3>1. jobs[o] \in JobRow BY <1>0
    <3>2. ~BackoffElapses(o) BY DEF BackoffElapses, JobDropped
    <3>3. jobs'[o].status = jobs[o].status
      BY <1>0, <1>6, <2>1, <3>1, <3>2 DEF TimePasses, LeaseAges, JobRow
    <3>. QED BY <1>2, <1>6, <3>3 DEF TimePasses, workOwnVars
  <2>2. CASE p # o
    <3>1. jobs'[o] = jobs[o] BY <1>0, <1>6, <2>2 DEF TimePasses, BackoffElapses, LeaseAges
    <3>. QED BY <1>2, <1>6, <3>1 DEF TimePasses, workOwnVars
  <2>. QED BY <2>1, <2>2
<1>7. ASSUME NEW w \in Workers, WorkerCrash(w) PROVE JobDropped(o)'
  <2>1. worker'[w] = IdleWorker /\ \A v \in Workers \ {w} : worker'[v] = worker[v]
    BY <1>0, <1>7 DEF WorkerCrash, WorkerIdles
  <2>. QED BY <1>1, <1>7, <2>1 DEF WorkerCrash, storeVars, IdleWorker
<1>8. CASE Crash BY <1>8 DEF Crash, LoseHandlers, IdleWorker, JobDropped, storeVars
<1>9. CASE UNCHANGED vars BY <1>2, <1>9 DEF vars, storeVars, workOwnVars
<1>. QED BY <1>3, <1>4, <1>5, <1>6, <1>7, <1>8, <1>9 DEF Next, WorkStep

(* README.md:9-10: nothing in the program looks for them again.  An order  *)
(* whose handler is gone stays in payment_creating, a recorded delivery    *)
(* that nobody acts on is never acted on again, and a job that no worker   *)
(* holds stays in processing, for ever: whichever fault it was.            *)
THEOREM WhatIsDroppedStaysDropped ==
  ASSUME NEW o \in Orders, NEW d \in Deliveries
  PROVE  Spec => /\ [](OrderDropped(o) => []OrderDropped(o))
                 /\ [](DeliveryDropped(d) => []DeliveryDropped(d))
                 /\ [](JobDropped(o) => []JobDropped(o))
<1>1. QueueInv /\ [Next]_vars => (OrderDropped(o) => OrderDropped(o)') BY OrderStaysDropped
<1>2. QueueInv /\ [Next]_vars => (DeliveryDropped(d) => DeliveryDropped(d)') BY DeliveryStaysDropped
<1>3. QueueInv /\ [Next]_vars => (JobDropped(o) => JobDropped(o)') BY JobStaysDropped
<1>. QED BY <1>1, <1>2, <1>3, QueueInvariant, PTL DEF Spec
-----------------------------------------------------------------------------
(* Invoices at the gateway: an order's handler asks for one while there is *)
(* none for it, and whatever becomes of the answer, does not ask again.    *)
InvoiceMade(i) == gateway[i].order # NULL => orders[gateway[i].order].status # "absent"

AsksOnce(o) == creator[o].pc = "invoicing" => \A i \in Invoices : gateway[i].order # o

OrderInvoicedOnce ==
    \A i, j \in Invoices :
        gateway[i].order = gateway[j].order /\ gateway[i].order # NULL => i = j

Invoicing ==
    /\ \A i \in Invoices : InvoiceMade(i)
    /\ \A o \in Orders : AsksOnce(o)
    /\ OrderInvoicedOnce

LEMMA PayInvoicing ==
  ASSUME WellFormed, HandlersKnow, PricesKeep, Invoicing, NewOrder \/ PayStep
  PROVE  Invoicing'
<1>. USE DEF Invoicing, InvoiceMade, AsksOnce, OrderInvoicedOnce
<1>0. /\ gateway \in [Invoices -> InvoiceState] /\ creator \in [Orders -> CreatorState]
      /\ PayWellFormed /\ StoreTypeOK
  BY DEF WellFormed, PayWellFormed, PayOwnTypeOK
<1>1. ASSUME \A i \in Invoices : gateway'[i].order = gateway[i].order,
             \A o \in Orders : creator'[o].pc = "invoicing" => creator[o].pc = "invoicing"
      PROVE  Invoicing'
  <2>1. \A i \in Invoices : gateway[i].order # NULL => orders'[gateway[i].order].status # "absent"
    BY <1>0 DEF PricesKeep, InvoiceState
  <2>. QED BY <1>1, <2>1
<1>2. ASSUME NEW o \in Orders, NEW a \in Amounts, PlaceOrder(o, a) PROVE Invoicing'
  <2>1. orders[o].status = "absent" /\ UNCHANGED gateway BY <1>2 DEF PlaceOrder, InsertOrder
  <2>2. \A i \in Invoices : gateway[i].order # o BY <2>1, NullAssumption
  <2>3. \A p \in Orders \ {o} : creator'[p] = creator[p]
    BY <1>0, <1>2 DEF PlaceOrder, CreatorGoes
  <2>4. \A i \in Invoices : gateway[i].order # NULL => orders'[gateway[i].order].status # "absent"
    BY <1>0 DEF PricesKeep, InvoiceState
  <2>. QED BY <2>1, <2>2, <2>3, <2>4
<1>3. ASSUME NEW o \in Orders, CreateInvoice(o) PROVE Invoicing'
  <2>1. /\ creator'[o].pc # "invoicing"
        /\ \A p \in Orders \ {o} : creator'[p] = creator[p]
    BY <1>0, <1>3 DEF CreateInvoice, CreatorGoes
  <2>2. CASE UNCHANGED gateway BY <1>1, <2>1, <2>2
  <2>3. ASSUME NEW i \in Invoices, OpenInvoice(o, i) PROVE Invoicing'
    <3>1. gateway'[i].order = o /\ \A j \in Invoices \ {i} : gateway'[j] = gateway[j]
      BY <1>0, <2>3 DEF OpenInvoice
    <3>2. \A j \in Invoices : gateway[j].order # o BY <1>3 DEF CreateInvoice
    <3>3. UNCHANGED orders BY <1>3 DEF CreateInvoice, storeVars
    <3>4. orders[o].status # "absent" BY <1>3 DEF CreateInvoice, HandlersKnow, CreatorKnows
    <3>. QED BY <2>1, <3>1, <3>2, <3>3, <3>4
  <2>. QED BY <1>3, <2>2, <2>3 DEF CreateInvoice
<1>4. ASSUME NEW o \in Orders, RegisterCreatedInvoice(o) \/ FailCreation(o) \/ SendLink(o)
      PROVE  Invoicing'
  <2>1. creator'[o].pc # "invoicing" /\ \A p \in Orders \ {o} : creator'[p] = creator[p]
    BY <1>0, <1>4, OtherCreators
       DEF RegisterCreatedInvoice, FailCreation, SendLink, CreatorGoes, CreatorEnds, NoCreator
  <2>2. UNCHANGED gateway BY <1>4 DEF RegisterCreatedInvoice, FailCreation, SendLink
  <2>. QED BY <1>1, <2>1, <2>2
<1>5. ASSUME NEW r \in Requests, RequestStep(r) PROVE Invoicing'
  <2>1. UNCHANGED creator BY <1>5 DEF RequestStep, Record, Verify, Settle
  <2>2. ASSUME NEW i, UseUp(i), NEW j \in Invoices PROVE gateway'[j].order = gateway[j].order
    <3>1. CASE i = j BY <1>0, <2>2, <3>1 DEF UseUp, InvoiceState
    <3>2. CASE i # j BY <1>0, <2>2, <3>2 DEF UseUp
    <3>. QED BY <3>1, <3>2
  <2>3. (\E i : UseUp(i)) \/ UNCHANGED gateway BY <1>5 DEF RequestStep, Record, Verify, Settle
  <2>. QED BY <1>1, <2>1, <2>2, <2>3
<1>6. CASE OutsideStep
  <2>1. UNCHANGED creator BY <1>6 DEF OutsideStep, CustomerPays, InvoiceExpires, Notify, Deliver
  <2>2. ASSUME NEW i \in Invoices, CustomerPays(i) \/ InvoiceExpires(i), NEW j \in Invoices
        PROVE  gateway'[j].order = gateway[j].order
    <3>1. CASE i = j BY <1>0, <2>2, <3>1 DEF CustomerPays, InvoiceExpires, InvoiceState
    <3>2. CASE i # j BY <1>0, <2>2, <3>2 DEF CustomerPays, InvoiceExpires
    <3>. QED BY <3>1, <3>2
  <2>3. \/ \E i \in Invoices : CustomerPays(i) \/ InvoiceExpires(i)
        \/ UNCHANGED gateway
    BY <1>6 DEF OutsideStep, Notify, Deliver
  <2>. QED BY <1>1, <2>1, <2>2, <2>3
<1>. QED BY <1>2, <1>3, <1>4, <1>5, <1>6 DEF NewOrder, PayStep, CreatorStep

LEMMA NextInvoicing ==
  ASSUME PromiseInv, PromiseInv', Invoicing, [Next]_vars
  PROVE  Invoicing'
<1>0. /\ WellFormed /\ StoreTypeOK /\ Queue /\ Goods /\ HandlersKnow
      /\ OrderFollowsJob /\ OrderFollowsJob'
      /\ gateway \in [Invoices -> InvoiceState]
  BY DEF PromiseInv, MoneyInv, QueueInv, Queue, WellFormed, PayWellFormed, PayOwnTypeOK
<1>1. CASE NewOrder \/ PayStep
  <2>1. PricesKeep BY <1>0, <1>1, PayStepView, PayKeeps
  <2>. QED BY <1>0, <1>1, <2>1, PayInvoicing
<1>2. CASE (WorkStep \/ \E w \in Workers : WorkerCrash(w)) /\ UNCHANGED payOwnVars
  <2>1. WorkKeeps BY <1>0, <1>2, WorkStepView
  <2>2. PricesKeep BY <1>0, <2>1 DEF WorkKeeps, OrderFollowsJob, JobWithOrder, PricesKeep
  <2>. QED BY <1>0, <1>2, <2>2 DEF payOwnVars, PricesKeep, Invoicing, InvoiceMade, AsksOnce,
                                   OrderInvoicedOnce, InvoiceState
<1>3. CASE Crash
  BY <1>3 DEF Crash, LoseHandlers, NoCreator, storeVars, Invoicing, InvoiceMade, AsksOnce,
              OrderInvoicedOnce
<1>4. CASE UNCHANGED vars
  BY <1>4 DEF vars, storeVars, payOwnVars, Invoicing, InvoiceMade, AsksOnce, OrderInvoicedOnce
<1>. QED BY <1>1, <1>2, <1>3, <1>4 DEF Next

(* Whatever becomes of its first invoice, no order gets a second one.      *)
THEOREM OrdersAreInvoicedOnce == Spec => []OrderInvoicedOnce
<1>1. Init => Invoicing
  BY DEF Init, PayOwnInit, NoInvoice, NoCreator, Invoicing, InvoiceMade, AsksOnce, OrderInvoicedOnce
<1>2. PromiseInv /\ PromiseInv' /\ Invoicing /\ [Next]_vars => Invoicing' BY NextInvoicing
<1>3. Invoicing => OrderInvoicedOnce BY DEF Invoicing
<1>. QED BY <1>1, <1>2, <1>3, PromiseInvariant, PTL DEF Spec
=============================================================================
