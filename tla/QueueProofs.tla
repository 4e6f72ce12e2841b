----------------------------- MODULE QueueProofs -----------------------------
(***************************************************************************)
(* Types, and the fulfillment queue, for any number of orders, requests    *)
(* and workers, whatever goes wrong: everything has its type, claims are   *)
(* exclusive, attempts are bounded, and the two tables agree.              *)
(***************************************************************************)
EXTENDS StorefrontInvariant, StoreProofs

-----------------------------------------------------------------------------
(* The payment handlers, the gateway and the customer.                     *)

USE DEF PayWellFormed, PayHandles, CreatorHolds, NoticeHolds, RequestHolds

(* A new order's handler has nothing to hold on to yet.                    *)
LEMMA PlaceOrderWF ==
  ASSUME StoreTypeOK, PayWellFormed, NEW o \in Orders, NEW a \in Amounts, PlaceOrder(o, a)
  PROVE  StoreTypeOK' /\ PayWellFormed'
<1>1. StoreTypeOK' BY InsertOrderType DEF PlaceOrder
<1>2. PayWellFormed'
  BY DEF PlaceOrder, PayOwnTypeOK, CreatorGoes, CreatorState
<1>. QED BY <1>1, <1>2

(* What create_invoice returns is an invoice of the gateway.               *)
LEMMA CreateInvoiceWF ==
  ASSUME StoreTypeOK, PayWellFormed, NEW o \in Orders, CreateInvoice(o)
  PROVE  StoreTypeOK' /\ PayWellFormed'
<1>1. StoreTypeOK' BY DEF CreateInvoice, storeVars, StoreTypeOK
<1>2. gateway' \in [Invoices -> InvoiceState]
  <2>1. ASSUME NEW i \in Invoices, OpenInvoice(o, i) PROVE gateway' \in [Invoices -> InvoiceState]
    <3>1. QuotedAmounts(o) \subseteq Amounts \cup {NULL}
      BY DEF QuotedAmounts, StoreTypeOK, OrderRow
    <3>. QED BY <2>1, <3>1 DEF OpenInvoice, PayOwnTypeOK, InvoiceState
  <2>2. CASE UNCHANGED gateway BY <2>2 DEF PayOwnTypeOK
  <2>. QED BY <2>1, <2>2 DEF CreateInvoice
<1>3. creator' \in [Orders -> CreatorState] /\ \A p \in Orders : CreatorHolds(p)'
  BY DEF CreateInvoice, PayOwnTypeOK, CreatorGoes, CreatorState
<1>. QED BY <1>1, <1>2, <1>3 DEF CreateInvoice, PayOwnTypeOK

(* The handler registers the invoice it holds and takes it on to the       *)
(* message.                                                                *)
LEMMA RegisterCreatedInvoiceWF ==
  ASSUME StoreTypeOK, PayWellFormed, NEW o \in Orders, RegisterCreatedInvoice(o)
  PROVE  StoreTypeOK' /\ PayWellFormed'
<1>. DEFINE i == creator[o].invoice
<1>0. i \in Invoices BY DEF RegisterCreatedInvoice
<1>1. StoreTypeOK'
  <2>1. CASE RegisterInvoice(o, i) BY <1>0, <2>1, RegisterInvoiceType
  <2>2. CASE UNCHANGED storeVars BY <2>2 DEF storeVars, StoreTypeOK
  <2>. QED BY <2>1, <2>2 DEF RegisterCreatedInvoice
<1>2. creator' \in [Orders -> CreatorState] /\ \A p \in Orders : CreatorHolds(p)'
  BY <1>0 DEF RegisterCreatedInvoice, PayOwnTypeOK, CreatorGoes, CreatorEnds, NoCreator, CreatorState
<1>. QED BY <1>1, <1>2 DEF RegisterCreatedInvoice, PayOwnTypeOK

(* Marking the failure ends the handler.                                   *)
LEMMA FailCreationWF ==
  ASSUME StoreTypeOK, PayWellFormed, NEW o \in Orders, FailCreation(o)
  PROVE  StoreTypeOK' /\ PayWellFormed'
<1>1. StoreTypeOK'
  <2>1. CASE MarkCreationFailed(o) BY <2>1, MarkCreationFailedType
  <2>2. CASE UNCHANGED storeVars BY <2>2 DEF storeVars, StoreTypeOK
  <2>. QED BY <2>1, <2>2 DEF FailCreation
<1>2. PayWellFormed'
  BY DEF FailCreation, PayOwnTypeOK, CreatorEnds, NoCreator, CreatorState
<1>. QED BY <1>1, <1>2

(* Only an invoice the handler holds becomes a link.                       *)
LEMMA SendLinkWF ==
  ASSUME StoreTypeOK, PayWellFormed, NEW o \in Orders, SendLink(o)
  PROVE  StoreTypeOK' /\ PayWellFormed'
<1>1. StoreTypeOK' BY DEF SendLink, storeVars, StoreTypeOK
<1>2. PayWellFormed'
  BY DEF SendLink, PayOwnTypeOK, CreatorEnds, NoCreator, CreatorState
<1>. QED BY <1>1, <1>2

(* A customer's payment, an expiry and a notice all concern an existing    *)
(* invoice.                                                                *)
LEMMA InvoiceWF ==
  ASSUME StoreTypeOK, PayWellFormed, NEW i \in Invoices,
         CustomerPays(i) \/ InvoiceExpires(i) \/ Notify(i)
  PROVE  StoreTypeOK' /\ PayWellFormed'
<1>1. StoreTypeOK' BY DEF CustomerPays, InvoiceExpires, Notify, storeVars, StoreTypeOK
<1>2. CASE CustomerPays(i) \/ InvoiceExpires(i)
  BY <1>1, <1>2 DEF CustomerPays, InvoiceExpires, PayOwnTypeOK, InvoiceState
<1>3. CASE Notify(i)
  <2>1. PICK d \in Deliveries, e \in EventsOf(i) :
          /\ notices[d].state = "unused"
          /\ notices' = [notices EXCEPT ![d] = [state |-> "pending", invoice |-> i, event |-> e]]
    BY <1>3 DEF Notify
  <2>2. e \in {"none", "invoice.paid", "invoice.expired"} BY DEF EventsOf
  <2>3. notices' \in [Deliveries -> NoticeState] BY <2>1, <2>2 DEF PayOwnTypeOK, NoticeState
  <2>4. \A c \in Deliveries : NoticeHolds(c)' BY <2>1 DEF PayOwnTypeOK, NoticeState
  <2>5. \A r \in Requests : RequestHolds(r)' BY <1>3, <2>1 DEF Notify, PayOwnTypeOK, NoticeState
  <2>. QED BY <1>1, <1>3, <2>3, <2>4, <2>5 DEF Notify, PayOwnTypeOK
<1>. QED BY <1>2, <1>3

(* An answer to the gateway frees the handler; the delivery stays known.   *)
LEMMA RespondWF ==
  ASSUME PayWellFormed, NEW r \in Requests, requests[r].pc # "idle",
         NEW status, Respond(r, status),
         UNCHANGED <<creator, links>>, gateway' \in [Invoices -> InvoiceState]
  PROVE  PayWellFormed'
<1>1. requests' \in [Requests -> RequestState]
  BY DEF Respond, PayOwnTypeOK, NoRequest, RequestState
<1>2. notices' \in [Deliveries -> NoticeState]
  <2>. DEFINE d == requests[r].delivery
  <2>1. CASE notices' = [notices EXCEPT ![d].state = "acked"]
    <3>1. d \in Deliveries /\ notices \in [Deliveries -> NoticeState] BY DEF PayOwnTypeOK
    <3>2. [notices[d] EXCEPT !.state = "acked"] \in NoticeState BY <3>1 DEF NoticeState
    <3>. QED BY <2>1, <3>1, <3>2
  <2>2. CASE UNCHANGED notices BY <2>2 DEF PayOwnTypeOK
  <2>. QED BY <2>1, <2>2 DEF Respond
<1>3. \A d \in Deliveries : /\ notices'[d].invoice = notices[d].invoice
                            /\ notices'[d].state # "unused" <=> notices[d].state # "unused"
  BY DEF Respond, PayOwnTypeOK, NoticeState
<1>4. \A q \in Requests : requests'[q].pc # "idle" => requests'[q] = requests[q]
  BY DEF Respond, PayOwnTypeOK, NoRequest
<1>. QED BY <1>1, <1>2, <1>3, <1>4 DEF PayOwnTypeOK

(* A request carries a delivery that the gateway has sent.                 *)
LEMMA DeliverWF ==
  ASSUME StoreTypeOK, PayWellFormed, NEW d \in Deliveries, Deliver(d)
  PROVE  StoreTypeOK' /\ PayWellFormed'
<1>1. StoreTypeOK' BY DEF Deliver, storeVars, StoreTypeOK
<1>2. PICK r \in Requests :
        requests' = [requests EXCEPT ![r] = [pc |-> "recording", delivery |-> d,
                                             verified |-> FALSE, amount |-> NULL]]
  BY DEF Deliver
<1>3. PayWellFormed' BY <1>2 DEF Deliver, PayOwnTypeOK, RequestState
<1>. QED BY <1>1, <1>3

(* aban_webhook's first step: the delivery it records is one of the        *)
(* gateway's.                                                              *)
LEMMA RecordWF ==
  ASSUME StoreTypeOK, PayWellFormed, NEW r \in Requests, Record(r)
  PROVE  StoreTypeOK' /\ PayWellFormed'
<1>. DEFINE d == requests[r].delivery
<1>0. d \in Deliveries /\ requests[r].pc # "idle" BY DEF Record
<1>1. StoreTypeOK'
  <2>1. CASE RecordDelivery(d) BY <1>0, <2>1 DEF RecordDelivery, StoreTypeOK
  <2>2. CASE UNCHANGED storeVars BY <2>2 DEF storeVars, StoreTypeOK
  <2>. QED BY <2>1, <2>2 DEF Record
<1>2. PayWellFormed'
  <2>1. ASSUME NEW status, Respond(r, status) PROVE PayWellFormed'
    BY <1>0, <2>1, RespondWF DEF Record, PayOwnTypeOK
  <2>2. CASE RequestGoes(r, "verifying", FALSE, NULL) /\ UNCHANGED notices
    BY <1>0, <2>2 DEF Record, RequestGoes, PayOwnTypeOK, RequestState
  <2>. QED BY <2>1, <2>2 DEF Record
<1>. QED BY <1>1, <1>2

(* aban_webhook's second step: the answer is kept with the request.        *)
LEMMA VerifyWF ==
  ASSUME StoreTypeOK, PayWellFormed, NEW r \in Requests, Verify(r)
  PROVE  StoreTypeOK' /\ PayWellFormed'
<1>. DEFINE i == notices[requests[r].delivery].invoice
<1>0. i \in Invoices /\ requests[r].pc # "idle" BY DEF Verify
<1>1. StoreTypeOK' BY DEF Verify, storeVars, StoreTypeOK
<1>2. gateway' \in [Invoices -> InvoiceState]
  <2>1. gateway[i] \in InvoiceState BY <1>0 DEF PayOwnTypeOK
  <2>2. [gateway[i] EXCEPT !.state = IF @ = "paid" THEN "verified" ELSE @] \in InvoiceState
    BY <2>1 DEF InvoiceState
  <2>3. CASE UseUp(i) BY <1>0, <2>2, <2>3 DEF UseUp, PayOwnTypeOK
  <2>4. CASE UNCHANGED gateway BY <2>4 DEF PayOwnTypeOK
  <2>. QED BY <2>3, <2>4 DEF Verify
<1>3. PayWellFormed'
  <2>1. ASSUME NEW status, Respond(r, status) PROVE PayWellFormed'
    BY <1>0, <1>2, <2>1, RespondWF DEF Verify
  <2>2. ASSUME NEW v \in BOOLEAN, RequestGoes(r, "settling", v, gateway[i].amount),
               UNCHANGED notices
        PROVE  PayWellFormed'
    <3>1. gateway[i].amount \in Amounts \cup {NULL} BY <1>0 DEF PayOwnTypeOK, InvoiceState
    <3>. QED BY <1>0, <1>2, <2>2, <3>1 DEF Verify, RequestGoes, PayOwnTypeOK, RequestState
  <2>. QED BY <2>1, <2>2 DEF Verify
<1>. QED BY <1>1, <1>3

(* aban_webhook's last step: only a registered invoice is settled.         *)
LEMMA SettleWF ==
  ASSUME StoreTypeOK, PayWellFormed, NEW r \in Requests, Settle(r)
  PROVE  StoreTypeOK' /\ PayWellFormed'
<1>. DEFINE i == notices[requests[r].delivery].invoice
<1>0. requests[r].pc # "idle" BY DEF Settle
<1>1. StoreTypeOK'
  <2>1. CASE VerificationAccepted(i, requests[r].verified, requests[r].amount) /\ SettlePayment(i)
    BY <2>1, SettlePaymentType DEF VerificationAccepted
  <2>2. CASE UNCHANGED storeVars BY <2>2 DEF storeVars, StoreTypeOK
  <2>. QED BY <2>1, <2>2 DEF Settle
<1>2. \E status : Respond(r, status) BY DEF Settle
<1>. QED BY <1>0, <1>1, <1>2, RespondWF DEF Settle, PayOwnTypeOK

(* A crash leaves no handler that could hold on to anything.               *)
LEMMA LoseHandlersWF ==
  ASSUME StoreTypeOK, PayWellFormed, LoseHandlers
  PROVE  StoreTypeOK' /\ PayWellFormed'
<1>1. StoreTypeOK' BY DEF LoseHandlers, storeVars, StoreTypeOK
<1>2. PayWellFormed'
  BY DEF LoseHandlers, PayOwnTypeOK, NoCreator, NoRequest, CreatorState, RequestState
<1>. QED BY <1>1, <1>2

(* All of the payment side.                                                *)
LEMMA PayStepWF ==
  ASSUME StoreTypeOK, PayWellFormed, NewOrder \/ PayStep
  PROVE  StoreTypeOK' /\ PayWellFormed'
<1>1. CASE NewOrder BY <1>1, PlaceOrderWF DEF NewOrder
<1>2. ASSUME NEW o \in Orders, CreatorStep(o) PROVE StoreTypeOK' /\ PayWellFormed'
  BY <1>2, CreateInvoiceWF, RegisterCreatedInvoiceWF, FailCreationWF, SendLinkWF DEF CreatorStep
<1>3. ASSUME NEW r \in Requests, RequestStep(r) PROVE StoreTypeOK' /\ PayWellFormed'
  BY <1>3, RecordWF, VerifyWF, SettleWF DEF RequestStep
<1>4. CASE OutsideStep BY <1>4, InvoiceWF, DeliverWF DEF OutsideStep
<1>. QED BY <1>1, <1>2, <1>3, <1>4 DEF PayStep

-----------------------------------------------------------------------------
(* The payment side starts with empty tables and no handlers.              *)
LEMMA PayInitWF == PayInit => StoreTypeOK /\ PayWellFormed
  BY DEF PayInit, StoreInit, PayOwnInit, StoreTypeOK, PayOwnTypeOK, OrderRow, PaymentRow, JobRow,
         NoOrder, NoPayment, NoJob, CreatorState, InvoiceState, NoticeState, RequestState,
         NoCreator, NoInvoice, NoNotice, NoRequest

LEMMA PayNextWF ==
  StoreTypeOK /\ PayWellFormed /\ [PayNext]_payVars => StoreTypeOK' /\ PayWellFormed'
<1>. SUFFICES ASSUME StoreTypeOK, PayWellFormed, [PayNext]_payVars
              PROVE  StoreTypeOK' /\ PayWellFormed'
  OBVIOUS
<1>1. CASE NewOrder \/ PayStep BY <1>1, PayStepWF
<1>2. CASE PayCrash BY <1>2, LoseHandlersWF DEF PayCrash
<1>3. CASE UNCHANGED payVars
  BY <1>3 DEF payVars, payOwnVars, storeVars, StoreTypeOK, PayOwnTypeOK
<1>. QED BY <1>1, <1>2, <1>3 DEF PayNext

(* Whoever places orders: the tables and the payment handlers, which work  *)
(* on them at the same time, keep their types.                             *)
THEOREM PaymentTyped == PaySpec => []PayTypeOK
<1>1. StoreTypeOK /\ PayWellFormed => PayTypeOK BY DEF PayTypeOK
<1>. QED BY PayInitWF, PayNextWF, <1>1, PTL DEF PaySpec

-----------------------------------------------------------------------------
(* The worker and the connector.                                           *)

USE DEF WorkWellFormed, WorkHandles, WorkerHolds

(* A claimed job is the job of an order.                                   *)
LEMMA ClaimWF ==
  ASSUME StoreTypeOK, WorkWellFormed, NEW w \in Workers, Claim(w)
  PROVE  StoreTypeOK' /\ WorkWellFormed'
<1>1. PICK o \in Orders : ClaimJob(o, w) /\ (WorkerGoes(w, "claimed", o, "none") \/ UNCHANGED worker)
  BY DEF Claim
<1>2. StoreTypeOK' BY <1>1, ClaimJobType
<1>3. WorkWellFormed'
  BY <1>1 DEF Claim, connectorVars, WorkerGoes, WorkOwnTypeOK, WorkerState
<1>. QED BY <1>2, <1>3

(* ManualProvider's result is one that can be filed.                       *)
LEMMA FulfillManuallyWF ==
  ASSUME StoreTypeOK, WorkWellFormed, NEW w \in Workers, FulfillManually(w)
  PROVE  StoreTypeOK' /\ WorkWellFormed'
<1>1. StoreTypeOK' BY DEF FulfillManually, storeVars, StoreTypeOK
<1>2. WorkWellFormed'
  BY DEF FulfillManually, connectorVars, WorkerGoes, WorkOwnTypeOK, WorkerState, FulfillmentResult
<1>. QED BY <1>1, <1>2

(* A request to the connector is for the order of the claimed job.         *)
LEMMA PostWF ==
  ASSUME StoreTypeOK, WorkWellFormed, NEW w \in Workers, Post(w)
  PROVE  StoreTypeOK' /\ WorkWellFormed'
<1>. DEFINE o == worker[w].job
<1>0. o \in Orders BY DEF Post
<1>1. StoreTypeOK' BY DEF Post, storeVars, StoreTypeOK
<1>2. posted' \in [Orders -> Nat] BY DEF Post, WorkOwnTypeOK
<1>3. inFlight' \subseteq Orders \X Nat BY <1>0, <1>2 DEF Post, WorkOwnTypeOK
<1>4. worker' \in [Workers -> WorkerState] /\ \A v \in Workers : WorkerHolds(v)'
  BY <1>0 DEF Post, WorkerGoes, WorkOwnTypeOK, WorkerState
<1>5. answer' \in [Orders -> FulfillmentResult \cup {"none"}] BY DEF Post, WorkOwnTypeOK
<1>. QED BY <1>1, <1>2, <1>3, <1>4, <1>5 DEF Post, WorkOwnTypeOK

(* A status the connector answers with is a result that can be filed.      *)
LEMMA ReadAnswerWF ==
  ASSUME StoreTypeOK, WorkWellFormed, NEW w \in Workers, ReadAnswer(w)
  PROVE  StoreTypeOK' /\ WorkWellFormed'
<1>1. StoreTypeOK' BY DEF ReadAnswer, storeVars, StoreTypeOK
<1>2. answer[worker[w].job] \in FulfillmentResult BY DEF ReadAnswer, WorkOwnTypeOK
<1>3. WorkWellFormed'
  BY <1>2 DEF ReadAnswer, connectorVars, WorkerGoes, WorkOwnTypeOK, WorkerState
<1>. QED BY <1>1, <1>3

(* So is what the worker makes of no usable answer.                        *)
LEMMA LoseAnswerWF ==
  ASSUME StoreTypeOK, WorkWellFormed, NEW w \in Workers, LoseAnswer(w)
  PROVE  StoreTypeOK' /\ WorkWellFormed'
<1>1. StoreTypeOK' BY DEF LoseAnswer, storeVars, StoreTypeOK
<1>2. ResultOfNoAnswer \in FulfillmentResult BY DEF ResultOfNoAnswer, FulfillmentResult
<1>3. WorkWellFormed'
  BY <1>2 DEF LoseAnswer, WorkerGoes, WorkOwnTypeOK, WorkerState
<1>. QED BY <1>1, <1>3

(* Filing the result ends the worker's round.                              *)
LEMMA FinishWF ==
  ASSUME StoreTypeOK, WorkWellFormed, NEW w \in Workers, Finish(w)
  PROVE  StoreTypeOK' /\ WorkWellFormed'
<1>1. StoreTypeOK'
  <2>1. CASE FinishJob(worker[w].job, worker[w].result) BY <2>1, FinishJobType DEF Finish
  <2>2. CASE UNCHANGED storeVars BY <2>2 DEF storeVars, StoreTypeOK
  <2>. QED BY <2>1, <2>2 DEF Finish
<1>2. WorkWellFormed'
  BY DEF Finish, connectorVars, WorkerIdles, IdleWorker, WorkOwnTypeOK, WorkerState
<1>. QED BY <1>1, <1>2

(* A crash ends it as well and leaves the tables alone.                    *)
LEMMA WorkerCrashWF ==
  ASSUME StoreTypeOK, WorkWellFormed, NEW w \in Workers, WorkerCrash(w)
  PROVE  StoreTypeOK' /\ WorkWellFormed'
<1>1. StoreTypeOK' BY DEF WorkerCrash, storeVars, StoreTypeOK
<1>2. WorkWellFormed'
  BY DEF WorkerCrash, connectorVars, WorkerIdles, IdleWorker, WorkOwnTypeOK, WorkerState
<1>. QED BY <1>1, <1>2

(* The connector decides on orders it was asked for.                       *)
LEMMA ServeWF ==
  ASSUME StoreTypeOK, WorkWellFormed, NEW o \in Orders, Serve(o) \/ Hang(o)
  PROVE  StoreTypeOK' /\ WorkWellFormed'
<1>1. StoreTypeOK' BY DEF Hang, Serve, storeVars, StoreTypeOK
<1>2. inFlight' \subseteq Orders \X Nat /\ UNCHANGED <<worker, posted, unanswered>>
  BY DEF Hang, Serve, WorkOwnTypeOK
<1>3. answer' \in [Orders -> FulfillmentResult \cup {"none"}] BY DEF Hang, Serve, WorkOwnTypeOK
<1>4. verdict' \in [Orders -> Decisions \cup {"none"}] /\ delivered' \subseteq Orders
  BY DEF Hang, Serve, Decide, WorkOwnTypeOK
<1>. QED BY <1>1, <1>2, <1>3, <1>4 DEF WorkOwnTypeOK

(* Time only changes whether a job is due and how old its lock is.         *)
LEMMA TimePassesWF ==
  ASSUME StoreTypeOK, WorkWellFormed, NEW o \in Orders, TimePasses(o)
  PROVE  StoreTypeOK' /\ WorkWellFormed'
<1>1. StoreTypeOK' BY TimeType DEF TimePasses
<1>. QED BY <1>1 DEF TimePasses, workOwnVars, WorkOwnTypeOK

(* All of the fulfillment side.                                            *)
LEMMA WorkStepWF ==
  ASSUME StoreTypeOK, WorkWellFormed, WorkStep \/ \E w \in Workers : WorkerCrash(w)
  PROVE  StoreTypeOK' /\ WorkWellFormed'
<1>1. ASSUME NEW w \in Workers, WorkerStep(w) PROVE StoreTypeOK' /\ WorkWellFormed'
  BY <1>1, ClaimWF, FulfillManuallyWF, PostWF, ReadAnswerWF, LoseAnswerWF, FinishWF DEF WorkerStep
<1>. QED BY <1>1, ServeWF, TimePassesWF, WorkerCrashWF DEF WorkStep

-----------------------------------------------------------------------------
(* Both together.                                                          *)

(* The shop starts with empty tables, no handlers and an idle worker.      *)
THEOREM InitWF == Init => WellFormed
  BY PayInitWF DEF Init, PayInit, WorkOwnInit, WellFormed, WorkOwnTypeOK, WorkerState, IdleWorker

(* WellFormed is inductive: no step of the shop, its customers, the        *)
(* gateway or the connector breaks it.                                     *)
THEOREM NextWF == WellFormed /\ [Next]_vars => WellFormed'
<1>. SUFFICES ASSUME WellFormed, [Next]_vars PROVE WellFormed' OBVIOUS
<1>. USE DEF WellFormed
<1>1. ASSUME UNCHANGED payOwnVars PROVE PayWellFormed'
  BY <1>1 DEF payOwnVars, PayOwnTypeOK, PayWellFormed, PayHandles, CreatorHolds, NoticeHolds,
              RequestHolds
<1>2. ASSUME UNCHANGED workOwnVars PROVE WorkWellFormed'
  BY <1>2 DEF workOwnVars, WorkOwnTypeOK
<1>3. CASE (NewOrder \/ PayStep) /\ UNCHANGED workOwnVars BY <1>2, <1>3, PayStepWF
<1>4. CASE (WorkStep \/ \E w \in Workers : WorkerCrash(w)) /\ UNCHANGED payOwnVars
  BY <1>1, <1>4, WorkStepWF
<1>5. CASE Crash
  <2>1. WorkWellFormed'
    BY <1>5 DEF Crash, connectorVars, IdleWorker, WorkOwnTypeOK, WorkerState
  <2>. QED BY <1>5, <2>1, LoseHandlersWF DEF Crash
<1>6. CASE UNCHANGED vars
  BY <1>1, <1>2, <1>6 DEF vars, storeVars, StoreTypeOK
<1>. QED BY <1>3, <1>4, <1>5, <1>6 DEF Next

(* Whatever happens, every variable keeps its type, and what a handler or  *)
(* the worker refers to exists (TypeOK of the runs is its first half).     *)
THEOREM TypeCorrect == Spec => []TypeOK
<1>1. WellFormed => TypeOK BY DEF WellFormed, TypeOK, PayWellFormed
<1>. QED BY InitWF, NextWF, <1>1, PTL DEF Spec

-----------------------------------------------------------------------------
(* The queue.                                                              *)

queueVars == <<jobs, worker, posted>>

USE DEF Queue, PostsCounted, ClaimExclusive, HoldsClaim, OrderFollowsJob

-----------------------------------------------------------------------------
(* The payment side.  It only touches orders that have no job, and the one *)
(* transaction that makes a job makes it for such an order.                *)

(* Steps that touch neither orders, jobs nor workers keep Queue.           *)
LEMMA QueueUnchanged ==
  ASSUME Queue, UNCHANGED <<queueVars, orders>>
  PROVE  Queue'
  BY DEF queueVars, JobConsistent, RetriesLeft

(* So do steps that move a jobless order to another status that goes       *)
(* without a job.                                                          *)
LEMMA QueueKeptByJobless ==
  ASSUME StoreTypeOK, Queue, UNCHANGED queueVars, NEW o \in Orders, NEW s \in OrderStatus,
         jobs[o].status = "absent", s \in {"payment_creating", "awaiting_payment", "failed"},
         orders'[o].status = s, \A p \in Orders \ {o} : orders'[p].status = orders[p].status
  PROVE  Queue'
<1>1. OrderFollowsJob' BY DEF queueVars, JobWithOrder
<1>. QED BY <1>1 DEF queueVars, JobConsistent, RetriesLeft

(* Only an order without a job is not yet paid.                            *)
LEMMA JoblessByStatus ==
  ASSUME OrderFollowsJob, NEW o \in Orders,
         orders[o].status \in {"absent", "payment_creating", "awaiting_payment"}
  PROVE  jobs[o].status = "absent"
  BY DEF JobWithOrder

(* finalize_checkout makes an order without a job.                         *)
LEMMA PlaceOrderQueue ==
  ASSUME StoreTypeOK, Queue, UNCHANGED workOwnVars, NEW o \in Orders, NEW a, PlaceOrder(o, a)
  PROVE  Queue'
<1>1. jobs[o].status = "absent" BY JoblessByStatus DEF PlaceOrder, InsertOrder
<1>2. /\ orders'[o].status = "payment_creating"
      /\ \A p \in Orders \ {o} : orders'[p].status = orders[p].status
  BY DEF PlaceOrder, InsertOrder, StoreTypeOK, OrderRow
<1>. QED BY <1>1, <1>2, QueueKeptByJobless
     DEF PlaceOrder, InsertOrder, queueVars, workOwnVars, OrderStatus

(* SET status = ... WHERE id = ... changes the one order.                  *)
LEMMA SetStatusEffect ==
  ASSUME StoreTypeOK, NEW o \in Orders, NEW s, SetStatus(o, s)
  PROVE  /\ orders'[o].status = s
         /\ \A p \in Orders \ {o} : orders'[p] = orders[p]
  BY DEF StoreTypeOK, OrderRow, SetStatus

(* create_payment_and_reply: registering an invoice or failing to concerns *)
(* jobless orders.                                                         *)
LEMMA CreatorStepQueue ==
  ASSUME StoreTypeOK, PayWellFormed, Queue, UNCHANGED workOwnVars,
         NEW o \in Orders, CreatorStep(o)
  PROVE  Queue'
<1>1. CASE UNCHANGED storeVars
  BY <1>1, QueueUnchanged DEF storeVars, queueVars, workOwnVars
<1>2. ASSUME NEW i, CanRegister(o, i, gateway[i].amount), RegisterInvoice(o, i) PROVE Queue'
  <2>1. jobs[o].status = "absent" BY <1>2, JoblessByStatus DEF CanRegister
  <2>2. SetStatus(o, "awaiting_payment") /\ UNCHANGED jobs BY <1>2 DEF RegisterInvoice
  <2>. QED BY <2>1, <2>2, SetStatusEffect, QueueKeptByJobless DEF queueVars, workOwnVars, OrderStatus
<1>3. CASE MarkCreationFailed(o)
  <2>1. CASE orders[o].status = "payment_creating" /\ SetStatus(o, "failed")
    <3>1. jobs[o].status = "absent" BY <2>1, JoblessByStatus
    <3>2. UNCHANGED jobs BY <1>3 DEF MarkCreationFailed
    <3>. QED BY <2>1, <3>1, <3>2, SetStatusEffect, QueueKeptByJobless DEF queueVars, workOwnVars, OrderStatus
  <2>2. CASE UNCHANGED orders
    BY <1>3, <2>2, QueueUnchanged DEF MarkCreationFailed, queueVars, workOwnVars
  <2>. QED BY <1>3, <2>1, <2>2 DEF MarkCreationFailed
<1>. QED BY <1>1, <1>2, <1>3
     DEF CreatorStep, CreateInvoice, RegisterCreatedInvoice, FailCreation, SendLink

(* settle_aban_payment queues a job with no attempts and no owner for an   *)
(* order that had none: no worker can be busy with it.                     *)
LEMMA SettlePaymentQueue ==
  ASSUME StoreTypeOK, WorkWellFormed, Queue, UNCHANGED <<worker, posted>>, NEW i,
         Settleable(payments[i].order), payments[i].order \in Orders, SettlePayment(i)
  PROVE  Queue'
<1>. DEFINE o == payments[i].order
<1>0. o \in Orders /\ SetStatus(o, "paid") BY DEF SettlePayment
<1>1. jobs[o].status = "absent" BY JoblessByStatus DEF Settleable
<1>. HIDE DEF o
<1>2. jobs' = [jobs EXCEPT ![o] = QueuedJob]
  BY <1>0, <1>1 DEF SettlePayment, StoreTypeOK, o
<1>3. jobs'[o] = QueuedJob /\ \A p \in Orders \ {o} : jobs'[p] = jobs[p]
  BY <1>0, <1>2 DEF StoreTypeOK
<1>4. orders'[o].status = "paid" /\ \A p \in Orders \ {o} : orders'[p] = orders[p]
  BY <1>0, SetStatusEffect
<1>5. OrderFollowsJob'
  BY <1>3, <1>4 DEF QueuedJob, JobWithOrder
<1>6. \A p \in Orders : JobConsistent(p)'
  BY <1>3 DEF QueuedJob, JobConsistent, RetriesLeft, MaxAttempts
<1>7. jobs[o].attempts = 0 BY <1>0, <1>1 DEF JobConsistent
<1>8. \A w \in Workers : worker[w].pc # "idle" => worker[w].job # o BY <1>1
<1>9. \A w \in Workers : worker[w].pc # "idle" => worker[w].job \in Orders \ {o}
  BY <1>8 DEF WorkWellFormed, WorkHandles, WorkerHolds
<1>10. PostsCounted'
  BY <1>3, <1>7, <1>9 DEF QueuedJob
<1>11. ClaimExclusive' BY <1>3, <1>9
<1>. QED BY <1>5, <1>6, <1>10, <1>11

(* A settlement's invoice is registered for an order.                      *)
LEMMA SettlesAnOrder ==
  ASSUME StoreTypeOK, PayWellFormed, NEW r \in Requests, requests[r].pc = "settling",
         payments[notices[requests[r].delivery].invoice].status # "absent"
  PROVE  /\ notices[requests[r].delivery].invoice \in Invoices
         /\ payments[notices[requests[r].delivery].invoice].order \in Orders
<1>. DEFINE i == notices[requests[r].delivery].invoice
<1>1. i \in Invoices BY DEF PayWellFormed, PayHandles, RequestHolds, NoticeHolds
<1>2. payments[i] \in PaymentRow /\ payments[i].status # "absent" BY <1>1 DEF StoreTypeOK
<1>. HIDE DEF i
<1>3. payments[i].order \in Orders BY <1>2 DEF PaymentRow
<1>. QED BY <1>1, <1>3 DEF i

(* aban_webhook reaches the queue only through such a settlement.          *)
LEMMA RequestStepQueue ==
  ASSUME WellFormed, Queue, UNCHANGED workOwnVars, NEW r \in Requests, RequestStep(r)
  PROVE  Queue'
<1>1. CASE UNCHANGED <<jobs, orders>>
  BY <1>1, QueueUnchanged DEF queueVars, workOwnVars
<1>2. ASSUME NEW i, i = notices[requests[r].delivery].invoice, requests[r].pc = "settling",
             VerificationAccepted(i, requests[r].verified, requests[r].amount),
             Settleable(payments[i].order), SettlePayment(i)
      PROVE  Queue'
  <2>1. payments[i].order \in Orders
    BY <1>2, SettlesAnOrder DEF VerificationAccepted, WellFormed
  <2>. QED BY <1>2, <2>1, SettlePaymentQueue DEF WellFormed, workOwnVars
<1>. QED BY <1>1, <1>2 DEF RequestStep, Record, RecordDelivery, Verify, Settle, storeVars

(* All of the payment side.                                                *)
LEMMA PayStepQueue ==
  ASSUME WellFormed, Queue, NewOrder \/ PayStep, UNCHANGED workOwnVars
  PROVE  Queue'
<1>1. CASE NewOrder BY <1>1, PlaceOrderQueue DEF NewOrder, WellFormed
<1>2. ASSUME NEW o \in Orders, CreatorStep(o) PROVE Queue'
  BY <1>2, CreatorStepQueue DEF WellFormed
<1>3. ASSUME NEW r \in Requests, RequestStep(r) PROVE Queue'
  BY <1>3, RequestStepQueue
<1>4. CASE OutsideStep
  <2>1. UNCHANGED storeVars
    BY <1>4 DEF OutsideStep, CustomerPays, InvoiceExpires, Notify, Deliver
  <2>. QED BY <2>1, QueueUnchanged DEF storeVars, queueVars, workOwnVars
<1>. QED BY <1>1, <1>2, <1>3, <1>4 DEF PayStep

-----------------------------------------------------------------------------
(* The worker.  Each step concerns one order, and no other worker's.       *)

(* A claim takes a job that nobody works on and counts the attempt; as     *)
(* retries stop in time, the count stays within its limit.                 *)
LEMMA ClaimQueue ==
  ASSUME WellFormed, Queue, NEW w \in Workers, Claim(w)
  PROVE  Queue'
<1>1. PICK o \in Orders : ClaimJob(o, w) /\ (WorkerGoes(w, "claimed", o, "none") \/ UNCHANGED worker)
  BY DEF Claim
<1>2. /\ jobs'[o] = [status |-> "processing", attempts |-> jobs[o].attempts + 1,
                     due |-> jobs[o].due, lease |-> "fresh", owner |-> w]
      /\ \A p \in Orders \ {o} : jobs'[p] = jobs[p]
  BY <1>1 DEF ClaimJob, TakeJob, WellFormed, StoreTypeOK
<1>3. /\ orders'[o].status = "fulfillment_processing"
      /\ \A p \in Orders \ {o} : orders'[p].status = orders[p].status
  <2>1. orders[o].status \in {"paid", "fulfillment_processing"}
    BY <1>1 DEF ClaimJob, TakeJob, Claimable, JobWithOrder
  <2>. QED BY <1>1, <2>1, SetStatusEffect DEF ClaimJob, TakeJob, WellFormed
<1>4. jobs[o].status \in {"queued", "retryable_failure"} BY <1>1 DEF ClaimJob, TakeJob, Claimable
<1>5. \A v \in Workers : worker[v].pc # "idle" => worker[v].job \in Orders \ {o}
  BY <1>4 DEF WellFormed, WorkWellFormed, WorkHandles, WorkerHolds
<1>6. OrderFollowsJob' BY <1>2, <1>3 DEF JobWithOrder
<1>7. \A p \in Orders : JobConsistent(p)'
  <2>1. jobs[o].attempts \in Nat BY DEF WellFormed, StoreTypeOK, JobRow
  <2>2. jobs[o].attempts < MaxAttempts
    BY <1>4, <2>1 DEF JobConsistent, RetriesLeft, MaxAttempts
  <2>3. JobConsistent(o)' BY <1>2, <2>1, <2>2 DEF JobConsistent, MaxAttempts
  <2>4. \A p \in Orders \ {o} : JobConsistent(p)' BY <1>2 DEF JobConsistent, RetriesLeft
  <2>. QED BY <2>3, <2>4
<1>8. worker' = worker \/ worker' = [worker EXCEPT ![w] = [pc |-> "claimed", job |-> o, result |-> "none"]]
  BY <1>1 DEF WorkerGoes
<1>9. posted' = posted BY DEF Claim, connectorVars
<1>10. ClaimExclusive'
  BY <1>2, <1>5, <1>8 DEF WellFormed, WorkOwnTypeOK, WorkWellFormed
<1>11. PostsCounted'
  <2>1. posted[o] <= jobs[o].attempts /\ posted[o] \in Nat /\ jobs[o].attempts \in Nat
    BY DEF WellFormed, WorkWellFormed, WorkOwnTypeOK, StoreTypeOK, JobRow
  <2>2. posted[o] < jobs'[o].attempts /\ posted[o] <= jobs'[o].attempts BY <1>2, <2>1
  <2>. QED BY <1>2, <1>5, <1>8, <1>9, <2>2 DEF WellFormed, WorkWellFormed, WorkOwnTypeOK
<1>. QED BY <1>6, <1>7, <1>10, <1>11

(* A request to the connector uses up the attempt that the claim counted.  *)
LEMMA PostQueue ==
  ASSUME WellFormed, Queue, NEW w \in Workers, Post(w)
  PROVE  Queue'
<1>. DEFINE o == worker[w].job
<1>1. o \in Orders /\ worker[w].pc = "claimed"
  BY DEF Post, WellFormed, WorkWellFormed, WorkHandles, WorkerHolds
<1>2. /\ worker'[w] = [pc |-> "calling", job |-> o, result |-> "none"]
      /\ \A v \in Workers \ {w} : worker'[v] = worker[v]
  BY DEF Post, WorkerGoes, WellFormed, WorkWellFormed, WorkOwnTypeOK
<1>3. posted'[o] = posted[o] + 1 /\ \A p \in Orders \ {o} : posted'[p] = posted[p]
  BY <1>1 DEF Post, WellFormed, WorkWellFormed, WorkOwnTypeOK
<1>4. UNCHANGED <<jobs, orders>> BY DEF Post, storeVars
<1>5. \A v \in Workers \ {w} : worker[v].pc # "idle" => worker[v].job \in Orders \ {o}
  BY <1>1 DEF WellFormed, WorkWellFormed, WorkHandles, WorkerHolds
<1>. HIDE DEF o
<1>6. ClaimExclusive' BY <1>1, <1>2, <1>4 DEF o
<1>7. PostsCounted'
  <2>1. posted[o] \in Nat /\ jobs[o].attempts \in Nat /\ posted[o] < jobs[o].attempts
    BY <1>1 DEF WellFormed, WorkWellFormed, WorkOwnTypeOK, StoreTypeOK, JobRow, o
  <2>. QED BY <1>1, <1>2, <1>3, <1>4, <1>5, <2>1
<1>. QED BY <1>4, <1>6, <1>7 DEF JobConsistent, RetriesLeft

(* Steps that leave the tables and the number of requests alone and make   *)
(* no worker claim anything.                                               *)
LEMMA WorkerGoesOnQueue ==
  ASSUME WellFormed, Queue, NEW w \in Workers, UNCHANGED <<orders, jobs, posted>>,
         NEW next, next.pc # "claimed", next.pc # "idle" => next.job = worker[w].job,
         worker[w].pc # "idle", worker' = [worker EXCEPT ![w] = next]
  PROVE  Queue'
<1>1. worker'[w] = next /\ \A v \in Workers \ {w} : worker'[v] = worker[v]
  BY DEF WellFormed, WorkWellFormed, WorkOwnTypeOK
<1>2. ClaimExclusive' BY <1>1
<1>3. PostsCounted' BY <1>1
<1>. QED BY <1>2, <1>3 DEF JobConsistent, RetriesLeft

(* An answer, its loss, the manual provider and a crash only move the      *)
(* worker on.                                                              *)
LEMMA CallQueue ==
  ASSUME WellFormed, Queue, NEW w \in Workers,
         FulfillManually(w) \/ ReadAnswer(w) \/ LoseAnswer(w) \/ WorkerCrash(w)
  PROVE  Queue'
<1>1. UNCHANGED <<orders, jobs, posted>> /\ worker[w].pc # "idle"
  BY DEF FulfillManually, ReadAnswer, LoseAnswer, WorkerCrash, storeVars, connectorVars
<1>2. CASE WorkerIdles(w)
  BY <1>1, <1>2, WorkerGoesOnQueue DEF WorkerIdles, IdleWorker
<1>3. ASSUME NEW result, WorkerGoes(w, "finishing", worker[w].job, result) PROVE Queue'
  BY <1>1, <1>3, WorkerGoesOnQueue DEF WorkerGoes
<1>. QED BY <1>2, <1>3 DEF FulfillManually, ReadAnswer, LoseAnswer, WorkerCrash

(* finish_fulfillment_job updates the row whatever its status and owner    *)
(* are; by ClaimExclusive they are processing and its own worker, so no    *)
(* one else loses a job.                                                   *)
LEMMA FinishQueue ==
  ASSUME WellFormed, Queue, NEW w \in Workers, Finish(w)
  PROVE  Queue'
<1>0. PICK o \in Orders : o = worker[w].job
  BY DEF Finish, WellFormed, WorkWellFormed, WorkHandles, WorkerHolds
<1>. DEFINE f == Filing(worker[w].result, jobs[o].attempts)
<1>1. /\ jobs[o].attempts \in Nat /\ worker[w].result \in FulfillmentResult
      /\ jobs[o].status = "processing" /\ worker[w].pc = "finishing"
  BY <1>0 DEF Finish, WellFormed, WorkWellFormed, WorkHandles, WorkerHolds, StoreTypeOK, JobRow
<1>2. /\ f.job \in {"succeeded", "manual_review", "failed", "retryable_failure"}
      /\ f.job = "retryable_failure" => RetriesLeft(jobs[o].attempts)
      /\ f.job # "retryable_failure" => <<f.job, f.order>> \in JobWithOrder
  BY <1>1, FilingAgrees
<1>3. worker'[w] = IdleWorker /\ \A v \in Workers \ {w} : worker'[v] = worker[v]
  BY DEF Finish, WorkerIdles, WellFormed, WorkWellFormed, WorkOwnTypeOK
<1>4. posted' = posted BY DEF Finish, connectorVars
<1>5. CASE UNCHANGED storeVars
  <2>1. WorkerIdles(w) /\ UNCHANGED <<orders, jobs, posted>> BY <1>4, <1>5 DEF Finish, storeVars
  <2>. QED BY <1>0, <1>1, <2>1, WorkerGoesOnQueue DEF WorkerIdles, IdleWorker
<1>6. CASE FinishJob(o, worker[w].result)
  <2>1. /\ jobs'[o] = [status |-> f.job, attempts |-> jobs[o].attempts,
                       due |-> jobs[o].due /\ ~(f.job = "retryable_failure"),
                       lease |-> "none", owner |-> NULL]
        /\ \A p \in Orders \ {o} : jobs'[p] = jobs[p]
    BY <1>1, <1>6 DEF FinishJob, FileJob, WellFormed, StoreTypeOK
  <2>2. /\ orders'[o].status = IF f.job = "retryable_failure" THEN orders[o].status ELSE f.order
        /\ \A p \in Orders \ {o} : orders'[p].status = orders[p].status
    <3>1. CASE f.job = "retryable_failure" BY <1>6, <3>1 DEF FinishJob, FileJob, UpdatesOrder
    <3>2. CASE f.job # "retryable_failure"
      <4>1. SetStatus(o, f.order) BY <1>6, <3>2 DEF FinishJob, FileJob, UpdatesOrder
      <4>. QED BY <1>1, <3>2, <4>1, SetStatusEffect DEF WellFormed
    <3>. QED BY <3>1, <3>2
  <2>3. orders[o].status = "fulfillment_processing" BY <1>1 DEF JobWithOrder
  <2>4. \A v \in Workers \ {w} : worker[v].pc # "idle" => worker[v].job \in Orders \ {o}
    BY <1>0, <1>1 DEF WellFormed, WorkWellFormed, WorkHandles, WorkerHolds
  <2>a. /\ jobs[o].attempts \in Nat
        /\ jobs[o].attempts > 0
        /\ jobs[o].attempts <= 3
        /\ f.job = "retryable_failure" => jobs[o].attempts < 3
    BY <1>1, <1>2 DEF JobConsistent, RetriesLeft, MaxAttempts
  <2>. HIDE DEF f
  <2>5. OrderFollowsJob' BY <1>2, <2>1, <2>2, <2>3 DEF JobWithOrder
  <2>6. \A p \in Orders : JobConsistent(p)'
    <3>1. JobConsistent(o)'
      <4>1. /\ jobs'[o].status = f.job /\ jobs'[o].attempts = jobs[o].attempts
            /\ jobs'[o].lease = "none" /\ jobs'[o].owner = NULL
        BY <2>1
      <4>. QED BY <1>2, <2>a, <4>1 DEF JobConsistent, RetriesLeft, MaxAttempts
    <3>2. \A p \in Orders \ {o} : JobConsistent(p)' BY <2>1 DEF JobConsistent, RetriesLeft
    <3>. QED BY <3>1, <3>2
  <2>7. ClaimExclusive' BY <1>0, <1>3, <2>1, <2>4 DEF IdleWorker
  <2>8. PostsCounted' BY <1>0, <1>1, <1>3, <1>4, <2>1, <2>4 DEF IdleWorker
  <2>. QED BY <2>5, <2>6, <2>7, <2>8
<1>. QED BY <1>0, <1>5, <1>6 DEF Finish

(* The connector and the clock do not touch what Queue speaks of.          *)
LEMMA OutsideWorkQueue ==
  ASSUME WellFormed, Queue, NEW o \in Orders, Serve(o) \/ Hang(o) \/ TimePasses(o)
  PROVE  Queue'
<1>1. CASE Serve(o) \/ Hang(o)
  BY <1>1, QueueUnchanged DEF Hang, Serve, storeVars, queueVars
<1>2. CASE TimePasses(o)
  <2>1. UNCHANGED <<orders, worker, posted>>
    BY <1>2 DEF TimePasses, BackoffElapses, LeaseAges, workOwnVars
  <2>2. \A p \in Orders : /\ jobs'[p].status = jobs[p].status
                          /\ jobs'[p].attempts = jobs[p].attempts
                          /\ jobs'[p].owner = jobs[p].owner
                          /\ jobs'[p].lease = "none" <=> jobs[p].lease = "none"
    <3>0. jobs[o] \in JobRow BY DEF WellFormed, StoreTypeOK
    <3>1. CASE BackoffElapses(o)
      <4>1. /\ jobs'[o].status = jobs[o].status /\ jobs'[o].attempts = jobs[o].attempts
            /\ jobs'[o].owner = jobs[o].owner /\ jobs'[o].lease = jobs[o].lease
            /\ \A p \in Orders \ {o} : jobs'[p] = jobs[p]
        BY <3>0, <3>1 DEF BackoffElapses, WellFormed, StoreTypeOK, JobRow
      <4>. QED BY <4>1
    <3>2. CASE LeaseAges(o)
      <4>1. /\ jobs'[o].status = jobs[o].status /\ jobs'[o].attempts = jobs[o].attempts
            /\ jobs'[o].owner = jobs[o].owner /\ jobs'[o].lease = "stale"
            /\ \A p \in Orders \ {o} : jobs'[p] = jobs[p]
        BY <3>0, <3>2 DEF LeaseAges, WellFormed, StoreTypeOK, JobRow
      <4>2. jobs[o].lease = "fresh" BY <3>2 DEF LeaseAges
      <4>. QED BY <4>1, <4>2
    <3>. QED BY <1>2, <3>1, <3>2 DEF TimePasses
  <2>3. \A w \in Workers : worker[w].pc # "idle" => worker[w].job \in Orders
    BY DEF WellFormed, WorkWellFormed, WorkHandles, WorkerHolds
  <2>. QED BY <2>1, <2>2, <2>3 DEF JobConsistent, RetriesLeft
<1>. QED BY <1>1, <1>2

(* All of the fulfillment side.                                            *)
LEMMA WorkStepQueue ==
  ASSUME WellFormed, Queue, WorkStep \/ \E w \in Workers : WorkerCrash(w)
  PROVE  Queue'
<1>1. ASSUME NEW w \in Workers, WorkerStep(w) PROVE Queue'
  BY <1>1, ClaimQueue, PostQueue, CallQueue, FinishQueue DEF WorkerStep
<1>. QED BY <1>1, CallQueue, OutsideWorkQueue DEF WorkStep

-----------------------------------------------------------------------------
(* The queue's part of the invariant, and what it is for.                  *)

(* Empty tables satisfy the invariant.                                     *)
THEOREM InitQueue == Init => QueueInv
<1>. SUFFICES ASSUME Init PROVE QueueInv OBVIOUS
<1>1. WellFormed BY InitWF
<1>2. Queue
  BY DEF Init, StoreInit, WorkOwnInit, NoJob, NoOrder, IdleWorker, JobConsistent,
         JobWithOrder, MaxAttempts
<1>. QED BY <1>1, <1>2 DEF QueueInv

(* QueueInv is inductive.                                                  *)
THEOREM NextQueue == QueueInv /\ [Next]_vars => QueueInv'
<1>. SUFFICES ASSUME WellFormed, Queue, [Next]_vars PROVE Queue'
  BY NextWF DEF QueueInv
<1>1. CASE (NewOrder \/ PayStep) /\ UNCHANGED workOwnVars BY <1>1, PayStepQueue
<1>2. CASE WorkStep \/ \E w \in Workers : WorkerCrash(w) BY <1>2, WorkStepQueue
<1>3. CASE Crash
  BY <1>3 DEF Crash, LoseHandlers, storeVars, connectorVars, IdleWorker, JobConsistent, RetriesLeft
<1>4. CASE UNCHANGED vars
  BY <1>4, QueueUnchanged DEF vars, storeVars, workOwnVars, queueVars
<1>. QED BY <1>1, <1>2, <1>3, <1>4 DEF Next

(* The invariant that carries the theorems below.                          *)
THEOREM QueueInvariant == Spec => []QueueInv
  BY InitQueue, NextQueue, PTL DEF Spec

(* No two workers ever work on one job, and a job that is worked on is in  *)
(* processing under its worker's name (claim_next_fulfillment_job).        *)
THEOREM ClaimsAreExclusive == Spec => []ClaimExclusive
<1>1. QueueInv => ClaimExclusive BY DEF QueueInv
<1>. QED BY QueueInvariant, <1>1, PTL

(* No order is posted to the connector more often than it was claimed, and *)
(* none is claimed more than three times (finish_fulfillment_job).         *)
THEOREM AttemptsAreBounded == Spec => []AttemptsBounded
<1>1. QueueInv => AttemptsBounded BY DEF QueueInv, AttemptsBounded, JobConsistent
<1>. QED BY QueueInvariant, <1>1, PTL

(* An order's status and its job's status always belong together.          *)
THEOREM OrdersFollowJobs == Spec => []OrderFollowsJob
<1>1. QueueInv => OrderFollowsJob BY DEF QueueInv
<1>. QED BY QueueInvariant, <1>1, PTL

-----------------------------------------------------------------------------
(* The handlers and the worker keep to the transactions of OrderStore: all *)
(* they do to the tables is call one of them, under the condition that     *)
(* StoreChange states for it.                                              *)

(* create_payment_and_reply registers an invoice of its order, or gives it *)
(* up.                                                                     *)
LEMMA CreatorKeepsToStore ==
  ASSUME QueueInv, NEW o \in Orders, CreatorStep(o)
  PROVE  [StoreChange]_storeVars
<1>1. CASE RegisterCreatedInvoice(o)
  <2>. DEFINE i == creator[o].invoice
  <2>1. i \in Invoices
    BY <1>1 DEF RegisterCreatedInvoice, QueueInv, WellFormed, PayWellFormed, PayHandles, CreatorHolds
  <2>2. CASE CanRegister(o, i, gateway[i].amount) /\ RegisterInvoice(o, i)
    <3>1. CanRegister(o, i, orders[o].amount) BY <2>2 DEF CanRegister
    <3>. QED BY <2>1, <2>2, <3>1 DEF StoreChange
  <2>. QED BY <1>1, <2>2 DEF RegisterCreatedInvoice
<1>2. CASE FailCreation(o) BY <1>2 DEF FailCreation, StoreChange
<1>3. CASE CreateInvoice(o) \/ SendLink(o) BY <1>3 DEF CreateInvoice, SendLink
<1>. QED BY <1>1, <1>2, <1>3 DEF CreatorStep

(* A settlement that is carried out is about a known payment and its       *)
(* price.                                                                  *)
LEMMA SettleKeepsToStore ==
  ASSUME TableInv, NEW i \in Invoices, NEW verified, NEW amount,
         VerificationAccepted(i, verified, amount), Settleable(payments[i].order), SettlePayment(i)
  PROVE  StoreChange
<1>1. payments[i].order \in Orders
  BY DEF VerificationAccepted, TableInv, StoreTypeOK, PaymentRow
<1>2. amount \in Amounts BY <1>1 DEF VerificationAccepted, Settleable, TableInv, TablesAgree
<1>3. VerificationAccepted(i, TRUE, amount) BY DEF VerificationAccepted
<1>. QED BY <1>2, <1>3 DEF StoreChange

(* aban_webhook records a new delivery and settles what was verified.      *)
LEMMA RequestKeepsToStore ==
  ASSUME QueueInv, TableInv, NEW r \in Requests, RequestStep(r)
  PROVE  [StoreChange]_storeVars
<1>. DEFINE d == requests[r].delivery
            i == notices[d].invoice
<1>0. requests[r].pc # "idle" => d \in Deliveries /\ i \in Invoices
  BY DEF QueueInv, WellFormed, PayWellFormed, PayHandles, NoticeHolds, RequestHolds
<1>1. CASE Record(r)
  <2>1. d \in Deliveries BY <1>0, <1>1 DEF Record
  <2>. QED BY <1>1, <2>1 DEF Record, StoreChange
<1>2. CASE Settle(r)
  <2>1. i \in Invoices BY <1>0, <1>2 DEF Settle
  <2>2. CASE /\ VerificationAccepted(i, requests[r].verified, requests[r].amount)
             /\ Settleable(payments[i].order) /\ SettlePayment(i)
    BY <2>1, <2>2, SettleKeepsToStore
  <2>. QED BY <1>2, <2>2 DEF Settle
<1>3. CASE Verify(r) BY <1>3 DEF Verify
<1>. QED BY <1>1, <1>2, <1>3 DEF RequestStep

(* worker::run finishes only what it claimed, which is still in            *)
(* processing.                                                             *)
LEMMA WorkKeepsToStore ==
  ASSUME QueueInv, WorkStep \/ \E w \in Workers : WorkerCrash(w)
  PROVE  [StoreChange]_storeVars
<1>1. ASSUME NEW w \in Workers, WorkerStep(w) PROVE [StoreChange]_storeVars
  <2>1. CASE Claim(w) BY <2>1 DEF Claim, StoreChange
  <2>2. CASE Finish(w)
    <3>1. /\ worker[w].job \in Orders /\ worker[w].result \in FulfillmentResult
          /\ jobs[worker[w].job].status = "processing"
      BY <2>2 DEF Finish, QueueInv, Queue, ClaimExclusive, WellFormed, WorkWellFormed, WorkHandles,
                  WorkerHolds
    <3>. QED BY <2>2, <3>1 DEF Finish, StoreChange
  <2>3. CASE FulfillManually(w) \/ Post(w) \/ ReadAnswer(w) \/ LoseAnswer(w)
    BY <2>3 DEF FulfillManually, Post, ReadAnswer, LoseAnswer
  <2>. QED BY <1>1, <2>1, <2>2, <2>3 DEF WorkerStep
<1>2. ASSUME NEW o \in Orders, Serve(o) \/ Hang(o) \/ TimePasses(o) PROVE [StoreChange]_storeVars
  BY <1>2 DEF Serve, Hang, TimePasses, StoreChange
<1>3. ASSUME NEW w \in Workers, WorkerCrash(w) PROVE [StoreChange]_storeVars BY <1>3 DEF WorkerCrash
<1>. QED BY <1>1, <1>2, <1>3 DEF WorkStep

(* Together, and when they crash.                                          *)
LEMMA NextKeepsToStore ==
  ASSUME QueueInv, TableInv, [Next]_vars
  PROVE  [StoreChange]_storeVars
<1>1. CASE NewOrder BY <1>1 DEF NewOrder, PlaceOrder, StoreChange
<1>2. CASE OutsideStep
  BY <1>2 DEF OutsideStep, CustomerPays, InvoiceExpires, Notify, Deliver
<1>3. CASE PayStep BY <1>2, <1>3, CreatorKeepsToStore, RequestKeepsToStore DEF PayStep
<1>4. CASE Crash BY <1>4 DEF Crash, LoseHandlers
<1>5. CASE UNCHANGED vars BY <1>5 DEF vars
<1>. QED BY <1>1, <1>3, <1>4, <1>5, WorkKeepsToStore DEF Next

(* The order core refines the tables with their transactions: its handlers *)
(* and workers finish only what is in processing (db/mod.rs:518 relies on  *)
(* it), and so what StoreProofs proves of such callers holds of them.      *)
THEOREM CoreKeepsToStore == Spec => StoreSpec
<1>1. Init => StoreInit /\ QueueInv BY InitQueue DEF Init
<1>2. StoreInit => TableInv BY StoreInitAgrees
<1>3. QueueInv /\ TableInv /\ [Next]_vars => [StoreChange]_storeVars BY NextKeepsToStore
<1>4. TableInv /\ [StoreChange]_storeVars => TableInv' BY StoreChangeAgrees
<1>. QED BY <1>1, <1>2, <1>3, <1>4, QueueInvariant, PTL DEF Spec, StoreSpec

(* The five tables agree, and a job goes on to its end and not back.       *)
THEOREM CoreTablesAgree == Spec => []TableInv /\ [][JobMovesOn]_storeVars
<1>1. StoreSpec => [][JobMovesOn]_storeVars BY JobsMoveOn, PTL
<1>. QED BY <1>1, CoreKeepsToStore, TablesAlwaysAgree, PTL
==============================================================================
