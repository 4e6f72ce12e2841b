------------------------------ MODULE OrderStore ------------------------------
(***************************************************************************)
(* The order core's tables in PostgreSQL (migrations/001_initial.sql) and  *)
(* the transactions of src/db/mod.rs over them.  Every transaction begins  *)
(* by locking or conditionally updating the row it decides on, so each is  *)
(* one atomic step here; what can go wrong is its outcome (see Faults).    *)
(*                                                                         *)
(* Instants are abstracted to what the code compares them with: a job's    *)
(* next_attempt_at is due or not, its locked_at is NULL, fresh or older    *)
(* than ten minutes.  Columns no code reads (payment_url, last_error,      *)
(* provider_payload, ...) are left out.                                    *)
(***************************************************************************)
EXTENDS Naturals, Sequences

CONSTANTS
    Orders,      \* ids that orders can get
    Invoices,    \* invoice ids the payment gateway can hand out
    Deliveries,  \* webhook delivery ids the payment gateway can use
    Amounts,     \* sums of money, in rial
    Workers,     \* fulfillment workers polling the job table
    Faults,      \* what may go wrong in the environment
    NULL

(* "unknown_commit" is the loss of the answer to a COMMIT that the server  *)
(* did carry out; it strikes the database calls that Faults names.         *)
FaultKinds == {"finalize", "cancel", "create_invoice", "misprice", "register", "mark_failed", "send",
               "ack", "record", "verify", "settle",
               "claim", "connector", "hang", "finish", "unknown_commit", "crash"}

ASSUME FaultsAssumption == Faults \subseteq FaultKinds
ASSUME NullAssumption == /\ NULL \notin Orders
                         /\ NULL \notin Invoices
                         /\ NULL \notin Deliveries
                         /\ NULL \notin Workers
                         /\ NULL \notin Amounts

VARIABLES
    orders,      \* orders: status and amount_rial
    payments,    \* payments, by external_id (provider is always 'aban')
    jobs,        \* fulfillment_jobs, by order_id, which is UNIQUE
    journal,     \* order_events: the event types of each order, in order
    recorded     \* delivery ids in webhook_deliveries

storeVars == <<orders, payments, jobs, journal, recorded>>

-----------------------------------------------------------------------------
(* Row types; "absent" stands for a row that was not inserted yet.         *)

OrderStatus == {"payment_creating", "awaiting_payment", "paid",
                "fulfillment_processing", "fulfilled", "requires_review", "failed"}
OrderRow == [status: OrderStatus \cup {"absent"}, amount: Amounts \cup {NULL}]

PaymentRow == [status: {"absent"}, order: {NULL}] \cup [status: {"created", "paid"}, order: Orders]

JobStatus == {"queued", "processing", "retryable_failure",
              "manual_review", "succeeded", "failed"}
JobRow == [status: JobStatus \cup {"absent"}, attempts: Nat, due: BOOLEAN,
           lease: {"none", "fresh", "stale"}, owner: Workers \cup {NULL}]

EventType == {"order.created", "payment.invoice_created",
              "payment.invoice_creation_failed", "payment.verified",
              "fulfillment.succeeded", "fulfillment.manual_review",
              "fulfillment.failed", "fulfillment.retry_exhausted",
              "fulfillment.retryable_failure"}

StoreTypeOK ==
    /\ orders \in [Orders -> OrderRow]
    /\ payments \in [Invoices -> PaymentRow]
    /\ jobs \in [Orders -> JobRow]
    /\ journal \in [Orders -> Seq(EventType)]
    /\ recorded \subseteq Deliveries

NoOrder == [status |-> "absent", amount |-> NULL]
NoPayment == [status |-> "absent", order |-> NULL]
NoJob == [status |-> "absent", attempts |-> 0, due |-> FALSE,
          lease |-> "none", owner |-> NULL]

StoreInit ==
    /\ orders = [o \in Orders |-> NoOrder]
    /\ payments = [i \in Invoices |-> NoPayment]
    /\ jobs = [o \in Orders |-> NoJob]
    /\ journal = [o \in Orders |-> <<>>]
    /\ recorded = {}

Happened(o, e) == \E k \in DOMAIN journal[o] : journal[o][k] = e

AddEvent(o, e) == journal' = [journal EXCEPT ![o] = Append(@, e)]

SetStatus(o, s) == orders' = [orders EXCEPT ![o].status = s]

-----------------------------------------------------------------------------
(* Bugs that the checks must notice, each a variant of a definition below. *)

(* A bug: a status that the column's CHECK does not know.                  *)
MisspeltJob == [NoJob EXCEPT !.status = "pending", !.due = TRUE]

(* A bug: the verified amount is not compared with the order's.            *)
AcceptedUnchecked(i, verified, amount) ==
    verified /\ payments[i].status # "absent"

(* A bug: an order that was settled already is settled again.              *)
SettleableAgain(o) == orders[o].status # "payment_creating"

(* A bug: the ten-minute lock also frees a job that is being worked on.    *)
ClaimableWhileProcessing(o) ==
    /\ jobs[o].status \in {"queued", "retryable_failure", "processing"}
    /\ jobs[o].due
    /\ jobs[o].lease \in {"none", "stale"}

(* A bug: a job waiting for its retry is forgotten.                        *)
ClaimableOnce(o) == jobs[o].status = "queued" /\ jobs[o].due

(* A bug: one attempt too many.                                            *)
RetriesLeftOffByOne(attempts) == attempts <= 3

(* A bug: what is doubtful is called failed.                               *)
ExhaustedFails == [job |-> "failed", order |-> "failed", event |-> "fulfillment.failed"]

(* A bug: the order takes the match arm's status on a retry as well.       *)
AlwaysUpdatesOrder(jobStatus) == TRUE

-----------------------------------------------------------------------------
(* The order half of finalize_checkout.                                    *)
InsertOrder(o, amount) ==
    /\ orders[o].status = "absent"
    /\ orders' = [orders EXCEPT ![o] = [status |-> "payment_creating", amount |-> amount]]
    /\ AddEvent(o, "order.created")
    /\ UNCHANGED <<payments, jobs, recorded>>

(* register_aban_invoice: a mismatched amount, an order that no longer     *)
(* waits for its invoice or a taken external_id rolls everything back.     *)
(* "created" stands for whatever unpaid status the gateway names; one that *)
(* the column's CHECK refuses is an error like any other of the database.  *)
CanRegister(o, i, amount) ==
    /\ amount = orders[o].amount
    /\ orders[o].status = "payment_creating"
    /\ payments[i].status = "absent"

RegisterInvoice(o, i) ==
    /\ SetStatus(o, "awaiting_payment")
    /\ payments' = [payments EXCEPT ![i] = [status |-> "created", order |-> o]]
    /\ AddEvent(o, "payment.invoice_created")
    /\ UNCHANGED <<jobs, recorded>>

(* mark_payment_creation_failed: the event is added whether or not the     *)
(* UPDATE found the order still waiting for its invoice.                   *)
MarkCreationFailed(o) ==
    /\ \/ /\ orders[o].status = "payment_creating"
          /\ SetStatus(o, "failed")
       \/ /\ orders[o].status # "payment_creating"
          /\ UNCHANGED orders
    /\ AddEvent(o, "payment.invoice_creation_failed")
    /\ UNCHANGED <<payments, jobs, recorded>>

(* record_webhook.  A delivery id is new to the first insert only.         *)
IsNewDelivery(d) == d \notin recorded

RecordDelivery(d) ==
    /\ recorded' = recorded \cup {d}
    /\ UNCHANGED <<orders, payments, jobs, journal>>

(* settle_aban_payment: what it bails out on, the statuses it settles, and *)
(* the transaction of a settlement.                                        *)
VerificationAccepted(i, verified, amount) ==
    /\ verified
    /\ payments[i].status # "absent"
    /\ amount = orders[payments[i].order].amount

Settleable(o) == orders[o].status = "awaiting_payment"

QueuedJob == [status |-> "queued", attempts |-> 0, due |-> TRUE,
              lease |-> "none", owner |-> NULL]

SettlePayment(i) ==
    LET o == payments[i].order IN
    /\ payments' = [payments EXCEPT ![i].status = "paid"]
    /\ SetStatus(o, "paid")
    /\ jobs' = [jobs EXCEPT ![o] = IF @.status = "absent" THEN QueuedJob ELSE @]
    /\ AddEvent(o, "payment.verified")
    /\ UNCHANGED recorded

-----------------------------------------------------------------------------
(* claim_next_fulfillment_job.  Which of the due jobs is the oldest is     *)
(* left open: a job is claimed at most MaxAttempts times, so no property   *)
(* of finitely many orders depends on the ORDER BY.                        *)
Claimable(o) ==
    /\ jobs[o].status \in {"queued", "retryable_failure"}
    /\ jobs[o].due
    /\ jobs[o].lease \in {"none", "stale"}

TakeJob(o, w) ==
    /\ jobs' = [jobs EXCEPT ![o] = [status |-> "processing", attempts |-> @.attempts + 1,
                                    due |-> @.due, lease |-> "fresh", owner |-> w]]
    /\ IF orders[o].status = "paid" THEN SetStatus(o, "fulfillment_processing")
                                    ELSE UNCHANGED orders
    /\ UNCHANGED <<payments, journal, recorded>>

ClaimJob(o, w) == Claimable(o) /\ TakeJob(o, w)

(* finish_fulfillment_job: how a provider's result is filed.               *)
FulfillmentResult == {"succeeded", "retryable_failure", "manual_review", "permanent_failure"}

MaxAttempts == 3

RetriesLeft(attempts) == attempts < MaxAttempts

Exhausted == [job |-> "manual_review", order |-> "requires_review",
              event |-> "fulfillment.retry_exhausted"]

Filing(result, attempts) ==
    CASE result = "succeeded" ->
           [job |-> "succeeded", order |-> "fulfilled", event |-> "fulfillment.succeeded"]
      [] result = "manual_review" ->
           [job |-> "manual_review", order |-> "requires_review",
            event |-> "fulfillment.manual_review"]
      [] result = "permanent_failure" ->
           [job |-> "failed", order |-> "failed", event |-> "fulfillment.failed"]
      [] result = "retryable_failure" /\ ~RetriesLeft(attempts) -> Exhausted
      [] OTHER ->
           [job |-> "retryable_failure", order |-> "paid",
            event |-> "fulfillment.retryable_failure"]

(* On a retry the order keeps its status although the match arm names 'paid'. *)
UpdatesOrder(jobStatus) == jobStatus # "retryable_failure"

(* The job's row is updated whatever its status and owner are.             *)
FileJob(o, filing) ==
    LET retry == filing.job = "retryable_failure" IN
    /\ jobs' = [jobs EXCEPT ![o] = [status |-> filing.job, attempts |-> @.attempts,
                                    due |-> @.due /\ ~retry, lease |-> "none", owner |-> NULL]]
    /\ IF UpdatesOrder(filing.job) THEN SetStatus(o, filing.order) ELSE UNCHANGED orders
    /\ AddEvent(o, filing.event)
    /\ UNCHANGED <<payments, recorded>>

FinishJob(o, result) == FileJob(o, Filing(result, jobs[o].attempts))

-----------------------------------------------------------------------------
(* Time passes: a backoff of 30 s per attempt ends, a lock turns ten       *)
(* minutes old.                                                            *)
BackoffElapses(o) ==
    /\ jobs[o].status = "retryable_failure"
    /\ ~jobs[o].due
    /\ jobs' = [jobs EXCEPT ![o].due = TRUE]
    /\ UNCHANGED <<orders, payments, journal, recorded>>

LeaseAges(o) ==
    /\ jobs[o].lease = "fresh"
    /\ jobs' = [jobs EXCEPT ![o].lease = "stale"]
    /\ UNCHANGED <<orders, payments, journal, recorded>>

-----------------------------------------------------------------------------
(* What may become of the tables, with callers that finish a job only      *)
(* while it is in processing: one transaction after the other, each on the *)
(* rows as they are then, or time passing.  Every other condition is the   *)
(* transaction's own; finish_fulfillment_job leaves this one to its        *)
(* callers, and the worker's specification has to keep it.                 *)
StoreChange ==
    \/ \E o \in Orders, a \in Amounts : InsertOrder(o, a)
    \/ \E o \in Orders, i \in Invoices : CanRegister(o, i, orders[o].amount) /\ RegisterInvoice(o, i)
    \/ \E o \in Orders : MarkCreationFailed(o)
    \/ \E d \in Deliveries : IsNewDelivery(d) /\ RecordDelivery(d)
    \/ \E i \in Invoices, a \in Amounts : /\ VerificationAccepted(i, TRUE, a)
                                         /\ Settleable(payments[i].order)
                                         /\ SettlePayment(i)
    \/ \E o \in Orders, w \in Workers : ClaimJob(o, w)
    \/ \E o \in Orders, result \in FulfillmentResult :
         jobs[o].status = "processing" /\ FinishJob(o, result)
    \/ \E o \in Orders : BackoffElapses(o) \/ LeaseAges(o)

StoreSpec == StoreInit /\ [][StoreChange]_storeVars

-----------------------------------------------------------------------------
(* Properties.                                                             *)

(* A job's row: attempts, lock and owner go with the status.               *)
JobConsistent(o) ==
    LET job == jobs[o] IN
    /\ job.attempts <= MaxAttempts
    /\ job.status \in {"absent", "queued"} => job.attempts = 0
    /\ job.status \notin {"absent", "queued"} => job.attempts > 0
    /\ job.status = "retryable_failure" => RetriesLeft(job.attempts)
    /\ job.status # "processing" => job.lease = "none" /\ job.owner = NULL

(* The two tables, which claim and finish update one after the other, tell *)
(* the same story about an order.                                          *)
JobWithOrder ==
    {<<"absent", "absent">>, <<"absent", "payment_creating">>,
     <<"absent", "awaiting_payment">>, <<"absent", "failed">>,
     <<"queued", "paid">>, <<"processing", "fulfillment_processing">>,
     <<"retryable_failure", "fulfillment_processing">>,
     <<"manual_review", "requires_review">>, <<"succeeded", "fulfilled">>,
     <<"failed", "failed">>}

OrderFollowsJob == \A o \in Orders : <<jobs[o].status, orders[o].status>> \in JobWithOrder

(* Deliveries that race each other, repeat or come late settle an order at *)
(* most once (README.md:9).                                                *)
Verified(o) == Happened(o, "payment.verified")

SettledOnce ==
    \A o \in Orders : \A k, l \in DOMAIN journal[o] :
        journal[o][k] = "payment.verified" /\ journal[o][l] = "payment.verified" => k = l

(* An order has one payment at most, and none before it waits for it or    *)
(* after it was closed for want of an invoice.                             *)
OneInvoiceEach ==
    \A i, j \in Invoices :
        /\ payments[i].status # "absent"
        /\ payments[j].status # "absent"
        /\ payments[i].order = payments[j].order
        => i = j

InvoiceAwaited(i) ==
    LET o == payments[i].order IN
    payments[i].status # "absent" =>
        /\ orders[o].status \notin {"absent", "payment_creating"}
        /\ orders[o].status = "failed" => jobs[o].status # "absent"

(* A settlement is written to four tables, or to none: the payment is      *)
(* paid, its order is on its way, the event is there and there is a job.   *)
SettledWhole(o) ==
    /\ Verified(o) <=> jobs[o].status # "absent"
    /\ Verified(o) <=> \E i \in Invoices : payments[i] = [status |-> "paid", order |-> o]

(* The five tables agree, after each of the transactions, however they     *)
(* interleave: none decides on what another has changed meanwhile.  It     *)
(* takes callers that finish what they hold (see StoreChange).             *)
TablesAgree ==
    /\ \A o \in Orders : JobConsistent(o) /\ SettledWhole(o)
    /\ \A o \in Orders : orders[o].status # "absent" => orders[o].amount \in Amounts
    /\ \A i \in Invoices : InvoiceAwaited(i)
    /\ OrderFollowsJob
    /\ SettledOnce
    /\ OneInvoiceEach

TableInv == StoreTypeOK /\ TablesAgree

(* docs/architecture.md:24: an order's status only moves forward along the *)
(* chain or leaves it for failed or requires_review; no late delivery,     *)
(* repeated settlement or retry takes it back.                             *)
ChainLinks ==
    {<<"absent", "payment_creating">>, <<"payment_creating", "awaiting_payment">>,
     <<"payment_creating", "failed">>, <<"awaiting_payment", "paid">>,
     <<"paid", "fulfillment_processing">>, <<"fulfillment_processing", "fulfilled">>,
     <<"fulfillment_processing", "requires_review">>, <<"fulfillment_processing", "failed">>}

MovesAlong ==
    \A o \in Orders : \/ orders'[o].status = orders[o].status
                      \/ <<orders[o].status, orders'[o].status>> \in ChainLinks

=============================================================================
